--------------------------- MODULE Sandbox_proofs ---------------------------
(***************************************************************************)
(* What is proved of Sandbox for any number of calls, sandboxes, timers    *)
(* and jobs, and any number of turns, recyclings, failures, deletions and  *)
(* deaths: the count of users is right, so nothing pauses a sandbox under  *)
(* one.                                                                    *)
(***************************************************************************)
EXTENDS Sandbox, FiniteSetTheorems, TLAPS

(* The threads inside a sandbox_use block. *)
Blocks == {t \in Threads : InBlock(t)}

(* Where each kind of call can stand. *)
Shape ==
  \A t \in Threads :
    /\ th[t].pc \in {"exiting", "leaving"} => th[t].kind \in UseKinds
    /\ th[t].pc \in {"unregistering", "deciding"} => th[t].kind \notin UseKinds
    /\ th[t].pc = "popping" => th[t].kind = "unhand"
    /\ th[t].pc = "arming" => th[t].kind # "script"
    /\ th[t].pc = "registering" => th[t].kind = "launch"
    /\ th[t].kind = "launch" => th[t].job \in Jobs

(* A user's sandbox, from its creation to the end of the block, is not paused. *)
Held ==
  \A t \in Threads :
    InBlock(t) /\ th[t].pc \in {"saving", "adding", "working", "arming"} =>
      th[t].vm \in Sandboxes /\ vm[th[t].vm] # "paused"

(* What a step that neither opens nor closes a block does. *)
Quiet == Blocks' = Blocks /\ inUse' = inUse

(* The inductive invariant: Shape tells which threads are inside a block,   *)
(* and Held covers the steps before the ones UsersStayAwake names.          *)
IInv == TypeOK /\ Shape /\ Held /\ UseIsCounted

(* There are finitely many threads, so blocks can be counted. *)
LEMMA BlocksFinite == IsFiniteSet(Blocks)
<1>1. IsFiniteSet(Calls \cup {Screen} \cup {Poller} \cup {Control} \cup {Deleter} \cup {Turn})
  BY SandboxAssumption, FS_AddElement
<1>2. IsFiniteSet(Threads)
  <2>1. Threads = Calls \cup {Screen} \cup {Poller} \cup {Control} \cup {Deleter} \cup {Turn}
    BY DEF Threads
  <2> QED
    BY <1>1, <2>1
<1> QED
  BY <1>2, FS_Subset DEF Blocks

(* Nobody is counted: nobody is inside a block. *)
LEMMA NobodyInside ==
  ASSUME UseIsCounted, inUse = 0
  PROVE  Blocks = {}
BY BlocksFinite, FS_EmptySet DEF UseIsCounted, Blocks

(* One is counted: the thread at its block's end is alone. *)
LEMMA LastInside ==
  ASSUME UseIsCounted, inUse = 1, NEW t \in Blocks
  PROVE  Blocks = {t}
<1>1. Cardinality(Blocks) = 1
  BY DEF UseIsCounted, Blocks
<1>2. PICK x : Blocks = {x}
  BY <1>1, BlocksFinite, FS_Singleton
<1> QED
  BY <1>2

(* The count stays right when no block opens or closes. *)
LEMMA QuietStepCounts ==
  ASSUME UseIsCounted, Quiet
  PROVE  UseIsCounted'
BY DEF UseIsCounted, Quiet, Blocks

(* Threads that start without opening a block. *)
LEMMA StartsAreQuiet ==
  ASSUME TypeOK, Shape, Held,
         \/ StartTurn \/ StartPoll \/ Abandon \/ ControlExpires
            \/ StartDelete
         \/ \E c \in Calls : CallTool(c) \/ SetKeepalive(c)
  PROVE  TypeOK' /\ Shape' /\ Held' /\ Quiet
<1> USE DEF TypeOK, Shape, Held, Quiet, Blocks, InBlock, UseKinds, UsePC, CallKinds, PCs,
            Bounded, Threads, box, use, keep, bg, ghost, At, Goto, Done, State, Idle
<1>1. ASSUME StartTurn PROVE TypeOK' /\ Shape' /\ Held' /\ Quiet
  <2>1. keepalive' \in BOOLEAN
    BY <1>1, Zenon DEF StartTurn, Count, Begin
  <2> QED
    BY <1>1, <2>1 DEF StartTurn, Count, Begin
<1>2. ASSUME StartPoll PROVE TypeOK' /\ Shape' /\ Held' /\ Quiet
  BY <1>2 DEF StartPoll, Begin
<1>3. ASSUME Abandon PROVE TypeOK' /\ Shape' /\ Held' /\ Quiet
  BY <1>3 DEF Abandon
<1>4. ASSUME ControlExpires PROVE TypeOK' /\ Shape' /\ Held' /\ Quiet
  BY <1>4 DEF ControlExpires, Begin
<1>5. ASSUME StartDelete PROVE TypeOK' /\ Shape' /\ Held' /\ Quiet
  BY <1>5 DEF StartDelete, Count
<1>6. ASSUME NEW c \in Calls, CallTool(c) PROVE TypeOK' /\ Shape' /\ Held' /\ Quiet
  BY <1>6, SMTT(60) DEF CallTool, Count, CanCall, NewJobs, Begin
<1>7. ASSUME NEW c \in Calls, SetKeepalive(c) PROVE TypeOK' /\ Shape' /\ Held' /\ Quiet
  <2>1. keepalive' \in BOOLEAN
    BY <1>7, Zenon DEF SetKeepalive, Count, Cancel, CancelsTimer, CanCall, Begin
  <2> QED
    BY <1>7, <2>1, SMTT(60) DEF SetKeepalive, Count, Cancel, CancelsTimer, CanCall, Begin
<1> QED
  BY <1>1, <1>2, <1>3, <1>4, <1>5, <1>6, <1>7

(* get_or_create_sandbox. *)
LEMMA ConnectingIsQuiet ==
  ASSUME TypeOK, Shape, Held,
         \/ \E t \in Threads : Connect(t) \/ Save(t) \/ Add(t) \/ ConnectFails(t)
  PROVE  TypeOK' /\ Shape' /\ Held' /\ Quiet
<1> USE DEF TypeOK, Shape, Held, Quiet, Blocks, InBlock, UseKinds, UsePC, CallKinds, PCs,
            Bounded, Threads, box, use, keep, bg, ghost, At, Goto, Done, State, Idle
<1>1. ASSUME NEW t \in Threads, Connect(t) PROVE TypeOK' /\ Shape' /\ Held' /\ Quiet
  BY <1>1, SMTT(60) DEF Connect, Alive
<1>2. ASSUME NEW t \in Threads, Save(t) PROVE TypeOK' /\ Shape' /\ Held' /\ Quiet
  BY <1>2 DEF Save
<1>3. ASSUME NEW t \in Threads, Add(t) PROVE TypeOK' /\ Shape' /\ Held' /\ Quiet
  BY <1>3 DEF Add
<1>4. ASSUME NEW t \in Threads, ConnectFails(t) PROVE TypeOK' /\ Shape' /\ Held' /\ Quiet
  BY <1>4, SMTT(60) DEF ConnectFails, Count, Fails, HalfConnected, Alive, AfterFailure
<1> QED
  BY <1>1, <1>2, <1>3, <1>4

(* What the callers do with the sandbox. *)
LEMMA CallsAreQuiet ==
  ASSUME TypeOK, Shape, Held,
         \/ \E t \in Threads : CommandEnds(t) \/ ScriptEnds(t) \/ PlainEnds(t) \/ Launch(t)
                               \/ Register(t) \/ ReadStatus(t) \/ StopJob(t) \/ Unregister(t)
                               \/ Decide(t) \/ HandOver(t) \/ Arm(t)
  PROVE  TypeOK' /\ Shape' /\ Held' /\ Quiet
<1> USE DEF TypeOK, Shape, Held, Quiet, Blocks, InBlock, UseKinds, UsePC, CallKinds, PCs,
            Bounded, Threads, box, use, keep, bg, ghost, At, Goto, Done, State, Idle
<1>1. ASSUME NEW t \in Threads, CommandEnds(t) PROVE TypeOK' /\ Shape' /\ Held' /\ Quiet
  BY <1>1 DEF CommandEnds, Works
<1>2. ASSUME NEW t \in Threads, ScriptEnds(t) PROVE TypeOK' /\ Shape' /\ Held' /\ Quiet
  BY <1>2 DEF ScriptEnds, Works
<1>3. ASSUME NEW t \in Threads, PlainEnds(t) PROVE TypeOK' /\ Shape' /\ Held' /\ Quiet
  <2>1. keepalive' \in BOOLEAN
    BY <1>3, Zenon DEF PlainEnds, Works, Answers
  <2> QED
    BY <1>3, <2>1 DEF PlainEnds, Works, Answers
<1>4. ASSUME NEW t \in Threads, Launch(t) PROVE TypeOK' /\ Shape' /\ Held' /\ Quiet
  <2>1. spent' \in [Bounded -> Nat] /\ mishaps' = mishaps /\ announced' = announced
    BY <1>4 DEF Launch, Count, Fails, Works, Answers
  <2> QED
    BY <1>4, <2>1, SMTT(60) DEF Launch, Count, Fails, Works, Answers
<1>5. ASSUME NEW t \in Threads, Register(t) PROVE TypeOK' /\ Shape' /\ Held' /\ Quiet
  BY <1>5 DEF Register
<1>6. ASSUME NEW t \in Threads, ReadStatus(t) PROVE TypeOK' /\ Shape' /\ Held' /\ Quiet
  BY <1>6, SMTT(60) DEF ReadStatus, StatusIn, Works, Answers
<1>7. ASSUME NEW t \in Threads, StopJob(t) PROVE TypeOK' /\ Shape' /\ Held' /\ Quiet
  BY <1>7, SMTT(60) DEF StopJob, StatusIn, Works, Answers
<1>8. ASSUME NEW t \in Threads, Unregister(t) PROVE TypeOK' /\ Shape' /\ Held' /\ Quiet
  BY <1>8 DEF Unregister
<1>9. ASSUME NEW t \in Threads, Decide(t) PROVE TypeOK' /\ Shape' /\ Held' /\ Quiet
  BY <1>9 DEF Decide
<1>10. ASSUME NEW t \in Threads, HandOver(t) PROVE TypeOK' /\ Shape' /\ Held' /\ Quiet
  <2>1. keepalive' \in BOOLEAN /\ control' \in BOOLEAN
    BY <1>10, Zenon DEF HandOver, Works, Answers
  <2> QED
    BY <1>10, <2>1 DEF HandOver, Works, Answers
<1>11. ASSUME NEW t \in Threads, Arm(t) PROVE TypeOK' /\ Shape' /\ Held' /\ Quiet
  BY <1>11 DEF Arm, Finish, CancelsTimer
<1> QED
  BY <1>1, <1>2, <1>3, <1>4, <1>5, <1>6, <1>7, <1>8, <1>9, <1>10, <1>11

(* human_control.stop. *)
LEMMA ControlIsQuiet ==
  ASSUME TypeOK, Shape, Held,
         \/ \E t \in Threads : PopControl(t) \/ StopControl(t) \/ AskRun(t) \/ ReadFlag(t)
  PROVE  TypeOK' /\ Shape' /\ Held' /\ Quiet
<1> USE DEF TypeOK, Shape, Held, Quiet, Blocks, InBlock, UseKinds, UsePC, CallKinds, PCs,
            Bounded, Threads, box, use, keep, bg, ghost, At, Goto, Done, State, Idle
<1>1. ASSUME NEW t \in Threads, PopControl(t) PROVE TypeOK' /\ Shape' /\ Held' /\ Quiet
  <2>1. control' \in BOOLEAN
    BY <1>1, Zenon DEF PopControl
  <2> QED
    BY <1>1, <2>1 DEF PopControl
<1>2. ASSUME NEW t \in Threads, StopControl(t) PROVE TypeOK' /\ Shape' /\ Held' /\ Quiet
  BY <1>2 DEF StopControl, Works, Answers
<1>3. ASSUME NEW t \in Threads, AskRun(t) PROVE TypeOK' /\ Shape' /\ Held' /\ Quiet
  BY <1>3 DEF AskRun
<1>4. ASSUME NEW t \in Threads, ReadFlag(t) PROVE TypeOK' /\ Shape' /\ Held' /\ Quiet
  BY <1>4 DEF ReadFlag
<1> QED
  BY <1>1, <1>2, <1>3, <1>4

(* The capture's retry, the announcement, the end of the turn, the timers' *)
(* countdown and E2B.                                                       *)
LEMMA RestIsQuiet ==
  ASSUME TypeOK, Shape, Held,
         \/ CaptureFails \/ Notify \/ EndRun \/ CheckJobs \/ CancelTimer
            \/ Unmark \/ Destroy \/ ForgetStored
         \/ \E x \in Timers : Fire(x) \/ DropEntry(x)
         \/ \E j \in Jobs : JobExits(j)
         \/ \E v \in Sandboxes : Recycle(v)
  PROVE  TypeOK' /\ Shape' /\ Held' /\ Quiet
<1> USE DEF TypeOK, Shape, Held, Quiet, Blocks, InBlock, UseKinds, UsePC, CallKinds, PCs,
            Bounded, Threads, box, use, keep, bg, ghost, At, Goto, Done, State, Idle
<1>1. ASSUME CaptureFails PROVE TypeOK' /\ Shape' /\ Held' /\ Quiet
  BY <1>1 DEF CaptureFails, Works, Answers
<1>2. ASSUME Notify PROVE TypeOK' /\ Shape' /\ Held' /\ Quiet
  <2>1. announced' \in [Jobs -> Nat]
    <3>1. \A k \in Jobs : announced[k] + 1 \in Nat
      OBVIOUS
    <3>2. announced' = [announced EXCEPT ![th[Poller].job] = announced[th[Poller].job] + 1]
      BY <1>2 DEF Notify
    <3>3. announced \in [Jobs -> Nat]
      OBVIOUS
    <3> QED
      BY <3>1, <3>2, <3>3
  <2> QED
    BY <1>2, <2>1 DEF Notify
<1>3. ASSUME EndRun PROVE TypeOK' /\ Shape' /\ Held' /\ Quiet
  BY <1>3 DEF EndRun
<1>4. ASSUME CheckJobs PROVE TypeOK' /\ Shape' /\ Held' /\ Quiet
  BY <1>4 DEF CheckJobs
<1>5. ASSUME CancelTimer PROVE TypeOK' /\ Shape' /\ Held' /\ Quiet
  BY <1>5 DEF CancelTimer, Cancel, CancelsTimer
<1>6. ASSUME Unmark PROVE TypeOK' /\ Shape' /\ Held' /\ Quiet
  BY <1>6 DEF Unmark
<1>7. ASSUME Destroy PROVE TypeOK' /\ Shape' /\ Held' /\ Quiet
  BY <1>7 DEF Destroy, Count, Fails
<1>8. ASSUME ForgetStored PROVE TypeOK' /\ Shape' /\ Held' /\ Quiet
  BY <1>8 DEF ForgetStored
<1>9. ASSUME NEW x \in Timers, Fire(x) PROVE TypeOK' /\ Shape' /\ Held' /\ Quiet
  BY <1>9 DEF Fire
<1>10. ASSUME NEW x \in Timers, DropEntry(x) PROVE TypeOK' /\ Shape' /\ Held' /\ Quiet
  BY <1>10 DEF DropEntry
<1>11. ASSUME NEW j \in Jobs, JobExits(j) PROVE TypeOK' /\ Shape' /\ Held' /\ Quiet
  BY <1>11 DEF JobExits
<1>12. ASSUME NEW v \in Sandboxes, Recycle(v) PROVE TypeOK' /\ Shape' /\ Held' /\ Quiet
  BY <1>12 DEF Recycle, Count
<1> QED
  BY <1>1, <1>2, <1>3, <1>4, <1>5, <1>6, <1>7, <1>8, <1>9, <1>10, <1>11, <1>12

(* What a pause may change. *)
LEMMA PauseType ==
  ASSUME TypeOK, NEW v \in Sandboxes, PauseQuietly(v)
  PROVE  /\ vm' \in [Sandboxes -> {"none", "awake", "paused", "gone"}]
         /\ running' \in BOOLEAN
         /\ mishaps' \subseteq {"pause", "connect", "handover", "delete", "crash", "abandon"}
         /\ spent' \in [Bounded -> Nat]
<1> USE DEF TypeOK
<1>1. running' \in BOOLEAN
  BY Zenon DEF PauseQuietly
<1>2. vm' \in [Sandboxes -> {"none", "awake", "paused", "gone"}]
  BY SMT DEF PauseQuietly
<1>3. mishaps' \subseteq {"pause", "connect", "handover", "delete", "crash", "abandon"}
  BY DEF PauseQuietly
<1>4. spent' \in [Bounded -> Nat]
  BY DEF PauseQuietly, Count, Bounded
<1> QED
  BY <1>1, <1>2, <1>3, <1>4

(* A pause that asks whether the sandbox is in use: whoever still uses it    *)
(* stops the pause.                                                          *)
LEMMA PausesAreQuiet ==
  ASSUME TypeOK, Shape, Held, UseIsCounted,
         \/ \E t \in Threads : PauseStep(t)
         \/ \E x \in Timers : TimerPauses(x)
  PROVE  TypeOK' /\ Shape' /\ Held' /\ Quiet
<1> USE DEF TypeOK, Shape, Held, Quiet, InBlock, UseKinds, UsePC, CallKinds, PCs,
            Bounded, Threads, box, use, keep, bg, ghost, At, Goto, Done, State, Idle
<1>1. ASSUME NEW v \in Sandboxes \cup {Nil}, PauseIfIdle(v)
      PROVE  /\ vm' \in [Sandboxes -> {"none", "awake", "paused", "gone"}]
             /\ running' \in BOOLEAN
             /\ mishaps' \subseteq {"pause", "connect", "handover", "delete", "crash", "abandon"}
             /\ spent' \in [Bounded -> Nat]
             /\ Blocks = {} \/ vm' = vm
  <2>1. CASE inUse = 0 /\ v # Nil /\ PauseQuietly(v)
    <3>1. Blocks = {}
      BY <2>1, NobodyInside
    <3> QED
      BY <2>1, <3>1, PauseType
  <2>2. CASE (inUse > 0 \/ v = Nil) /\ UNCHANGED <<vm, running, mishaps, spent>>
    BY <2>2
  <2> QED
    BY <1>1, <2>1, <2>2 DEF PauseIfIdle
<1>2. ASSUME NEW t \in Threads, PauseStep(t) PROVE TypeOK' /\ Shape' /\ Held' /\ Quiet
  <2>1. PICK v \in Sandboxes \cup {Nil} : PauseIfIdle(v)
    BY <1>2 DEF PauseStep
  <2>2. TypeOK' /\ Shape' /\ Quiet
    BY <1>1, <1>2, <2>1 DEF PauseStep, Finish, Blocks
  <2>3. Held'
    BY <1>1, <1>2, <2>1, <2>2, SMTT(60) DEF PauseStep, Finish, Blocks
  <2> QED
    BY <2>2, <2>3
<1>3. ASSUME NEW x \in Timers, TimerPauses(x) PROVE TypeOK' /\ Shape' /\ Held' /\ Quiet
  <2>1. PauseIfIdle(stored) /\ stored \in Sandboxes \cup {Nil}
    BY <1>3 DEF TimerPauses
  <2>2. TypeOK' /\ Shape' /\ Quiet
    BY <1>1, <1>3, <2>1 DEF TimerPauses, Blocks
  <2>3. Held'
    BY <1>1, <1>3, <2>1, <2>2 DEF TimerPauses, Blocks
  <2> QED
    BY <2>2, <2>3
<1> QED
  BY <1>2, <1>3

(* Opening a block counts the thread that opens it. *)
LEMMA OpeningCounts ==
  ASSUME TypeOK, Shape, Held, UseIsCounted,
         StartScreen \/ \E c \in Calls : UseSandbox(c)
  PROVE  TypeOK' /\ Shape' /\ Held' /\ UseIsCounted'
<1> USE DEF TypeOK, Shape, Held, InBlock, UseKinds, UsePC, CallKinds, PCs,
            Bounded, Threads, box, use, keep, bg, ghost, At, State
<1>1. ASSUME NEW t \in Threads, t \notin Blocks, inUse' = inUse + 1, Blocks' = Blocks \cup {t}
      PROVE  UseIsCounted'
  <2>1. Cardinality(Blocks \cup {t}) = Cardinality(Blocks) + 1
    BY <1>1, BlocksFinite, FS_AddElement
  <2>2. inUse = Cardinality(Blocks)
    BY DEF UseIsCounted, Blocks
  <2>3. inUse' = Cardinality(Blocks')
    BY <1>1, <2>1, <2>2
  <2> QED
    BY <2>3 DEF UseIsCounted, Blocks
<1>2. ASSUME NEW c \in Calls, UseSandbox(c) PROVE TypeOK' /\ Shape' /\ Held' /\ UseIsCounted'
  <2>1. PICK k \in UseKinds : Begin(c, k, "getting", Nil)
    BY <1>2 DEF UseSandbox
  <2>2. TypeOK' /\ Shape' /\ Held'
    BY <1>2, <2>1 DEF UseSandbox, CanCall, EnterBlock, Count, Begin
  <2>3. c \notin Blocks /\ Blocks' = Blocks \cup {c} /\ inUse' = inUse + 1
    BY <1>2, <2>1 DEF UseSandbox, CanCall, EnterBlock, Begin, Blocks
  <2> QED
    BY <1>1, <2>2, <2>3
<1>3. ASSUME StartScreen PROVE TypeOK' /\ Shape' /\ Held' /\ UseIsCounted'
  <2>1. TypeOK' /\ Shape' /\ Held'
    BY <1>3 DEF StartScreen, EnterBlock, Count, Begin
  <2>2. Screen \notin Blocks /\ Blocks' = Blocks \cup {Screen} /\ inUse' = inUse + 1
    BY <1>3 DEF StartScreen, EnterBlock, Begin, Blocks
  <2> QED
    BY <1>1, <2>1, <2>2
<1> QED
  BY <1>2, <1>3

(* Leaving a block uncounts the thread, and pauses only behind the last one. *)
LEMMA ClosingCounts ==
  ASSUME TypeOK, Shape, Held, UseIsCounted,
         NEW t \in Threads, ExitBlock(t)
  PROVE  TypeOK' /\ Shape' /\ Held' /\ UseIsCounted'
<1> USE DEF TypeOK, Shape, Held, InBlock, UseKinds, UsePC, CallKinds, PCs,
            Bounded, Threads, box, use, keep, bg, ghost, At, Done, State, Idle
<1>1. t \in Blocks /\ Blocks' = Blocks \ {t} /\ inUse' = inUse - 1
  BY DEF ExitBlock, Blocks
<1>2. inUse = Cardinality(Blocks) /\ Cardinality(Blocks \ {t}) = Cardinality(Blocks) - 1
  BY <1>1, BlocksFinite, FS_RemoveElement, ZenonT(60) DEF UseIsCounted, Blocks
<1>3. inUse' = Cardinality(Blocks') /\ inUse' \in Nat
  <2>1. Cardinality(Blocks \ {t}) \in Nat
    BY BlocksFinite, FS_RemoveElement, FS_CardinalityType
  <2> QED
    BY <1>1, <1>2, <2>1
<1>4. CASE inUse = 1 /\ At(t, "exiting") /\ th[t].vm # Nil /\ PauseQuietly(th[t].vm)
  <2>1. Blocks' = {}
    BY <1>1, <1>4, LastInside
  <2>2. /\ vm' \in [Sandboxes -> {"none", "awake", "paused", "gone"}]
        /\ running' \in BOOLEAN
        /\ mishaps' \subseteq {"pause", "connect", "handover", "delete", "crash", "abandon"}
        /\ spent' \in [Bounded -> Nat]
    <3>1. th[t].vm \in Sandboxes
      BY <1>4
    <3> QED
      BY <1>4, <3>1, PauseType
  <2>3. TypeOK' /\ Shape'
    BY <1>3, <2>2 DEF ExitBlock
  <2> QED
    BY <1>3, <2>1, <2>3 DEF UseIsCounted, Blocks
<1>5. CASE UNCHANGED <<vm, running, mishaps, spent>>
  <2>1. TypeOK' /\ Shape' /\ Held'
    BY <1>3, <1>5 DEF ExitBlock
  <2> QED
    BY <1>3, <2>1 DEF UseIsCounted, Blocks
<1> QED
  BY <1>4, <1>5 DEF ExitBlock

(* A death closes every block and forgets the count. *)
LEMMA CrashCounts ==
  ASSUME TypeOK, Crash
  PROVE  TypeOK' /\ Shape' /\ Held' /\ UseIsCounted'
<1> USE DEF Crash, TypeOK, Shape, Held, InBlock, UseKinds, UsePC, CallKinds, PCs,
            Bounded, box, bg, State, Idle
<1>1. keepalive' \in BOOLEAN /\ control' \in BOOLEAN /\ running' \in BOOLEAN
  BY Zenon
<1>2. TypeOK' /\ Shape' /\ Held'
  BY <1>1 DEF Count
<1>3. Blocks' = {}
  BY DEF Blocks
<1> QED
  BY <1>2, <1>3, FS_EmptySet DEF UseIsCounted, Blocks

----------------------------------------------------------------------------
(* The invariant: at the start, over a step, always. *)
LEMMA InitInv == ASSUME Init PROVE IInv
<1> USE DEF Init, InBlock, UseKinds, UsePC, State, Idle
<1>1. keepalive \in BOOLEAN /\ control \in BOOLEAN /\ running \in BOOLEAN
  BY Zenon
<1>2. TypeOK
  BY <1>1 DEF TypeOK, PCs, CallKinds, Bounded
<1>3. Shape /\ Held
  BY DEF Shape, Held
<1>4. Blocks = {}
  BY DEF Blocks
<1> QED
  BY <1>2, <1>3, <1>4, FS_EmptySet DEF IInv, UseIsCounted, Blocks

LEMMA StepInv == ASSUME IInv, [Next]_vars PROVE IInv'
<1> USE DEF IInv
<1>1. ASSUME Quiet, TypeOK', Shape', Held' PROVE IInv'
  BY <1>1, QuietStepCounts
<1>2. CASE StartTurn \/ StartPoll \/ Abandon \/ ControlExpires \/ StartDelete
  BY <1>1, <1>2, StartsAreQuiet
<1>3. ASSUME NEW c \in Calls, CallStarts(c) PROVE IInv'
  BY <1>1, <1>3, StartsAreQuiet, OpeningCounts DEF CallStarts
<1>4. ASSUME NEW t \in Threads, Connecting(t) \/ ConnectFails(t) PROVE IInv'
  BY <1>1, <1>4, ConnectingIsQuiet DEF Connecting
<1>5. ASSUME NEW t \in Threads, Working(t) PROVE IInv'
  BY <1>1, <1>5, CallsAreQuiet, ControlIsQuiet, PausesAreQuiet, ClosingCounts DEF Working
<1>6. CASE CaptureFails \/ Notify \/ TurnEnds \/ Destroy \/ ForgetStored
  BY <1>1, <1>6, RestIsQuiet DEF TurnEnds
<1>7. ASSUME NEW x \in Timers, TimerStep(x) PROVE IInv'
  BY <1>1, <1>7, RestIsQuiet, PausesAreQuiet DEF TimerStep
<1>8. ASSUME NEW j \in Jobs, JobExits(j) PROVE IInv'
  BY <1>1, <1>8, RestIsQuiet
<1>9. ASSUME NEW v \in Sandboxes, Recycle(v) PROVE IInv'
  BY <1>1, <1>9, RestIsQuiet
<1>10. CASE StartScreen
  BY <1>10, OpeningCounts
<1>11. CASE Crash
  BY <1>11, CrashCounts
<1>12. CASE UNCHANGED vars
  BY <1>12 DEF vars, box, use, keep, bg, ghost, TypeOK, Shape, Held, UseIsCounted, InBlock
<1> QED
  BY <1>2, <1>3, <1>4, <1>5, <1>6, <1>7, <1>8, <1>9, <1>10, <1>11, <1>12 DEF Next

LEMMA Invariant == Spec => []IInv
<1> QED
  BY InitInv, StepInv, PTL DEF Spec

(* Every variable keeps its type: _in_use never goes below zero.             *)
THEOREM TypeInvariant == Spec => []TypeOK
<1>1. IInv => TypeOK
  BY DEF IInv
<1> QED
  BY <1>1, Invariant, PTL

(* sandbox_use counts exactly the blocks that are open, whatever fails.      *)
THEOREM UseCountIsExact == Spec => []UseIsCounted
<1>1. IInv => UseIsCounted
  BY DEF IInv
<1> QED
  BY <1>1, Invariant, PTL

(* No timer, poll, turn's end or other call pauses a sandbox_use block's     *)
(* sandbox under it.                                                         *)
THEOREM NeverPausedUnderUser == Spec => []UsersStayAwake
<1>1. IInv => UsersStayAwake
  BY DEF IInv, Held, UsersStayAwake
<1> QED
  BY <1>1, Invariant, PTL

----------------------------------------------------------------------------
(* One sandbox per thread.                                                  *)

Calm == mishaps \cap {"delete", "crash", "connect"} = {}

Saves(t) == th[t].pc = "saving"

(* Beside OneSandbox: whoever created a sandbox has the store to itself,    *)
(* and every sandbox a thread still holds is the stored one or gone.        *)
OneSaver ==
  /\ \A t, u \in Threads : Saves(t) /\ Saves(u) => t = u
  /\ \A t \in Threads : Saves(t) => stored = Nil

HeldIsStored ==
  /\ \A t \in Threads :
       th[t].vm # Nil =>
         /\ vm[th[t].vm] # "none"
         /\ Saves(t) \/ th[t].vm = stored \/ vm[th[t].vm] = "gone"
  /\ stored # Nil => vm[stored] # "none"

NoDeletion == th[Deleter].pc \notin {"destroying", "forgetting"}

AwakeIsKept ==
  \A v \in Sandboxes : vm[v] = "awake" => v = stored \/ \E t \in Threads : Saves(t) /\ th[t].vm = v

OneBox == Calm => OneSaver /\ HeldIsStored /\ NoDeletion /\ AwakeIsKept

BoxInv == IInv /\ OneBox

(* A step that leaves the store and the sandboxes alone, and starts neither  *)
(* a creation nor a deletion.                                               *)
BoxFrame ==
  /\ UNCHANGED box
  /\ \A t \in Threads :
       /\ Saves(t)' <=> Saves(t)
       /\ th'[t].vm = th[t].vm \/ (th'[t].vm = Nil /\ ~Saves(t))
  /\ th[Deleter].pc \notin {"destroying", "forgetting"} => th'[Deleter].pc \notin {"destroying", "forgetting"}
  /\ mishaps \subseteq mishaps'

LEMMA FrameKeepsBox == ASSUME OneBox, BoxFrame PROVE OneBox'
BY DEF BoxFrame, OneBox, Calm, OneSaver, HeldIsStored, NoDeletion, AwakeIsKept, Saves, box

LEMMA StepsThatFrame ==
  ASSUME TypeOK, Shape,
         \/ StartTurn \/ StartScreen \/ StartPoll \/ Abandon \/ ControlExpires
         \/ \E c \in Calls : CallStarts(c)
         \/ CaptureFails \/ Notify \/ TurnEnds
         \/ \E x \in Timers : Fire(x) \/ DropEntry(x)
         \/ \E j \in Jobs : JobExits(j)
         \/ \E t \in Threads : Add(t) \/ CommandEnds(t) \/ ScriptEnds(t) \/ PlainEnds(t) \/ Launch(t)
                               \/ Register(t) \/ ReadStatus(t) \/ StopJob(t) \/ Unregister(t)
                               \/ Decide(t) \/ HandOver(t) \/ Arm(t)
                               \/ PopControl(t) \/ StopControl(t) \/ AskRun(t) \/ ReadFlag(t)
  PROVE  BoxFrame
<1> USE DEF TypeOK, BoxFrame, Saves, Threads, box, ghost, At, Goto, Done, State, Idle, Begin, Works, Answers
<1>1. CASE StartTurn \/ StartScreen \/ StartPoll \/ Abandon \/ ControlExpires
  <2>1. CASE StartTurn
    BY <2>1 DEF StartTurn
  <2>2. CASE StartScreen
    BY <2>2 DEF StartScreen
  <2>3. CASE StartPoll
    BY <2>3 DEF StartPoll
  <2>4. CASE Abandon
    BY <2>4 DEF Abandon
  <2>5. CASE ControlExpires
    BY <2>5 DEF ControlExpires
  <2> QED
    BY <1>1, <2>1, <2>2, <2>3, <2>4, <2>5
<1>2. ASSUME NEW c \in Calls, CallStarts(c) PROVE BoxFrame
  <2>1. CASE UseSandbox(c)
    BY <2>1, SandboxAssumption DEF UseSandbox, CanCall
  <2>2. CASE CallTool(c)
    BY <2>2, SandboxAssumption DEF CallTool, CanCall
  <2>3. CASE SetKeepalive(c)
    BY <2>3, SandboxAssumption DEF SetKeepalive, CanCall
  <2> QED
    BY <1>2, <2>1, <2>2, <2>3 DEF CallStarts
<1>3. CASE CaptureFails \/ Notify \/ TurnEnds
  BY <1>3 DEF CaptureFails, Notify, TurnEnds, EndRun, CheckJobs, CancelTimer, Unmark
<1>4. ASSUME NEW x \in Timers, Fire(x) \/ DropEntry(x) PROVE BoxFrame
  BY <1>4 DEF Fire, DropEntry
<1>5. ASSUME NEW j \in Jobs, JobExits(j) PROVE BoxFrame
  BY <1>5 DEF JobExits
<1>6. ASSUME NEW t \in Threads, Add(t) \/ CommandEnds(t) \/ ScriptEnds(t) \/ PlainEnds(t) PROVE BoxFrame
  BY <1>6, SMTT(60) DEF Add, CommandEnds, ScriptEnds, PlainEnds
<1>7. ASSUME NEW t \in Threads, Launch(t) \/ Register(t) \/ ReadStatus(t) PROVE BoxFrame
  <2>1. CASE Launch(t)
    BY <2>1 DEF Launch
  <2>2. CASE Register(t)
    BY <2>2 DEF Register
  <2>3. CASE ReadStatus(t)
    BY <2>3 DEF ReadStatus
  <2> QED
    BY <1>7, <2>1, <2>2, <2>3
<1>8. ASSUME NEW t \in Threads, StopJob(t) \/ Unregister(t) \/ Decide(t) \/ HandOver(t) PROVE BoxFrame
  BY <1>8, SMTT(60) DEF StopJob, Unregister, Decide, HandOver
<1>9. ASSUME NEW t \in Threads, Arm(t) PROVE BoxFrame
  BY <1>9, SMTT(60) DEF Arm, Finish
<1>10. ASSUME NEW t \in Threads, PopControl(t) \/ StopControl(t) \/ AskRun(t) \/ ReadFlag(t) PROVE BoxFrame
  BY <1>10, SMTT(60) DEF PopControl, StopControl, AskRun, ReadFlag
<1> QED
  BY <1>1, <1>2, <1>3, <1>4, <1>5, <1>6, <1>7, <1>8, <1>9, <1>10

(* A pause wakes nothing but the sandbox it failed to pause.                *)
LEMMA PauseMoves ==
  ASSUME TypeOK, NEW v \in Sandboxes, PauseQuietly(v)
  PROVE  /\ \A u \in Sandboxes : u # v => vm'[u] = vm[u]
         /\ vm[v] = "gone" => vm'[v] = "gone"
         /\ vm[v] # "gone" => vm'[v] \in {vm[v], "awake", "paused"}
         /\ mishaps \subseteq mishaps'
BY DEF PauseQuietly, TypeOK

(* A pause of the stored sandbox, or of one that a thread holds.            *)
LEMMA PauseKeepsBox ==
  ASSUME TypeOK, OneBox, NEW v \in Sandboxes \cup {Nil},
         v = stored \/ \E t \in Threads : v = th[t].vm /\ ~Saves(t),
         \/ v \in Sandboxes /\ PauseQuietly(v)
         \/ UNCHANGED <<vm, mishaps>>,
         stored' = stored,
         \A t \in Threads :
           /\ Saves(t)' <=> Saves(t)
           /\ th'[t].vm = th[t].vm \/ (th'[t].vm = Nil /\ ~Saves(t)),
         NoDeletion => NoDeletion'
  PROVE  OneBox'
<1> SUFFICES ASSUME Calm' PROVE OneSaver' /\ HeldIsStored' /\ NoDeletion' /\ AwakeIsKept'
  BY DEF OneBox
<1>0. /\ \A u \in Sandboxes : u # v => vm'[u] = vm[u]
      /\ v \in Sandboxes /\ vm[v] = "gone" => vm'[v] = "gone"
      /\ v \in Sandboxes /\ vm[v] # "gone" => vm'[v] \in {vm[v], "awake", "paused"}
      /\ mishaps \subseteq mishaps'
  BY PauseMoves
<1>1. OneSaver /\ HeldIsStored /\ NoDeletion /\ AwakeIsKept
  BY <1>0 DEF Calm, OneBox
<1>2. OneSaver' /\ NoDeletion'
  BY <1>1 DEF OneSaver
<1>3. HeldIsStored'
  BY <1>0, <1>1 DEF HeldIsStored, TypeOK
<1>4. v \in Sandboxes /\ vm[v] # "gone" => v = stored
  BY <1>1, SandboxAssumption DEF HeldIsStored
<1>5. AwakeIsKept'
  <2> SUFFICES ASSUME NEW u \in Sandboxes, vm'[u] = "awake", u # stored
               PROVE  \E t \in Threads : Saves(t)' /\ th'[t].vm = u
    BY DEF AwakeIsKept
  <2>1. vm[u] = "awake"
    BY <1>0, <1>4
  <2>2. PICK t \in Threads : Saves(t) /\ th[t].vm = u
    BY <1>1, <2>1 DEF AwakeIsKept
  <2> QED
    BY <2>2
<1> QED
  BY <1>2, <1>3, <1>5

(* The steps that touch the store or a sandbox. *)
LEMMA ConnectKeepsBox ==
  ASSUME TypeOK, Held, OneBox, NEW t \in Threads, Connect(t)
  PROVE  OneBox'
<1> SUFFICES ASSUME Calm' PROVE OneSaver' /\ HeldIsStored' /\ NoDeletion' /\ AwakeIsKept'
  BY DEF OneBox
<1>0. /\ th[t].pc = "getting" /\ \A u \in Threads : ~Saves(u)
      /\ mishaps' = mishaps
      /\ stored \in Sandboxes \cup {Nil} /\ vm \in [Sandboxes -> {"none", "awake", "paused", "gone"}]
      /\ th \in [Threads -> [pc: PCs, kind: CallKinds \cup {"none", "poll", "turn", "delete"},
                             vm: Sandboxes \cup {Nil}, job: Jobs \cup {Nil},
                             status: {"none", "RUNNING", "EXITED", "UNKNOWN"}]]
  BY DEF Connect, At, LockFree, Saves, ghost, TypeOK
<1>1. OneSaver /\ HeldIsStored /\ NoDeletion /\ AwakeIsKept
  BY <1>0 DEF Calm, OneBox
<1>2. CASE /\ stored \in Alive
           /\ vm' = [vm EXCEPT ![stored] = "awake"]
           /\ th' = [th EXCEPT ![t] = State("adding", @.kind, stored, @.job)]
           /\ UNCHANGED stored
  <2>1. /\ th'[t].pc = "adding" /\ th'[t].vm = stored
        /\ \A u \in Threads \ {t} : th'[u] = th[u]
    BY <1>0, <1>2 DEF State
  <2>2. \A u \in Threads : ~Saves(u)'
    BY <1>0, <2>1 DEF Saves
  <2>3. \A u \in Sandboxes \ {stored} : vm'[u] = vm[u]
    BY <1>0, <1>2
  <2>4. vm'[stored] = "awake" /\ vm[stored] # "gone"
    BY <1>0, <1>2 DEF Alive
  <2>5. OneSaver' /\ NoDeletion'
    BY <1>1, <2>1, <2>2 DEF OneSaver, NoDeletion, Threads
  <2>6. HeldIsStored'
    BY <1>0, <1>1, <1>2, <2>1, <2>3, <2>4 DEF HeldIsStored
  <2>7. AwakeIsKept'
    BY <1>0, <1>1, <1>2, <2>3 DEF AwakeIsKept
  <2> QED
    BY <2>5, <2>6, <2>7
<1>3. ASSUME stored \notin Alive, stored' = Nil, NEW v \in Sandboxes, vm[v] = "none",
             vm' = [vm EXCEPT ![v] = "awake"],
             th' = [th EXCEPT ![t] = State("saving", @.kind, v, @.job)]
      PROVE  OneSaver' /\ HeldIsStored' /\ NoDeletion' /\ AwakeIsKept'
  <2>1. /\ th'[t].pc = "saving" /\ th'[t].vm = v
        /\ \A u \in Threads \ {t} : th'[u] = th[u]
    BY <1>0, <1>3 DEF State
  <2>2. \A u \in Threads : Saves(u)' <=> u = t
    BY <1>0, <2>1 DEF Saves
  <2>3. vm'[v] = "awake" /\ \A u \in Sandboxes \ {v} : vm'[u] = vm[u]
    BY <1>0, <1>3
  <2>4. stored # Nil => vm[stored] = "gone"
    BY <1>0, <1>1, <1>3 DEF Alive, HeldIsStored
  <2>5. OneSaver' /\ NoDeletion'
    BY <1>1, <1>3, <2>1, <2>2 DEF OneSaver, NoDeletion, Threads
  <2>6. \A u \in Threads : th[u].vm # Nil => vm[th[u].vm] = "gone" /\ th[u].vm # v
    BY <1>0, <1>1, <1>3, <2>4 DEF HeldIsStored
  <2>7. HeldIsStored'
    BY <1>0, <1>3, <2>1, <2>2, <2>3, <2>6 DEF HeldIsStored
  <2>8. AwakeIsKept'
    <3>1. ASSUME NEW u \in Sandboxes, vm'[u] = "awake" PROVE u = v
      <4> SUFFICES ASSUME u # v PROVE FALSE
        OBVIOUS
      <4>1. vm[u] = "awake"
        BY <2>3, <3>1
      <4>2. u = stored
        BY <1>0, <1>1, <4>1 DEF AwakeIsKept
      <4> QED
        BY <2>4, <4>1, <4>2, SandboxAssumption
    <3> QED
      BY <2>1, <2>2, <3>1 DEF AwakeIsKept
  <2> QED
    BY <2>5, <2>7, <2>8
<1> QED
  BY <1>2, <1>3 DEF Connect

LEMMA SaveKeepsBox ==
  ASSUME TypeOK, Held, OneBox, NEW t \in Threads, Save(t)
  PROVE  OneBox'
<1> SUFFICES ASSUME Calm' PROVE OneSaver' /\ HeldIsStored' /\ NoDeletion' /\ AwakeIsKept'
  BY DEF OneBox
<1>0. /\ Saves(t) /\ stored' = th[t].vm /\ vm' = vm /\ mishaps' = mishaps
      /\ th' = [th EXCEPT ![t].pc = "adding"]
      /\ th \in [Threads -> [pc: PCs, kind: CallKinds \cup {"none", "poll", "turn", "delete"},
                             vm: Sandboxes \cup {Nil}, job: Jobs \cup {Nil},
                             status: {"none", "RUNNING", "EXITED", "UNKNOWN"}]]
  BY DEF Save, At, Goto, Saves, ghost, TypeOK
<1>1. OneSaver /\ HeldIsStored /\ NoDeletion /\ AwakeIsKept
  BY <1>0 DEF Calm, OneBox
<1>2. /\ th'[t].pc = "adding" /\ th'[t].vm = th[t].vm
      /\ \A u \in Threads \ {t} : th'[u] = th[u]
  BY <1>0
<1>3. stored = Nil /\ \A u \in Threads : Saves(u) => u = t
  BY <1>0, <1>1 DEF OneSaver
<1>4. \A u \in Threads : ~Saves(u)'
  BY <1>2, <1>3 DEF Saves
<1>5. OneSaver' /\ NoDeletion'
  BY <1>1, <1>2, <1>4 DEF OneSaver, NoDeletion, Threads
<1>6. AwakeIsKept'
  BY <1>0, <1>1, <1>3, SandboxAssumption DEF AwakeIsKept
<1>7. th[t].vm # Nil => vm[th[t].vm] # "none"
  BY <1>1 DEF HeldIsStored
<1>8. HeldIsStored'
  BY <1>0, <1>1, <1>2, <1>3, <1>4, <1>7 DEF HeldIsStored
<1> QED
  BY <1>5, <1>6, <1>8

LEMMA PausesKeepBox ==
  ASSUME IInv, OneBox,
         \/ \E t \in Threads : PauseStep(t) \/ ExitBlock(t)
         \/ \E x \in Timers : TimerPauses(x)
  PROVE  OneBox'
<1> /\ TypeOK /\ stored \in Sandboxes \cup {Nil}
    /\ th \in [Threads -> [pc: PCs, kind: CallKinds \cup {"none", "poll", "turn", "delete"},
                           vm: Sandboxes \cup {Nil}, job: Jobs \cup {Nil},
                           status: {"none", "RUNNING", "EXITED", "UNKNOWN"}]]
  BY DEF IInv, TypeOK
<1>1. ASSUME NEW t \in Threads, PauseStep(t) PROVE OneBox'
  <2>1. /\ th[t].pc = "pausing" /\ stored' = stored
        /\ \E v \in Sandboxes \cup {Nil} : PauseIfIdle(v) /\ (v = stored \/ v = th[t].vm)
        /\ Goto(t, "left") \/ Goto(t, "notifying") \/ Done(t)
    BY <1>1 DEF PauseStep, Finish, At
  <2>2. PICK v \in Sandboxes \cup {Nil} : PauseIfIdle(v) /\ (v = stored \/ v = th[t].vm)
    BY <2>1
  <2>3. \A u \in Threads :
          /\ Saves(u)' <=> Saves(u)
          /\ th'[u].vm = th[u].vm \/ (th'[u].vm = Nil /\ ~Saves(u))
    BY <2>1 DEF Goto, Done, Idle, State, Saves
  <2>4. NoDeletion => NoDeletion'
    BY <2>1 DEF Goto, Done, Idle, State, NoDeletion, Threads
  <2>5. (v \in Sandboxes /\ PauseQuietly(v)) \/ UNCHANGED <<vm, mishaps>>
    BY <2>2 DEF PauseIfIdle
  <2> QED
    BY <2>1, <2>2, <2>3, <2>4, <2>5, PauseKeepsBox DEF Saves
<1>2. ASSUME NEW t \in Threads, ExitBlock(t) PROVE OneBox'
  <2>1. /\ th[t].pc \in {"exiting", "leaving"} /\ stored' = stored /\ Done(t)
        /\ (th[t].vm # Nil /\ PauseQuietly(th[t].vm)) \/ UNCHANGED <<vm, mishaps>>
    BY <1>2 DEF ExitBlock
  <2>2. \A u \in Threads :
          /\ Saves(u)' <=> Saves(u)
          /\ th'[u].vm = th[u].vm \/ (th'[u].vm = Nil /\ ~Saves(u))
    BY <2>1 DEF Done, Idle, State, Saves
  <2>3. NoDeletion => NoDeletion'
    BY <2>1 DEF Done, Idle, State, NoDeletion, Threads
  <2>4. ~Saves(t) /\ th[t].vm \in Sandboxes \cup {Nil}
    BY <2>1 DEF Saves
  <2> QED
    BY <2>1, <2>2, <2>3, <2>4, PauseKeepsBox
<1>3. ASSUME NEW x \in Timers, TimerPauses(x) PROVE OneBox'
  <2>1. /\ th' = th /\ stored' = stored
        /\ (stored \in Sandboxes /\ PauseQuietly(stored)) \/ UNCHANGED <<vm, mishaps>>
    BY <1>3 DEF TimerPauses, PauseIfIdle
  <2>2. \A u \in Threads :
          /\ Saves(u)' <=> Saves(u)
          /\ th'[u].vm = th[u].vm \/ (th'[u].vm = Nil /\ ~Saves(u))
    BY <2>1 DEF Saves
  <2>3. NoDeletion => NoDeletion'
    BY <2>1 DEF NoDeletion
  <2> QED
    BY <2>1, <2>2, <2>3, PauseKeepsBox
<1> QED
  BY <1>1, <1>2, <1>3

(* What is deleted, recycled or half created, and a death. *)
LEMMA LossesKeepBox ==
  ASSUME TypeOK, OneBox,
         \/ StartDelete \/ Destroy \/ ForgetStored \/ Crash
         \/ \E t \in Threads : ConnectFails(t)
         \/ \E v \in Sandboxes : Recycle(v)
  PROVE  OneBox'
<1>1. CASE StartDelete \/ Crash \/ \E t \in Threads : ConnectFails(t)
  <2>1. "delete" \in mishaps' \/ "crash" \in mishaps' \/ "connect" \in mishaps'
    BY <1>1 DEF StartDelete, Crash, ConnectFails
  <2> QED
    BY <2>1 DEF OneBox, Calm
<1>2. CASE Destroy \/ ForgetStored
  <2>1. mishaps' = mishaps /\ th[Deleter].pc \in {"destroying", "forgetting"}
    BY <1>2 DEF Destroy, ForgetStored, At, ghost
  <2> QED
    BY <2>1 DEF OneBox, Calm, NoDeletion
<1>3. ASSUME NEW v \in Sandboxes, Recycle(v) PROVE OneBox'
  <2> SUFFICES ASSUME Calm PROVE OneSaver' /\ HeldIsStored' /\ NoDeletion' /\ AwakeIsKept'
    BY <1>3 DEF OneBox, Calm, Recycle
  <2>1. /\ UNCHANGED <<th, stored>> /\ vm' = [vm EXCEPT ![v] = "gone"]
        /\ vm \in [Sandboxes -> {"none", "awake", "paused", "gone"}]
    BY <1>3 DEF Recycle, TypeOK
  <2>2. OneSaver /\ HeldIsStored /\ NoDeletion /\ AwakeIsKept
    BY DEF OneBox
  <2> QED
    BY <2>1, <2>2 DEF OneSaver, HeldIsStored, NoDeletion, AwakeIsKept, Saves
<1> QED
  BY <1>1, <1>2, <1>3

LEMMA BoxInit == Init => BoxInv
<1> SUFFICES ASSUME Init PROVE BoxInv
  OBVIOUS
<1>1. \A t \in Threads : th[t].pc = "idle" /\ th[t].vm = Nil
  BY DEF Init, Idle, State
<1>2. stored = Nil /\ \A v \in Sandboxes : vm[v] = "none"
  BY DEF Init
<1>3. OneSaver /\ HeldIsStored /\ NoDeletion /\ AwakeIsKept
  BY <1>1, <1>2 DEF OneSaver, HeldIsStored, NoDeletion, AwakeIsKept, Saves, Threads
<1> QED
  BY <1>3, InitInv DEF BoxInv, OneBox

LEMMA BoxStep == BoxInv /\ [Next]_vars => BoxInv'
<1> SUFFICES ASSUME BoxInv, [Next]_vars PROVE OneBox'
  BY StepInv DEF BoxInv
<1>0. IInv /\ OneBox /\ TypeOK /\ Shape /\ Held
  BY DEF BoxInv, IInv
<1>1. CASE StartTurn \/ StartScreen \/ StartPoll \/ Abandon \/ ControlExpires \/ CaptureFails \/ Notify \/ TurnEnds
  BY <1>0, <1>1, StepsThatFrame, FrameKeepsBox
<1>2. CASE \/ \E c \in Calls : CallStarts(c)
           \/ \E j \in Jobs : JobExits(j)
  BY <1>0, <1>2, StepsThatFrame, FrameKeepsBox
<1>3. ASSUME NEW t \in Threads, Connecting(t) \/ ConnectFails(t) PROVE OneBox'
  BY <1>0, <1>3, StepsThatFrame, FrameKeepsBox, ConnectKeepsBox, SaveKeepsBox, LossesKeepBox DEF Connecting
<1>4. ASSUME NEW t \in Threads, Working(t) PROVE OneBox'
  BY <1>0, <1>4, StepsThatFrame, FrameKeepsBox, PausesKeepBox DEF Working
<1>5. ASSUME NEW x \in Timers, TimerStep(x) PROVE OneBox'
  BY <1>0, <1>5, StepsThatFrame, FrameKeepsBox, PausesKeepBox DEF TimerStep
<1>6. CASE \/ StartDelete \/ Destroy \/ ForgetStored \/ Crash
           \/ \E v \in Sandboxes : Recycle(v)
  BY <1>0, <1>6, LossesKeepBox
<1>7. CASE UNCHANGED vars
  BY <1>0, <1>7, FrameKeepsBox DEF BoxFrame, vars, box, ghost, Saves
<1> QED
  BY <1>1, <1>2, <1>3, <1>4, <1>5, <1>6, <1>7 DEF Next

(* Whoever connects, parallel callers share one sandbox: unless a deletion,  *)
(* a death or a failed connection came between, every sandbox but the stored *)
(* one and the one being stored is paused or gone.                           *)
THEOREM CallersShareOneSandbox == Spec => []OneSandbox
<1>1. BoxInv => OneSandbox
  <2> SUFFICES ASSUME BoxInv, Calm PROVE AwakeIsKept
    BY DEF OneSandbox, Calm, AwakeIsKept, Saves, At
  <2> QED
    BY DEF BoxInv, OneBox
<1> QED
  BY <1>1, BoxInit, BoxStep, PTL DEF Spec

----------------------------------------------------------------------------
(* The poller announces a job once.                                         *)

(* A call that is launching job j: it has an id and is not registered yet.  *)
Launches(t, j) ==
  th[t].kind = "launch" /\ th[t].job = j /\ th[t].pc \in {"getting", "saving", "adding", "working", "registering"}

Polls(j) == th[Poller].kind = "poll" /\ th[Poller].job = j

(* The poller saw that its job no longer runs. *)
SawEnd == th[Poller].status \in {"EXITED", "UNKNOWN"}

(* What the poller is about to announce is off the list. *)
PollerSound ==
  /\ th[Poller].kind \in {"none", "poll"}
  /\ SawEnd => /\ th[Poller].kind = "poll"
               /\ th[Poller].pc \in {"unregistering", "deciding", "arming", "pausing", "notifying"}
               /\ th[Poller].pc # "unregistering" => th[Poller].job \notin registered
  /\ th[Poller].pc = "notifying" => SawEnd

(* A job is launched by one call, and nobody has seen it before. *)
LaunchesAreNew ==
  /\ \A j \in Jobs :
       job[j].state = "none" \/ (\E t \in Threads : Launches(t, j)) =>
         announced[j] = 0 /\ j \notin registered /\ ~Polls(j)
  /\ \A t, u \in Threads, j \in Jobs : Launches(t, j) /\ Launches(u, j) => t = u
  /\ \A t \in Threads : th[t].kind = "launch" => t \in Calls
  /\ \A t \in Threads : th[t].kind = "launch" /\ th[t].pc = "registering" => job[th[t].job].state # "none"

(* A job on the list, or being polled, was not announced. *)
ListedIsNews == \A j \in Jobs : j \in registered \/ Polls(j) => announced[j] = 0

PollInv == IInv /\ PollerSound /\ LaunchesAreNew /\ ListedIsNews /\ AnnouncedOnce

(* The poller is a thread of its own. *)
LEMMA FourAtMost ==
  ASSUME NEW a, NEW b, NEW c, NEW d
  PROVE  Cardinality({a, b, c, d}) \in Nat /\ Cardinality({a, b, c, d}) <= 4
<1>1. IsFiniteSet({a}) /\ Cardinality({a}) = 1
  BY FS_Singleton
<1>2. IsFiniteSet({a} \cup {b}) /\ Cardinality({a} \cup {b}) \in {1, 2}
  BY <1>1, FS_AddElement
<1>3. IsFiniteSet({a} \cup {b} \cup {c}) /\ Cardinality({a} \cup {b} \cup {c}) \in {1, 2, 3}
  BY <1>2, FS_AddElement
<1>4. Cardinality({a} \cup {b} \cup {c} \cup {d}) \in {1, 2, 3, 4}
  BY <1>3, FS_AddElement
<1>5. {a} \cup {b} \cup {c} \cup {d} = {a, b, c, d}
  OBVIOUS
<1> QED
  BY <1>4, <1>5

LEMMA PollerIsAlone == Poller \notin Calls /\ Poller \notin {Screen, Control, Deleter, Turn} /\ Poller \in Threads
<1>1. Poller \notin Calls
  BY SandboxAssumption
<1>2. ASSUME Poller \in {Screen, Control, Deleter, Turn} PROVE FALSE
  <2>1. {Screen, Poller, Control, Deleter, Turn} = {Screen, Control, Deleter, Turn}
    BY <1>2
  <2>2. Cardinality({Screen, Control, Deleter, Turn}) = 5
    BY <2>1, SandboxAssumption
  <2>3. Cardinality({Screen, Control, Deleter, Turn}) <= 4
    BY FourAtMost
  <2> QED
    BY <2>2, <2>3
<1> QED
  BY <1>1, <1>2 DEF Threads

(* A step that launches, registers, announces and polls nothing new.        *)
JobFrame ==
  /\ announced' = announced
  /\ registered' \subseteq registered
  /\ \A j \in Jobs : job'[j].state = "none" <=> job[j].state = "none"
  /\ \A t \in Threads :
       th'[t].kind = "launch" =>
         /\ th[t].kind = "launch" /\ th'[t].job = th[t].job
         /\ th'[t].pc \in {"getting", "saving", "adding", "working"} =>
              th[t].pc \in {"getting", "saving", "adding", "working"}
         /\ th'[t].pc = "registering" => th[t].pc = "registering"
  /\ th'[Poller].kind = "poll" => th[Poller].kind = "poll" /\ th'[Poller].job = th[Poller].job

LEMMA FrameKeepsJobs ==
  ASSUME TypeOK, Shape, JobFrame, LaunchesAreNew, ListedIsNews, AnnouncedOnce
  PROVE  LaunchesAreNew' /\ ListedIsNews' /\ AnnouncedOnce'
<1>1. \A t \in Threads, j \in Jobs : Launches(t, j)' => Launches(t, j)
  BY DEF JobFrame, Launches
<1>2. \A j \in Jobs : Polls(j)' => Polls(j)
  BY DEF JobFrame, Polls
<1>3. ListedIsNews' /\ AnnouncedOnce'
  BY <1>2 DEF JobFrame, ListedIsNews, AnnouncedOnce
<1>4. \A t \in Threads : th[t].kind = "launch" => th[t].job \in Jobs
  BY DEF Shape
<1> QED
  BY <1>1, <1>2, <1>3, <1>4 DEF LaunchesAreNew, JobFrame

(* Nobody but the poller moves it. *)
LEMMA PollerStays ==
  ASSUME PollerSound, th'[Poller] = th[Poller], registered' \subseteq registered
  PROVE  PollerSound'
BY DEF PollerSound, SawEnd

LEMMA StartsKeepJobs ==
  ASSUME TypeOK, Shape, PollerSound,
         \/ StartTurn \/ StartScreen \/ Abandon \/ ControlExpires \/ StartDelete
         \/ \E c \in Calls : UseSandbox(c) \/ SetKeepalive(c)
  PROVE  JobFrame /\ PollerSound'
<1> USE PollerIsAlone DEF TypeOK, JobFrame, Threads, bg, ghost, At, Goto, State, Idle, Begin, UseKinds
<1>1. CASE StartTurn
  BY <1>1, PollerStays DEF StartTurn
<1>2. CASE StartScreen
  BY <1>2, PollerStays DEF StartScreen
<1>3. CASE Abandon
  BY <1>3, PollerStays DEF Abandon
<1>4. CASE ControlExpires
  BY <1>4, PollerStays DEF ControlExpires
<1>5. CASE StartDelete
  BY <1>5, PollerStays DEF StartDelete
<1>6. ASSUME NEW c \in Calls, UseSandbox(c) PROVE JobFrame /\ PollerSound'
  <2>1. PICK k \in UseKinds : Begin(c, k, "getting", Nil)
    BY <1>6 DEF UseSandbox
  <2> QED
    BY <1>6, <2>1, PollerStays DEF UseSandbox
<1>7. ASSUME NEW c \in Calls, SetKeepalive(c) PROVE JobFrame /\ PollerSound'
  <2>1. Begin(c, "set", "arming", Nil) \/ UNCHANGED th
    BY <1>7 DEF SetKeepalive
  <2> QED
    BY <1>7, <2>1, PollerStays DEF SetKeepalive
<1> QED
  BY <1>1, <1>2, <1>3, <1>4, <1>5, <1>6, <1>7

(* One thread goes on, ends, or turns to ending a person's control.         *)
Onward(t) ==
  /\ th' = [th EXCEPT ![t] = th'[t]]
  /\ th'[t].kind \in {th[t].kind, "none", "unhand"}
  /\ th'[t].job = th[t].job \/ th'[t].kind = "none"
  /\ th'[t].kind = "launch" =>
       /\ th'[t].pc \in {"getting", "saving", "adding", "working"} =>
            th[t].pc \in {"getting", "saving", "adding", "working"}
       /\ th'[t].pc # "registering"

(* How the poller may go on. *)
PollerOnward ==
  /\ th'[Poller].kind \in {"none", "poll"}
  /\ th'[Poller].status \in {"EXITED", "UNKNOWN"} =>
       /\ th'[Poller].kind = "poll"
       /\ th'[Poller].pc \in {"unregistering", "deciding", "arming", "pausing", "notifying"}
       /\ th'[Poller].pc # "unregistering" => th'[Poller].job \notin registered'
  /\ th'[Poller].pc = "notifying" => th'[Poller].status \in {"EXITED", "UNKNOWN"}

LEMMA OnwardKeepsJobs ==
  ASSUME TypeOK, PollerSound, NEW t \in Threads, Onward(t), announced' = announced, registered' \subseteq registered,
         \A j \in Jobs : job'[j].state = "none" <=> job[j].state = "none",
         t = Poller => PollerOnward
  PROVE  JobFrame /\ PollerSound'
<1>1. \A u \in Threads \ {t} : th'[u] = th[u]
  BY DEF Onward, TypeOK
<1>2. JobFrame
  BY <1>1, PollerIsAlone DEF JobFrame, Onward, PollerSound
<1>3. CASE t # Poller
  BY <1>1, <1>2, <1>3, PollerIsAlone, PollerStays
<1>4. CASE t = Poller
  BY <1>2, <1>4 DEF PollerSound, SawEnd, PollerOnward
<1> QED
  BY <1>2, <1>3, <1>4

LEMMA CallsKeepJobs ==
  ASSUME TypeOK, Shape, PollerSound, NEW t \in Threads,
         \/ Connect(t) \/ Save(t) \/ Add(t) \/ ConnectFails(t)
         \/ CommandEnds(t) \/ ScriptEnds(t) \/ PlainEnds(t) \/ ReadStatus(t) \/ StopJob(t)
         \/ Unregister(t) \/ Decide(t) \/ HandOver(t) \/ Arm(t) \/ PauseStep(t) \/ ExitBlock(t)
         \/ PopControl(t) \/ StopControl(t) \/ AskRun(t) \/ ReadFlag(t)
  PROVE  JobFrame /\ PollerSound'
<1> /\ th \in [Threads -> [pc: PCs, kind: CallKinds \cup {"none", "poll", "turn", "delete"},
                           vm: Sandboxes \cup {Nil}, job: Jobs \cup {Nil},
                           status: {"none", "RUNNING", "EXITED", "UNKNOWN"}]]
    /\ job \in [Jobs -> [state: {"none", "running", "exited"}, vm: Sandboxes \cup {Nil}]]
    /\ th[Poller].kind \in {"none", "poll"} /\ Poller # Screen /\ Poller # Turn
  BY PollerIsAlone DEF TypeOK, PollerSound
<1> DEFINE Rest == /\ announced' = announced /\ registered' \subseteq registered
                   /\ \A j \in Jobs : job'[j].state = "none" <=> job[j].state = "none"
<1> USE DEF At, Goto, Done, State, Idle, Works
<1>1. ASSUME Connect(t) PROVE Onward(t) /\ Rest /\ (t = Poller => PollerOnward)
  <2>1. Onward(t)
    BY <1>1 DEF Onward, Connect
  <2>2. Rest
    BY <1>1 DEF bg, ghost, Connect
  <2>3. ASSUME t = Poller PROVE PollerOnward
    BY <1>1, <2>2, <2>3 DEF PollerOnward, PollerSound, SawEnd, Connect
  <2> QED
    BY <2>1, <2>2, <2>3
<1>2. ASSUME Save(t) PROVE Onward(t) /\ Rest /\ (t = Poller => PollerOnward)
  <2>1. Onward(t)
    BY <1>2 DEF Onward, Save
  <2>2. Rest
    BY <1>2 DEF bg, ghost, Save
  <2>3. ASSUME t = Poller PROVE PollerOnward
    BY <1>2, <2>2, <2>3 DEF PollerOnward, PollerSound, SawEnd, Save
  <2> QED
    BY <2>1, <2>2, <2>3
<1>3. ASSUME Add(t) PROVE Onward(t) /\ Rest /\ (t = Poller => PollerOnward)
  <2>1. Onward(t)
    BY <1>3 DEF Onward, Add
  <2>2. Rest
    BY <1>3 DEF bg, ghost, Add
  <2>3. ASSUME t = Poller PROVE PollerOnward
    BY <1>3, <2>2, <2>3 DEF PollerOnward, PollerSound, SawEnd, Add
  <2> QED
    BY <2>1, <2>2, <2>3
<1>4. ASSUME ConnectFails(t) PROVE Onward(t) /\ Rest /\ (t = Poller => PollerOnward)
  <2>1. Onward(t)
    BY <1>4 DEF Onward, ConnectFails, AfterFailure
  <2>2. Rest
    BY <1>4 DEF bg, ghost, ConnectFails
  <2>3. ASSUME t = Poller PROVE PollerOnward
    BY <1>4, <2>2, <2>3 DEF PollerOnward, PollerSound, SawEnd, ConnectFails, AfterFailure
  <2> QED
    BY <2>1, <2>2, <2>3
<1>5. ASSUME CommandEnds(t) PROVE Onward(t) /\ Rest /\ (t = Poller => PollerOnward)
  <2>1. Onward(t)
    BY <1>5 DEF Onward, CommandEnds
  <2>2. Rest
    BY <1>5 DEF bg, ghost, CommandEnds
  <2>3. ASSUME t = Poller PROVE PollerOnward
    BY <1>5, <2>2, <2>3 DEF PollerOnward, PollerSound, SawEnd, CommandEnds
  <2> QED
    BY <2>1, <2>2, <2>3
<1>6. ASSUME ScriptEnds(t) PROVE Onward(t) /\ Rest /\ (t = Poller => PollerOnward)
  <2>1. Onward(t)
    BY <1>6 DEF Onward, ScriptEnds
  <2>2. Rest
    BY <1>6 DEF bg, ghost, ScriptEnds
  <2>3. ASSUME t = Poller PROVE PollerOnward
    BY <1>6, <2>2, <2>3 DEF PollerOnward, PollerSound, SawEnd, ScriptEnds
  <2> QED
    BY <2>1, <2>2, <2>3
<1>7. ASSUME PlainEnds(t) PROVE Onward(t) /\ Rest /\ (t = Poller => PollerOnward)
  <2>1. Onward(t)
    BY <1>7 DEF Onward, PlainEnds
  <2>2. Rest
    BY <1>7 DEF bg, ghost, PlainEnds
  <2>3. ASSUME t = Poller PROVE PollerOnward
    BY <1>7, <2>2, <2>3 DEF PollerOnward, PollerSound, SawEnd, PlainEnds
  <2> QED
    BY <2>1, <2>2, <2>3
<1>8. ASSUME ReadStatus(t) PROVE Onward(t) /\ Rest /\ (t = Poller => PollerOnward)
  <2>1. Onward(t)
    BY <1>8 DEF Onward, ReadStatus
  <2>2. Rest
    BY <1>8 DEF bg, ghost, ReadStatus
  <2>3. ASSUME t = Poller PROVE PollerOnward
    BY <1>8, <2>2, <2>3 DEF PollerOnward, PollerSound, SawEnd, ReadStatus
  <2> QED
    BY <2>1, <2>2, <2>3
<1>9. ASSUME StopJob(t) PROVE Onward(t) /\ Rest /\ (t = Poller => PollerOnward)
  <2>1. Onward(t)
    BY <1>9 DEF Onward, StopJob
  <2>2. Rest
    BY <1>9 DEF bg, ghost, StopJob, StatusIn
  <2>3. ASSUME t = Poller PROVE PollerOnward
    BY <1>9, <2>2, <2>3 DEF PollerOnward, PollerSound, SawEnd, StopJob
  <2> QED
    BY <2>1, <2>2, <2>3
<1>10. ASSUME Unregister(t) PROVE Onward(t) /\ Rest /\ (t = Poller => PollerOnward)
  <2>1. Onward(t)
    BY <1>10 DEF Onward, Unregister
  <2>2. Rest
    BY <1>10 DEF bg, ghost, Unregister
  <2>3. ASSUME t = Poller PROVE PollerOnward
    BY <1>10, <2>2, <2>3 DEF PollerOnward, PollerSound, SawEnd, Unregister
  <2> QED
    BY <2>1, <2>2, <2>3
<1>11. ASSUME Decide(t) PROVE Onward(t) /\ Rest /\ (t = Poller => PollerOnward)
  <2>1. Onward(t)
    BY <1>11 DEF Onward, Decide
  <2>2. Rest
    BY <1>11 DEF bg, ghost, Decide
  <2>3. ASSUME t = Poller PROVE PollerOnward
    BY <1>11, <2>2, <2>3 DEF PollerOnward, PollerSound, SawEnd, Decide
  <2> QED
    BY <2>1, <2>2, <2>3
<1>12. ASSUME HandOver(t) PROVE Onward(t) /\ Rest /\ (t = Poller => PollerOnward)
  <2>1. Onward(t)
    BY <1>12 DEF Onward, HandOver
  <2>2. Rest
    BY <1>12 DEF bg, ghost, HandOver
  <2>3. ASSUME t = Poller PROVE PollerOnward
    BY <1>12, <2>2, <2>3 DEF PollerOnward, PollerSound, SawEnd, HandOver
  <2> QED
    BY <2>1, <2>2, <2>3
<1>13. ASSUME Arm(t) PROVE Onward(t) /\ Rest /\ (t = Poller => PollerOnward)
  <2>1. Onward(t)
    BY <1>13 DEF Onward, Arm, Finish
  <2>2. Rest
    BY <1>13 DEF bg, ghost, Arm
  <2>3. ASSUME t = Poller PROVE PollerOnward
    BY <1>13, <2>2, <2>3 DEF PollerOnward, PollerSound, SawEnd, Arm, Finish
  <2> QED
    BY <2>1, <2>2, <2>3
<1>14. ASSUME PauseStep(t) PROVE Onward(t) /\ Rest /\ (t = Poller => PollerOnward)
  <2>1. Onward(t)
    BY <1>14 DEF Onward, PauseStep, Finish
  <2>2. Rest
    BY <1>14 DEF bg, ghost, PauseStep
  <2>3. ASSUME t = Poller PROVE PollerOnward
    BY <1>14, <2>2, <2>3 DEF PollerOnward, PollerSound, SawEnd, PauseStep, Finish
  <2> QED
    BY <2>1, <2>2, <2>3
<1>15. ASSUME ExitBlock(t) PROVE Onward(t) /\ Rest /\ (t = Poller => PollerOnward)
  <2>1. Onward(t)
    BY <1>15 DEF Onward, ExitBlock
  <2>2. Rest
    BY <1>15 DEF bg, ghost, ExitBlock
  <2>3. ASSUME t = Poller PROVE PollerOnward
    BY <1>15, <2>2, <2>3 DEF PollerOnward, PollerSound, SawEnd, ExitBlock
  <2> QED
    BY <2>1, <2>2, <2>3
<1>16. ASSUME PopControl(t) PROVE Onward(t) /\ Rest /\ (t = Poller => PollerOnward)
  <2>1. Onward(t)
    BY <1>16 DEF Onward, PopControl, Shape
  <2>2. Rest
    BY <1>16 DEF bg, ghost, PopControl
  <2>3. ASSUME t = Poller PROVE PollerOnward
    BY <1>16, <2>2, <2>3 DEF PollerOnward, PollerSound, SawEnd, PopControl
  <2> QED
    BY <2>1, <2>2, <2>3
<1>17. ASSUME StopControl(t) PROVE Onward(t) /\ Rest /\ (t = Poller => PollerOnward)
  <2>1. Onward(t)
    BY <1>17 DEF Onward, StopControl
  <2>2. Rest
    BY <1>17 DEF bg, ghost, StopControl
  <2>3. ASSUME t = Poller PROVE PollerOnward
    BY <1>17, <2>2, <2>3 DEF PollerOnward, PollerSound, SawEnd, StopControl
  <2> QED
    BY <2>1, <2>2, <2>3
<1>18. ASSUME AskRun(t) PROVE Onward(t) /\ Rest /\ (t = Poller => PollerOnward)
  <2>1. Onward(t)
    BY <1>18 DEF Onward, AskRun
  <2>2. Rest
    BY <1>18 DEF bg, ghost, AskRun
  <2>3. ASSUME t = Poller PROVE PollerOnward
    BY <1>18, <2>2, <2>3 DEF PollerOnward, PollerSound, SawEnd, AskRun
  <2> QED
    BY <2>1, <2>2, <2>3
<1>19. ASSUME ReadFlag(t) PROVE Onward(t) /\ Rest /\ (t = Poller => PollerOnward)
  <2>1. Onward(t)
    BY <1>19 DEF Onward, ReadFlag
  <2>2. Rest
    BY <1>19 DEF bg, ghost, ReadFlag
  <2>3. ASSUME t = Poller PROVE PollerOnward
    BY <1>19, <2>2, <2>3 DEF PollerOnward, PollerSound, SawEnd, ReadFlag
  <2> QED
    BY <2>1, <2>2, <2>3
<1> HIDE DEF At, Goto, Done, State, Idle, Works
<1> QED
  BY OnwardKeepsJobs, <1>1, <1>2, <1>3, <1>4, <1>5, <1>6, <1>7, <1>8, <1>9, <1>10, <1>11, <1>12, <1>13, <1>14, <1>15, <1>16, <1>17, <1>18, <1>19

LEMMA RestKeepsJobs ==
  ASSUME TypeOK, Shape, PollerSound,
         \/ CaptureFails \/ TurnEnds \/ Destroy \/ ForgetStored \/ Crash
         \/ \E x \in Timers : TimerStep(x)
         \/ \E j \in Jobs : JobExits(j)
         \/ \E v \in Sandboxes : Recycle(v)
         \/ UNCHANGED vars
  PROVE  JobFrame /\ PollerSound'
<1> USE PollerIsAlone
    DEF TypeOK, JobFrame, PollerSound, SawEnd, bg, ghost, At, Goto, Done, State, Idle, Works
<1>1. CASE CaptureFails
  BY <1>1 DEF CaptureFails
<1>2. CASE TurnEnds
  BY <1>2 DEF TurnEnds, EndRun, CheckJobs, CancelTimer, Unmark
<1>3. CASE Destroy
  BY <1>3 DEF Destroy
<1>4. CASE ForgetStored
  BY <1>4 DEF ForgetStored
<1>5. CASE Crash
  BY <1>5 DEF Crash
<1>6. ASSUME NEW x \in Timers, TimerStep(x) PROVE JobFrame /\ PollerSound'
  BY <1>6 DEF TimerStep, Fire, DropEntry, TimerPauses
<1>7. ASSUME NEW j \in Jobs, JobExits(j) PROVE JobFrame /\ PollerSound'
  BY <1>7 DEF JobExits
<1>8. ASSUME NEW v \in Sandboxes, Recycle(v) PROVE JobFrame /\ PollerSound'
  BY <1>8 DEF Recycle
<1>9. CASE UNCHANGED vars
  BY <1>9 DEF vars
<1> QED
  BY <1>1, <1>2, <1>3, <1>4, <1>5, <1>6, <1>7, <1>8, <1>9

(* A new job's life: launched, registered, polled, announced.               *)
LEMMA LaunchKeepsJobs ==
  ASSUME PollInv, NEW t \in Threads, Launch(t) \/ Register(t)
  PROVE  PollerSound' /\ LaunchesAreNew' /\ ListedIsNews' /\ AnnouncedOnce'
<1>0. /\ TypeOK /\ Shape /\ PollerSound /\ LaunchesAreNew /\ ListedIsNews /\ AnnouncedOnce
      /\ th[t].kind = "launch" /\ th[t].job \in Jobs /\ t # Poller
  BY DEF PollInv, IInv, Launch, Register, Works, At, Shape, PollerSound
<1>1. \A u \in Threads \ {t} : th'[u] = th[u]
  BY <1>0 DEF Launch, Register, Goto, TypeOK
<1>2. CASE Launch(t)
  <2>1. /\ th[t].pc = "working" /\ th'[t].kind = "launch" /\ th'[t].job = th[t].job
        /\ UNCHANGED <<announced, registered>>
        /\ \/ /\ th'[t].pc = "registering"
              /\ job' = [job EXCEPT ![th[t].job] = [state |-> "running", vm |-> th[t].vm]]
           \/ th'[t].pc = "pausing" /\ job' = job
    BY <1>0, <1>2 DEF Launch, Works, At, Goto, TypeOK, ghost
  <2>2. /\ \A j \in Jobs \ {th[t].job} : job'[j] = job[j]
        /\ job'[th[t].job].state = job[th[t].job].state \/ job'[th[t].job].state = "running"
        /\ th'[t].pc = "registering" => job'[th[t].job].state = "running"
    BY <1>0, <2>1 DEF TypeOK
  <2>3. \A u \in Threads, j \in Jobs : Launches(u, j)' => Launches(u, j)
    BY <1>0, <1>1, <2>1 DEF Launches
  <2>4. Launches(t, th[t].job)
    BY <1>0, <2>1, PollerIsAlone DEF Launches
  <2>5. PollerSound' /\ \A j : Polls(j)' <=> Polls(j)
    BY <1>0, <1>1, <2>1, PollerIsAlone DEF PollerSound, SawEnd, Polls
  <2>6. ListedIsNews' /\ AnnouncedOnce'
    BY <1>0, <2>1, <2>5 DEF ListedIsNews, AnnouncedOnce
  <2>7. \A j \in Jobs :
          job'[j].state = "none" \/ (\E u \in Threads : Launches(u, j)') =>
            announced'[j] = 0 /\ j \notin registered' /\ ~Polls(j)'
    BY <1>0, <2>1, <2>2, <2>3, <2>5 DEF LaunchesAreNew
  <2>8. \A u, v \in Threads, j \in Jobs : Launches(u, j)' /\ Launches(v, j)' => u = v
    BY <1>0, <2>3 DEF LaunchesAreNew
  <2>9. \A u \in Threads : th'[u].kind = "launch" => u \in Calls
    BY <1>0, <1>1, <2>1 DEF LaunchesAreNew
  <2>10. \A u \in Threads :
           th'[u].kind = "launch" /\ th'[u].pc = "registering" => job'[th'[u].job].state # "none"
    BY <1>0, <1>1, <2>1, <2>2 DEF LaunchesAreNew, Shape
  <2> QED
    BY <2>5, <2>6, <2>7, <2>8, <2>9, <2>10 DEF LaunchesAreNew
<1>3. CASE Register(t)
  <2>1. /\ th[t].pc = "registering" /\ th'[t].kind = "launch" /\ th'[t].pc = "arming"
        /\ UNCHANGED <<announced, job>> /\ registered' = registered \cup {th[t].job}
    BY <1>0, <1>3 DEF Register, At, Goto, TypeOK, ghost
  <2>2. Launches(t, th[t].job) /\ job[th[t].job].state # "none"
    BY <1>0, <2>1 DEF Launches, LaunchesAreNew
  <2>3. \A u \in Threads, j \in Jobs : Launches(u, j)' => Launches(u, j) /\ u # t
    BY <1>0, <1>1, <2>1 DEF Launches
  <2>4. /\ announced[th[t].job] = 0 /\ ~Polls(th[t].job)
        /\ \A u \in Threads, j \in Jobs : Launches(u, j)' => j # th[t].job
    <3>1. announced[th[t].job] = 0 /\ ~Polls(th[t].job)
      BY <1>0, <2>2 DEF LaunchesAreNew
    <3>2. \A u \in Threads : Launches(u, th[t].job) => u = t
      BY <1>0, <2>2 DEF LaunchesAreNew
    <3> QED
      BY <1>0, <2>3, <3>1, <3>2
  <2>5. \A j : Polls(j)' <=> Polls(j)
    BY <1>0, <1>1, PollerIsAlone DEF Polls
  <2>6. PollerSound'
    BY <1>0, <1>1, <2>1, <2>4, PollerIsAlone DEF PollerSound, SawEnd, Polls
  <2>7. ListedIsNews' /\ AnnouncedOnce'
    BY <1>0, <2>1, <2>4, <2>5 DEF ListedIsNews, AnnouncedOnce
  <2>8. \A j \in Jobs :
          job'[j].state = "none" \/ (\E u \in Threads : Launches(u, j)') =>
            announced'[j] = 0 /\ j \notin registered' /\ ~Polls(j)'
    BY <1>0, <2>1, <2>2, <2>3, <2>4, <2>5 DEF LaunchesAreNew
  <2>9. \A u, v \in Threads, j \in Jobs : Launches(u, j)' /\ Launches(v, j)' => u = v
    BY <1>0, <2>3 DEF LaunchesAreNew
  <2>10. \A u \in Threads : th'[u].kind = "launch" => u \in Calls
    BY <1>0, <1>1, <2>1 DEF LaunchesAreNew
  <2>11. \A u \in Threads :
           th'[u].kind = "launch" /\ th'[u].pc = "registering" => job'[th'[u].job].state # "none"
    BY <1>0, <1>1, <2>1 DEF LaunchesAreNew
  <2> QED
    BY <2>6, <2>7, <2>8, <2>9, <2>10, <2>11 DEF LaunchesAreNew
<1> QED
  BY <1>2, <1>3

LEMMA CallKeepsJobs ==
  ASSUME PollInv, NEW c \in Calls, CallTool(c)
  PROVE  PollerSound' /\ LaunchesAreNew' /\ ListedIsNews' /\ AnnouncedOnce'
<1>0. /\ TypeOK /\ Shape /\ PollerSound /\ LaunchesAreNew /\ ListedIsNews /\ AnnouncedOnce
      /\ c \in Threads /\ c # Poller
      /\ UNCHANGED <<registered, job, announced>>
  BY PollerIsAlone DEF PollInv, IInv, CallTool, Threads, bg
<1>1. \/ \E k \in {"plain", "hand", "check", "kill", "unhand"}, l \in {"getting", "popping"}, j \in Jobs \cup {Nil} :
           Begin(c, k, l, j)
      \/ \E j \in NewJobs : Begin(c, "launch", "getting", j)
  BY DEF CallTool
<1>2. th \in [Threads -> [pc: PCs, kind: CallKinds \cup {"none", "poll", "turn", "delete"},
                           vm: Sandboxes \cup {Nil}, job: Jobs \cup {Nil},
                           status: {"none", "RUNNING", "EXITED", "UNKNOWN"}]]
  BY <1>0 DEF TypeOK
<1>3. CASE \E k \in {"plain", "hand", "check", "kill", "unhand"}, l \in {"getting", "popping"}, j \in Jobs \cup {Nil} :
             Begin(c, k, l, j)
  <2>1. /\ th'[c].kind \notin {"launch", "poll"} /\ \A u \in Threads \ {c} : th'[u] = th[u]
    BY <1>0, <1>2, <1>3 DEF Begin, State
  <2>2. JobFrame
    BY <1>0, <2>1, PollerIsAlone DEF JobFrame
  <2>3. PollerSound'
    BY <1>0, <2>1, PollerIsAlone, PollerStays
  <2> QED
    BY <1>0, <2>2, <2>3, FrameKeepsJobs
<1>4. ASSUME NEW j \in NewJobs, Begin(c, "launch", "getting", j)
      PROVE  PollerSound' /\ LaunchesAreNew' /\ ListedIsNews' /\ AnnouncedOnce'
  <2>1. /\ th'[c].kind = "launch" /\ th'[c].pc = "getting" /\ th'[c].job = j
        /\ \A u \in Threads \ {c} : th'[u] = th[u]
    BY <1>0, <1>2, <1>4 DEF Begin, State
  <2>2. j \in Jobs /\ job[j].state = "none" /\ \A u \in Calls : th[u].job # j
    BY DEF NewJobs
  <2>3. announced[j] = 0 /\ j \notin registered /\ ~Polls(j)
    BY <1>0, <2>2 DEF LaunchesAreNew
  <2>4. \A k : Polls(k)' <=> Polls(k)
    BY <1>0, <2>1, PollerIsAlone DEF Polls
  <2>5. \A u \in Threads, k \in Jobs : Launches(u, k)' => (u = c /\ k = j) \/ (u # c /\ k # j /\ Launches(u, k))
    BY <1>0, <2>1, <2>2 DEF Launches, LaunchesAreNew
  <2>6. PollerSound'
    BY <1>0, <2>1, PollerIsAlone, PollerStays
  <2>7. ListedIsNews' /\ AnnouncedOnce'
    BY <1>0, <2>4 DEF ListedIsNews, AnnouncedOnce
  <2>8. \A k \in Jobs :
          job'[k].state = "none" \/ (\E u \in Threads : Launches(u, k)') =>
            announced'[k] = 0 /\ k \notin registered' /\ ~Polls(k)'
    BY <1>0, <2>3, <2>4, <2>5 DEF LaunchesAreNew
  <2>9. \A u, v \in Threads, k \in Jobs : Launches(u, k)' /\ Launches(v, k)' => u = v
    BY <1>0, <2>5 DEF LaunchesAreNew
  <2>10. \A u \in Threads : th'[u].kind = "launch" => u \in Calls
    BY <1>0, <2>1 DEF LaunchesAreNew
  <2>11. \A u \in Threads :
           th'[u].kind = "launch" /\ th'[u].pc = "registering" => job'[th'[u].job].state # "none"
    BY <1>0, <2>1 DEF LaunchesAreNew
  <2> QED
    BY <2>6, <2>7, <2>8, <2>9, <2>10, <2>11 DEF LaunchesAreNew
<1> QED
  BY <1>1, <1>3, <1>4

LEMMA PollKeepsJobs ==
  ASSUME PollInv, StartPoll \/ Notify
  PROVE  PollerSound' /\ LaunchesAreNew' /\ ListedIsNews' /\ AnnouncedOnce'
<1>0. /\ TypeOK /\ Shape /\ PollerSound /\ LaunchesAreNew /\ ListedIsNews /\ AnnouncedOnce
      /\ Poller \in Threads
      /\ th \in [Threads -> [pc: PCs, kind: CallKinds \cup {"none", "poll", "turn", "delete"},
                             vm: Sandboxes \cup {Nil}, job: Jobs \cup {Nil},
                             status: {"none", "RUNNING", "EXITED", "UNKNOWN"}]]
  BY PollerIsAlone DEF PollInv, IInv, TypeOK
<1>1. CASE StartPoll
  <2>1. PICK j \in registered : Begin(Poller, "poll", "getting", j)
    BY <1>1 DEF StartPoll
  <2>2. /\ th'[Poller].kind = "poll" /\ th'[Poller].job = j /\ th'[Poller].status = "none"
        /\ th'[Poller].pc = "getting"
        /\ \A u \in Threads \ {Poller} : th'[u] = th[u]
        /\ UNCHANGED <<registered, job, announced>>
    BY <1>0, <1>1, <2>1 DEF StartPoll, Begin, State, bg, ghost
  <2>3. /\ j \in Jobs /\ announced[j] = 0
        /\ job[j].state # "none" /\ \A u \in Threads : ~Launches(u, j)
    BY <1>0 DEF TypeOK, ListedIsNews, LaunchesAreNew
  <2>4. \A k : Polls(k)' <=> k = j
    BY <2>2 DEF Polls
  <2>5. \A u \in Threads, k \in Jobs : Launches(u, k)' => Launches(u, k) /\ u # Poller
    BY <2>2 DEF Launches
  <2>6. PollerSound' /\ ListedIsNews' /\ AnnouncedOnce'
    BY <1>0, <2>2, <2>3, <2>4 DEF PollerSound, SawEnd, ListedIsNews, AnnouncedOnce
  <2>7. \A k \in Jobs :
          job'[k].state = "none" \/ (\E u \in Threads : Launches(u, k)') =>
            announced'[k] = 0 /\ k \notin registered' /\ ~Polls(k)'
    BY <1>0, <2>2, <2>3, <2>4, <2>5 DEF LaunchesAreNew
  <2>8. \A u, v \in Threads, k \in Jobs : Launches(u, k)' /\ Launches(v, k)' => u = v
    BY <1>0, <2>5 DEF LaunchesAreNew
  <2>9. \A u \in Threads :
          /\ th'[u].kind = "launch" => u \in Calls
          /\ th'[u].kind = "launch" /\ th'[u].pc = "registering" => job'[th'[u].job].state # "none"
    BY <1>0, <2>2 DEF LaunchesAreNew
  <2> QED
    BY <2>6, <2>7, <2>8, <2>9 DEF LaunchesAreNew
<1>2. CASE Notify
  <2> DEFINE j == th[Poller].job
  <2>1. /\ th[Poller].pc = "notifying" /\ th' = [th EXCEPT ![Poller] = Idle]
        /\ announced' = [announced EXCEPT ![j] = announced[j] + 1]
        /\ announced \in [Jobs -> Nat]
        /\ UNCHANGED <<registered, job>>
    BY <1>0, <1>2 DEF Notify, At, Done, bg, TypeOK
  <2>2. Polls(j) /\ j \notin registered
    BY <1>0, <2>1 DEF PollerSound, SawEnd, Polls
  <2>3. j \in Jobs => announced[j] = 0 /\ job[j].state # "none" /\ \A u \in Threads : ~Launches(u, j)
    BY <1>0, <2>2 DEF ListedIsNews, LaunchesAreNew
  <2>4. /\ \A k \in Jobs \ {j} : announced'[k] = announced[k]
        /\ j \in Jobs => announced'[j] = 1
    BY <2>1, <2>3
  <2>5. /\ th'[Poller] = Idle /\ \A u \in Threads \ {Poller} : th'[u] = th[u]
    BY <1>0, <2>1
  <2> HIDE DEF j
  <2>6. (\A k : ~Polls(k)') /\ PollerSound'
    BY <2>5 DEF Polls, Idle, State, PollerSound, SawEnd
  <2>7. \A u \in Threads, k \in Jobs : Launches(u, k)' => Launches(u, k)
    BY <2>5 DEF Launches, Idle, State
  <2>8. ListedIsNews' /\ AnnouncedOnce'
    <3>1. ListedIsNews'
      BY <1>0, <2>1, <2>2, <2>4, <2>6 DEF ListedIsNews
    <3>2. AnnouncedOnce'
      BY <1>0, <2>4 DEF AnnouncedOnce
    <3> QED
      BY <3>1, <3>2
  <2>9. \A k \in Jobs :
          job'[k].state = "none" \/ (\E u \in Threads : Launches(u, k)') =>
            announced'[k] = 0 /\ k \notin registered' /\ ~Polls(k)'
    BY <1>0, <2>1, <2>3, <2>4, <2>6, <2>7 DEF LaunchesAreNew
  <2>10. \A u, v \in Threads, k \in Jobs : Launches(u, k)' /\ Launches(v, k)' => u = v
    BY <1>0, <2>7 DEF LaunchesAreNew
  <2>11. \A u \in Threads :
           /\ th'[u].kind = "launch" => u \in Calls
           /\ th'[u].kind = "launch" /\ th'[u].pc = "registering" => job'[th'[u].job].state # "none"
    BY <1>0, <2>1, <2>5 DEF LaunchesAreNew, Idle, State
  <2> QED
    BY <2>6, <2>8, <2>9, <2>10, <2>11 DEF LaunchesAreNew
<1> QED
  BY <1>1, <1>2

LEMMA PollInit == Init => PollInv
<1> SUFFICES ASSUME Init PROVE PollInv
  OBVIOUS
<1>1. /\ registered = {}
      /\ \A j \in Jobs : announced[j] = 0
      /\ \A t \in Threads : th[t].kind = "none" /\ th[t].pc = "idle" /\ th[t].status = "none"
  BY DEF Init, Idle, State
<1> QED
  BY <1>1, InitInv, PollerIsAlone
  DEF PollInv, PollerSound, SawEnd, LaunchesAreNew, Launches, ListedIsNews, Polls, AnnouncedOnce

LEMMA PollStep == PollInv /\ [Next]_vars => PollInv'
<1> DEFINE Goal == PollerSound' /\ LaunchesAreNew' /\ ListedIsNews' /\ AnnouncedOnce'
<1> SUFFICES ASSUME PollInv, [Next]_vars PROVE Goal
  BY StepInv DEF PollInv
<1>0. TypeOK /\ Shape /\ PollerSound /\ LaunchesAreNew /\ ListedIsNews /\ AnnouncedOnce
  BY DEF PollInv, IInv
<1>1. ASSUME JobFrame /\ PollerSound' PROVE Goal
  BY <1>0, <1>1, FrameKeepsJobs
<1>2. CASE StartTurn \/ StartScreen \/ Abandon \/ ControlExpires \/ StartDelete
  BY <1>0, <1>1, <1>2, StartsKeepJobs
<1>3. ASSUME NEW c \in Calls, CallStarts(c) PROVE Goal
  BY <1>0, <1>1, <1>3, StartsKeepJobs, CallKeepsJobs DEF CallStarts
<1>4. ASSUME NEW t \in Threads, Connecting(t) \/ ConnectFails(t) PROVE Goal
  BY <1>0, <1>1, <1>4, CallsKeepJobs DEF Connecting
<1>5. ASSUME NEW t \in Threads, Working(t) PROVE Goal
  BY <1>0, <1>1, <1>5, CallsKeepJobs, LaunchKeepsJobs DEF Working
<1>6. CASE StartPoll \/ Notify
  BY <1>6, PollKeepsJobs
<1>7. CASE \/ CaptureFails \/ TurnEnds \/ Destroy \/ ForgetStored \/ Crash
           \/ \E x \in Timers : TimerStep(x)
           \/ \E j \in Jobs : JobExits(j)
           \/ \E v \in Sandboxes : Recycle(v)
           \/ UNCHANGED vars
  BY <1>0, <1>1, <1>7, RestKeepsJobs
<1> HIDE DEF Goal
<1> QED
  BY <1>2, <1>3, <1>4, <1>5, <1>6, <1>7 DEF Next

(* However calls, kills, checks and polls of a job interleave, and over      *)
(* deaths, the poller announces its end at most once.                        *)
THEOREM EndIsAnnouncedOnce == Spec => []AnnouncedOnce
<1>1. PollInv => AnnouncedOnce
  BY DEF PollInv
<1> QED
  BY <1>1, PollInit, PollStep, PTL DEF Spec
============================================================================
