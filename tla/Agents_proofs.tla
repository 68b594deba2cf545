---------------------------- MODULE Agents_proofs ----------------------------
(***************************************************************************)
(* Proofs about what a turn's run relies on: which model it tries next     *)
(* (ProviderChain), what it remembers of its thread and sends to that      *)
(* model (ThreadMemory), and what the subagents it starts may do           *)
(* (Subagents).  They share no variable.                                   *)
(*                                                                         *)
(* The first two choose a first or a last place of a sequence; that there  *)
(* is one is the well-foundedness of the natural numbers.                  *)
(***************************************************************************)
EXTENDS ProviderChain, ThreadMemory, Subagents, FiniteSetTheorems, WellFoundedInduction, TLAPS

Below == {p \in Nat \X Nat : p[1] < p[2]}

LEMMA LeastNumber ==
  ASSUME NEW S \in SUBSET Nat, S # {}
  PROVE  \E n \in S : \A k \in S : n <= k
<1>1. IsWellFoundedOn(Below, Nat)
  BY NatLessThanWellFounded DEF OpToRel, Below
<1>2. PICK n \in S : \A k \in S : <<k, n>> \notin Below
  BY <1>1, WFMin
<1>3. n \in Nat /\ \A k \in S : k \in Nat
  OBVIOUS
<1>4. \A k \in S : ~(k < n)
  BY <1>2, <1>3 DEF Below
<1> QED
  BY <1>3, <1>4

----------------------------------------------------------------------------
(* ProviderChain: the cache's preferred model, and the walk down the order. *)

FrameFields == {"pc", "kind", "order", "at", "attempt", "keys", "out", "called"}
IsFrame(r) == DOMAIN r = FrameFields /\ r.at \in Nat

Tried(r, i) == r.order[i] \in r.called \/ Family[r.order[i]] \in r.out

(* Every model before the frame's is done with, its own too while its key   *)
(* is changed, and when it failed all of them are.                          *)
WalkIsComplete(r) ==
  /\ r.pc \in {"idle", "skip", "prefer", "trying", "rekeying", "failed"}
  /\ r.pc \in {"skip", "prefer"} => r.at = 1
  /\ r.pc \in {"trying", "rekeying"} => \A i \in 1..Len(r.order) : i < r.at => Tried(r, i)
  /\ r.pc = "rekeying" => r.order[r.at] \in r.called
  /\ r.pc = "failed" => \A i \in 1..Len(r.order) : Tried(r, i)

ProbesAreSettled ==
  /\ probe.good \cap probe.bad = {}
  /\ probe.good \subseteq {Priority[i] : i \in DOMAIN Priority}
  /\ DOMAIN probe = {"pc", "good", "bad"}

TurnsWalk == DOMAIN turn = Turns /\ \A t \in Turns : IsFrame(turn[t]) /\ WalkIsComplete(turn[t])

ChainInv == WorkingIsNotDead /\ ProbesAreSettled /\ TurnsWalk

(* The next model is the first of those left: none is passed over.          *)
LEMMA NextModelPassesNoneOver ==
  ASSUME NEW r, IsFrame(r), \A i \in 1..Len(r.order) : i <= r.at => Tried(r, i)
  PROVE  IsFrame(NextModel(r)) /\ WalkIsComplete(NextModel(r))
<1> DEFINE later == LaterModels(r)
           next  == CHOOSE i \in later : \A j \in later : i <= j
<1>1. later \subseteq Nat /\ \A i \in 1..Len(r.order) : i > r.at /\ i \notin later => Tried(r, i)
  BY DEF LaterModels, IsFrame, Tried
<1>2. CASE later = {}
  <2>1. NextModel(r) = [r EXCEPT !.pc = "failed"]
    BY <1>2 DEF NextModel
  <2>2. \A i \in 1..Len(r.order) : Tried(r, i)
    BY <1>1, <1>2 DEF IsFrame
  <2>3. /\ NextModel(r).order = r.order /\ NextModel(r).called = r.called /\ NextModel(r).out = r.out
        /\ NextModel(r).pc = "failed" /\ IsFrame(NextModel(r))
    BY <2>1 DEF IsFrame, FrameFields
  <2> QED
    BY <2>2, <2>3 DEF WalkIsComplete, Tried
<1>3. CASE later # {}
  <2>1. next \in later /\ \A j \in later : next <= j
    BY <1>1, <1>3, LeastNumber
  <2>2. NextModel(r) = [r EXCEPT !.pc = "trying", !.attempt = 1, !.at = next]
    BY <1>3 DEF NextModel
  <2> HIDE DEF next, later
  <2>3. next \in Nat
    BY <1>1, <2>1
  <2>4. /\ NextModel(r).order = r.order /\ NextModel(r).called = r.called /\ NextModel(r).out = r.out
        /\ NextModel(r).pc = "trying" /\ NextModel(r).at = next /\ IsFrame(NextModel(r))
    BY <2>2, <2>3 DEF IsFrame, FrameFields
  <2>5. \A i \in 1..Len(r.order) : i < next => i \notin later
    BY <2>1, <2>3, <1>1
  <2>6. \A i \in 1..Len(r.order) : i < next => Tried(r, i)
    BY <1>1, <2>5 DEF IsFrame
  <2> QED
    BY <2>4, <2>6 DEF WalkIsComplete, Tried
<1> QED
  BY <1>2, <1>3

(* A frame that only learned more about its models. *)
LEMMA LearningKeepsTried ==
  ASSUME NEW r, NEW s, s.order = r.order, r.called \subseteq s.called, r.out \subseteq s.out
  PROVE  \A i \in 1..Len(r.order) : Tried(r, i) => Tried(s, i)
BY DEF Tried

LEMMA NextAttemptWalks ==
  ASSUME NEW r, IsFrame(r), \A i \in 1..Len(r.order) : i <= r.at => Tried(r, i)
  PROVE  IsFrame(NextAttempt(r)) /\ WalkIsComplete(NextAttempt(r))
<1>1. CASE r.attempt = MaxRetries
  BY <1>1, NextModelPassesNoneOver DEF NextAttempt
<1>2. CASE r.attempt # MaxRetries
  <2>1. NextAttempt(r) = [r EXCEPT !.pc = "trying", !.attempt = @ + 1]
    BY <1>2 DEF NextAttempt
  <2>2. /\ NextAttempt(r).order = r.order /\ NextAttempt(r).called = r.called /\ NextAttempt(r).out = r.out
        /\ NextAttempt(r).pc = "trying" /\ NextAttempt(r).at = r.at /\ IsFrame(NextAttempt(r))
    BY <2>1 DEF IsFrame, FrameFields
  <2> QED
    BY <2>2 DEF WalkIsComplete, Tried, IsFrame
<1> QED
  BY <1>1, <1>2

(* The frame once its model was called: all up to it are done with. *)
LEMMA CalledIsTried ==
  ASSUME NEW t \in Turns, TurnsWalk, turn[t].pc = "trying"
  PROVE  /\ IsFrame(Called(t)) /\ Called(t).order = turn[t].order /\ Called(t).at = turn[t].at
         /\ Called(t).out = turn[t].out /\ turn[t].called \subseteq Called(t).called
         /\ Called(t).keys = turn[t].keys
         /\ Model(t) \in Called(t).called
         /\ \A i \in 1..Len(Called(t).order) : i <= Called(t).at => Tried(Called(t), i)
<1>1. IsFrame(turn[t]) /\ WalkIsComplete(turn[t])
  BY DEF TurnsWalk
<1>2. /\ DOMAIN Called(t) = FrameFields /\ Called(t).order = turn[t].order /\ Called(t).at = turn[t].at
      /\ Called(t).out = turn[t].out /\ Called(t).called = turn[t].called \cup {Model(t)}
      /\ Called(t).keys = turn[t].keys
  BY <1>1 DEF Called, IsFrame, FrameFields
<1>3. \A i \in 1..Len(turn[t].order) : i < turn[t].at => Tried(turn[t], i)
  BY <1>1 DEF WalkIsComplete
<1>4. \A i \in 1..Len(turn[t].order) : i <= turn[t].at => i < turn[t].at \/ turn[t].order[i] = Model(t)
  BY <1>1 DEF IsFrame, Model
<1> QED
  BY <1>1, <1>2, <1>3, <1>4 DEF IsFrame, Tried

(* One turn's frame moves to a complete one. *)
LEMMA FrameMoves ==
  ASSUME TurnsWalk, NEW t \in Turns, NEW r, IsFrame(r), WalkIsComplete(r), turn' = [turn EXCEPT ![t] = r]
  PROVE  TurnsWalk'
<1>1. DOMAIN turn' = Turns /\ turn'[t] = r /\ \A u \in Turns \ {t} : turn'[u] = turn[u]
  BY DEF TurnsWalk
<1> QED
  BY <1>1 DEF TurnsWalk

----------------------------------------------------------------------------
(* The turn's own steps. *)

LEMMA FreshFrames ==
  ASSUME NEW l \in {"idle", "skip"}, NEW k, NEW o, NEW keys
  PROVE  IsFrame(Frame(l, k, o, keys)) /\ WalkIsComplete(Frame(l, k, o, keys))
BY DEF Frame, IsFrame, FrameFields, WalkIsComplete

LEMMA OrderingWalks ==
  ASSUME TurnsWalk, NEW t \in Turns,
         (\E k \in Kinds : BuildOrder(t, k)) \/ SkipDeadFamilies(t) \/ SkipDeadProviders(t)
  PROVE  TurnsWalk'
<1>0. IsFrame(turn[t]) /\ WalkIsComplete(turn[t])
  BY DEF TurnsWalk
<1>1. ASSUME NEW k \in Kinds, BuildOrder(t, k) PROVE TurnsWalk'
  BY <1>1, FreshFrames, FrameMoves DEF BuildOrder
<1>2. ASSUME NEW o, NEW l \in {"trying", "prefer"}, turn[t].pc \in {"skip", "prefer"},
             turn' = [turn EXCEPT ![t].order = o, ![t].pc = l]
      PROVE  TurnsWalk'
  <2> DEFINE r == [turn[t] EXCEPT !.order = o, !.pc = l]
  <2>1. turn[t].at = 1 /\ DOMAIN r = FrameFields /\ r.at = 1 /\ r.pc = l
    BY <1>0, <1>2 DEF WalkIsComplete, IsFrame, FrameFields
  <2>2. IsFrame(r) /\ WalkIsComplete(r)
    BY <2>1 DEF IsFrame, WalkIsComplete
  <2>3. turn' = [turn EXCEPT ![t] = r]
    BY <1>2
  <2> QED
    BY <2>2, <2>3, FrameMoves
<1>3. SkipDeadFamilies(t) => TurnsWalk'
  <2> DEFINE o == Unless(Without(turn[t].order, InDeadFamily), turn[t].order)
             l == IF Head(o) = Byok \/ turn[t].kind = "tagged" THEN "trying" ELSE "prefer"
  <2>1. SkipDeadFamilies(t) => turn[t].pc = "skip" /\ turn' = [turn EXCEPT ![t].order = o, ![t].pc = l]
    BY DEF SkipDeadFamilies
  <2>2. l \in {"trying", "prefer"}
    OBVIOUS
  <2> HIDE DEF o, l
  <2> QED
    BY <1>2, <2>1, <2>2
<1>4. SkipDeadProviders(t) => TurnsWalk'
  BY <1>2 DEF SkipDeadProviders
<1> QED
  BY <1>1, <1>3, <1>4

LEMMA CallingWalks ==
  ASSUME TurnsWalk, NEW t \in Turns,
         \/ Answers(t) \/ Raises(t) \/ KeyIsOut(t) \/ SwitchKey(t) \/ NoKeyLeft(t) \/ ProviderIsOut(t)
         \/ HardError(t) \/ RetryableError(t) \/ OtherError(t)
  PROVE  TurnsWalk'
<1>0. IsFrame(turn[t]) /\ WalkIsComplete(turn[t])
  BY DEF TurnsWalk
<1>1. CASE Answers(t) \/ Raises(t)
  BY <1>1, FreshFrames, FrameMoves DEF Answers, Raises, GoesOn, NoFrame
<1>2. CASE KeyIsOut(t)
  <2> DEFINE r == [Called(t) EXCEPT !.pc = "rekeying"]
  <2>1. turn[t].pc = "trying" /\ turn' = [turn EXCEPT ![t] = r]
    BY <1>2 DEF KeyIsOut, Calls, GoesOn
  <2>2. /\ IsFrame(r) /\ r.order = turn[t].order /\ r.at = turn[t].at /\ r.pc = "rekeying"
        /\ r.called = Called(t).called /\ r.out = Called(t).out
    BY <2>1, CalledIsTried DEF IsFrame, FrameFields
  <2>3. WalkIsComplete(r)
    BY <2>1, <2>2, CalledIsTried, <1>0 DEF WalkIsComplete, Tried, Model, IsFrame
  <2> QED
    BY <2>1, <2>2, <2>3, FrameMoves
<1>3. CASE SwitchKey(t) \/ NoKeyLeft(t)
  <2> DEFINE f == Family[Model(t)]
             k == [turn[t] EXCEPT !.keys[f] = Head(OtherKeys(f, KeyFor(t)))]
             o == [turn[t] EXCEPT !.out = @ \cup {f}]
  <2>1. turn[t].pc = "rekeying"
    BY <1>3 DEF SwitchKey, NoKeyLeft
  <2>2. /\ IsFrame(k) /\ k.order = turn[t].order /\ k.at = turn[t].at
        /\ k.called = turn[t].called /\ k.out = turn[t].out
        /\ IsFrame(o) /\ o.order = turn[t].order /\ o.at = turn[t].at
        /\ o.called = turn[t].called /\ o.out = turn[t].out \cup {f}
    BY <1>0 DEF IsFrame, FrameFields
  <2>3. \A i \in 1..Len(turn[t].order) : i <= turn[t].at => Tried(turn[t], i)
    BY <1>0, <2>1 DEF WalkIsComplete, IsFrame, Tried
  <2>4. /\ \A i \in 1..Len(k.order) : i <= k.at => Tried(k, i)
        /\ \A i \in 1..Len(o.order) : i <= o.at => Tried(o, i)
    BY <2>2, <2>3 DEF Tried
  <2>5. /\ IsFrame(NextAttempt(k)) /\ WalkIsComplete(NextAttempt(k))
        /\ IsFrame(NextModel(o)) /\ WalkIsComplete(NextModel(o))
    BY <2>2, <2>4, NextAttemptWalks, NextModelPassesNoneOver
  <2>6. turn' = [turn EXCEPT ![t] = NextAttempt(k)] \/ turn' = [turn EXCEPT ![t] = NextModel(o)]
    BY <1>3 DEF SwitchKey, NoKeyLeft, GiveUpFamily, GoesOn
  <2> QED
    BY <2>5, <2>6, FrameMoves
<1>4. CASE ProviderIsOut(t)
  <2> DEFINE f == Family[Model(t)]
             r == [Called(t) EXCEPT !.out = @ \cup {f}]
  <2>1. turn[t].pc = "trying" /\ turn' = [turn EXCEPT ![t] = NextModel(r)]
    BY <1>4 DEF ProviderIsOut, Calls, GiveUpFamily, GoesOn
  <2>2. /\ IsFrame(r) /\ r.order = Called(t).order /\ r.at = Called(t).at
        /\ r.called = Called(t).called /\ r.out = Called(t).out \cup {f}
    BY <2>1, CalledIsTried DEF IsFrame, FrameFields
  <2>3. \A i \in 1..Len(r.order) : i <= r.at => Tried(r, i)
    BY <2>1, <2>2, CalledIsTried DEF Tried
  <2>4. IsFrame(NextModel(r)) /\ WalkIsComplete(NextModel(r))
    BY <2>2, <2>3, NextModelPassesNoneOver
  <2> QED
    BY <2>1, <2>4, FrameMoves
<1>5. CASE HardError(t) \/ RetryableError(t) \/ OtherError(t)
  <2>1. /\ turn[t].pc = "trying"
        /\ \/ turn' = [turn EXCEPT ![t] = NextModel(Called(t))]
           \/ turn' = [turn EXCEPT ![t] = NextAttempt(Called(t))]
    BY <1>5 DEF HardError, RetryableError, OtherError, Calls, GoesOn
  <2>2. /\ IsFrame(NextAttempt(Called(t))) /\ WalkIsComplete(NextAttempt(Called(t)))
        /\ IsFrame(NextModel(Called(t))) /\ WalkIsComplete(NextModel(Called(t)))
    BY <2>1, CalledIsTried, NextAttemptWalks, NextModelPassesNoneOver
  <2> QED
    BY <2>1, <2>2, FrameMoves
<1> QED
  BY <1>1, <1>2, <1>3, <1>4, <1>5

----------------------------------------------------------------------------
(* The cache's writers. *)

LEMMA MarkingKeepsWorking ==
  ASSUME WorkingIsNotDead, NEW m, NEW f,
         \/ MarkDead(m) \/ MarkFamilyDead(f) \/ MarkAlive(m) \/ SetWorkingProvider(m)
         \/ MarkKeyOut(m) \/ UNCHANGED cacheVars
  PROVE  WorkingIsNotDead'
BY DEF WorkingIsNotDead, MarkDead, MarkFamilyDead, MarkAlive, SetWorkingProvider, MarkKeyOut, cacheVars

LEMMA FirstOfIsOne ==
  ASSUME NEW good, good # {}, good \subseteq {Priority[i] : i \in DOMAIN Priority}
  PROVE  FirstOf(good) \in good
<1> DEFINE at == {i \in DOMAIN Priority : Priority[i] \in good}
<1>1. at \subseteq Nat /\ at # {}
  BY ProviderChainAssumption
<1>2. PICK i \in at : \A j \in at : i <= j
  BY <1>1, LeastNumber
<1>3. i \in DOMAIN Priority /\ Priority[i] \in good /\ \A j \in DOMAIN Priority : Priority[j] \in good => i <= j
  BY <1>2
<1> HIDE DEF at
<1> QED
  BY <1>3 DEF FirstOf

(* The probe's results are applied together: what passed is no longer dead, *)
(* nor is its family, and the first of them is preferred.                   *)
LEMMA ProbeKeepsWorking ==
  ASSUME WorkingIsNotDead, ProbesAreSettled, ApplyProbe
  PROVE  WorkingIsNotDead'
<1>1. RefreshFromResults(probe.good, probe.bad)
  BY DEF ApplyProbe
<1>2. CASE probe.good = {}
  BY <1>1, <1>2 DEF RefreshFromResults, WorkingIsNotDead
<1>3. CASE probe.good # {}
  <2>1. FirstOf(probe.good) \in probe.good
    BY <1>3, FirstOfIsOne DEF ProbesAreSettled
  <2> QED
    BY <1>1, <1>3, <2>1 DEF RefreshFromResults, WorkingIsNotDead, ProbesAreSettled
<1> QED
  BY <1>2, <1>3

LEMMA ProbesStaySettled ==
  ASSUME ProbesAreSettled,
         StartProbe \/ ApplyProbe \/ (\E m \in Models, ok \in BOOLEAN : ProbeModel(m, ok)) \/ UNCHANGED probe
  PROVE  ProbesAreSettled'
<1>1. CASE StartProbe \/ ApplyProbe
  BY <1>1 DEF StartProbe, ApplyProbe, Probe, ProbesAreSettled
<1>2. ASSUME NEW m \in Models, NEW ok \in BOOLEAN, ProbeModel(m, ok) PROVE ProbesAreSettled'
  <2>1. m \notin Probed /\ m \in {Priority[i] : i \in DOMAIN Priority}
    BY <1>2 DEF ProbeModel, ToProbe
  <2>2. probe' = IF ok THEN [probe EXCEPT !.good = @ \cup {m}] ELSE [probe EXCEPT !.bad = @ \cup {m}]
    BY <1>2 DEF ProbeModel
  <2> QED
    BY <2>1, <2>2 DEF ProbesAreSettled, Probed
<1>3. CASE UNCHANGED probe
  BY <1>3 DEF ProbesAreSettled
<1> QED
  BY <1>1, <1>2, <1>3

LEMMA ChainStep == ChainInv /\ [ChainNext]_chainVars => ChainInv'
<1> SUFFICES ASSUME ChainInv, [ChainNext]_chainVars PROVE ChainInv'
  OBVIOUS
<1> USE DEF ChainInv
<1>1. ASSUME NEW t \in Turns, TurnStep(t), ~WarnAtStart(t) PROVE ChainInv'
  <2>1. TurnsWalk' /\ UNCHANGED probe
    <3>1. CASE (\E k \in Kinds : BuildOrder(t, k)) \/ SkipDeadFamilies(t) \/ SkipDeadProviders(t)
      BY <3>1, OrderingWalks DEF BuildOrder, SkipDeadFamilies, SkipDeadProviders, Quiet
    <3>2. CASE \/ Answers(t) \/ Raises(t) \/ KeyIsOut(t) \/ SwitchKey(t) \/ NoKeyLeft(t) \/ ProviderIsOut(t)
               \/ HardError(t) \/ RetryableError(t) \/ OtherError(t)
      BY <3>2, CallingWalks
      DEF Answers, Raises, KeyIsOut, SwitchKey, NoKeyLeft, ProviderIsOut, HardError, RetryableError, OtherError, Quiet
    <3> QED
      BY <1>1, <3>1, <3>2 DEF TurnStep
  <2>2. \E m, f : \/ MarkDead(m) \/ MarkFamilyDead(f) \/ MarkAlive(m) \/ SetWorkingProvider(m)
                  \/ MarkKeyOut(m) \/ UNCHANGED cacheVars
    BY <1>1
    DEF TurnStep, BuildOrder, SkipDeadFamilies, SkipDeadProviders, Answers, Raises, KeyIsOut, SwitchKey,
        NoKeyLeft, ProviderIsOut, HardError, RetryableError, OtherError, GiveUpFamily
  <2> QED
    BY <2>1, <2>2, MarkingKeepsWorking, ProbesStaySettled
<1>2. ASSUME NEW t \in Turns, WarnAtStart(t) PROVE ChainInv'
  BY <1>2, MarkingKeepsWorking, ProbesStaySettled DEF WarnAtStart, Meanwhile, TurnsWalk
<1>3. CASE StartProbe \/ ApplyProbe \/ \E m \in Models, ok \in BOOLEAN : ProbeModel(m, ok)
  <2>1. UNCHANGED turn /\ (ApplyProbe \/ UNCHANGED cacheVars)
    BY <1>3 DEF StartProbe, ApplyProbe, ProbeModel
  <2> QED
    BY <1>3, <2>1, ProbeKeepsWorking, MarkingKeepsWorking, ProbesStaySettled DEF TurnsWalk
<1>4. CASE \/ \E m \in Named, ok \in BOOLEAN : TestModel(m, ok)
           \/ \E f \in Families : SideFamilyOut(f) \/ \E k \in Keys : SideKeyOut(f, k) \/ SideRekeys(f, k)
  <2>1. UNCHANGED <<turn, probe>>
    BY <1>4 DEF TestModel, SideFamilyOut, SideKeyOut, SideRekeys, Meanwhile
  <2>2. \E m, f : MarkDead(m) \/ MarkFamilyDead(f) \/ MarkAlive(m) \/ MarkKeyOut(m) \/ UNCHANGED cacheVars
    BY <1>4 DEF TestModel, SideFamilyOut, SideKeyOut, SideRekeys
  <2> QED
    BY <2>1, <2>2, MarkingKeepsWorking, ProbesStaySettled DEF TurnsWalk
<1>5. CASE Forget \/ ClearCache
  <2>1. UNCHANGED <<turn, probe>> /\ working' \in {working, NoModel} /\ dead' \subseteq dead
        /\ deadFamilies' \subseteq deadFamilies
    BY <1>5 DEF Forget, ClearCache, Meanwhile, cacheVars
  <2> QED
    BY <2>1, ProbesStaySettled DEF TurnsWalk, WorkingIsNotDead
<1>6. CASE EndpointStep \/ UNCHANGED chainVars
  <2>1. UNCHANGED <<turn, probe, cacheVars>>
    BY <1>6
    DEF EndpointStep, AddEndpoint, DeleteEndpoint, SetTextEndpoint, SetImageEndpoint, StoreOnly, chainVars
  <2> QED
    BY <2>1, MarkingKeepsWorking, ProbesStaySettled DEF TurnsWalk
<1> QED
  BY <1>1, <1>2, <1>3, <1>4, <1>5, <1>6 DEF ChainNext, CacheStep

LEMMA ChainStart == ChainInit => ChainInv
<1>1. IsFrame(NoFrame) /\ WalkIsComplete(NoFrame)
  BY FreshFrames DEF NoFrame
<1> QED
  BY <1>1 DEF ChainInit, ChainInv, WorkingIsNotDead, ProbesAreSettled, Probe, TurnsWalk

(* Whatever order turns, probes, tests and Jev write fallback_cache.json    *)
(* in, the provider it prefers is not one it says to skip.                  *)
THEOREM PreferredProviderIsAlive == ChainSpec => []WorkingIsNotDead
<1>1. ChainInv => WorkingIsNotDead
  BY DEF ChainInv
<1> QED
  BY <1>1, ChainStart, ChainStep, PTL DEF ChainSpec

(* A turn that reports that all its providers failed called each model of   *)
(* its order, or found its family out during this very turn.                *)
THEOREM NoModelIsPassedOver == ChainSpec => []EveryModelTried
<1>1. ChainInv => EveryModelTried
  BY DEF ChainInv, TurnsWalk, WalkIsComplete, Tried, EveryModelTried
<1> QED
  BY <1>1, ChainStart, ChainStep, PTL DEF ChainSpec

----------------------------------------------------------------------------
(* ThreadMemory: what each history holds, and what a provider takes of it.  *)

Kept == {m \in [kind : {"log", "request", "call", "result", "answer"}, posts : SUBSET Nat, system : BOOLEAN] :
           m.kind = "call" => m.posts = {}}

RunShape ==
  [at : {"idle", "starting", "trying", "asking", "calling", "tool", "model", "saving"},
   post : Nat, own : SUBSET Nat, base : Seq(Kept), fetched : BOOLEAN, history : Seq(Kept),
   prompt : BOOLEAN, messages : Seq(Kept), progress : Seq(Kept), moved : BOOLEAN,
   window : [observeAt : Nat, keep : Nat \ {0}], calls : Nat, skipped : BOOLEAN, result : Seq(Kept)]

MemoryTypes ==
  /\ thread \in Nat /\ unheard \subseteq 1..thread /\ letGo \subseteq Nat
  /\ memory \in [messages : Seq(Kept), seen : Nat]
  /\ steerQueue \in Seq(Nat)
  /\ run \in RunShape
  /\ checkpoint \in [post : Nat, messages : Seq(Kept)]

(* Every call but the last message has its result.                          *)
Pairing(h) ==
  \A i \in DOMAIN h :
    /\ h[i].kind = "call" => i = Len(h) \/ h[i + 1].kind = "result"
    /\ h[i].kind = "result" => i > 1 /\ h[i - 1].kind = "call"
EndsInCall(h) == h # <<>> /\ h[Len(h)].kind = "call"

SystemLeads(h) == \A i \in DOMAIN h : h[i].system <=> i = 1

(* The last request with posts is the turn's own.                           *)
AsksOwn(h, own) ==
  \E i \in DOMAIN h :
    /\ h[i].kind = "request" /\ h[i].posts = own
    /\ \A j \in DOMAIN h : j > i => ~(h[j].kind = "request" /\ h[j].posts # {})

(* A history holds the thread up to where its conversation had seen it and, *)
(* when the turn fetched the rest, up to the post it answers.               *)
Knows(h, seen, gone, r) ==
  /\ 1..seen \subseteq PostsIn(h) \cup gone
  /\ r.fetched => 1..r.post \subseteq PostsIn(h) \cup gone \cup r.own
KnowsThread(h) == Knows(h, StoredMemory.seen, letGo, run)

(* What may be sent to a model, but for a call that waits to be executed.   *)
IsReady(h) == Pairing(h) /\ SystemLeads(h) /\ KnowsThread(h) /\ AsksOwn(h, run.own)

Attempting == run.at \in {"trying", "asking", "calling", "tool", "model"}
Sending    == run.at \in {"asking", "calling", "tool", "model"}

TurnIsOne ==
  /\ run.at # "idle" => run.own # {}
  /\ run.at = "starting" => run.prompt /\ ~run.moved
  /\ checkpoint # NoRecord => run.at # "idle"

BaseIsSound == run.at \notin {"idle", "saving"} => Paired(run.base) /\ KnowsThread(run.base)

HistoryIsSound ==
  Attempting =>
    /\ Pairing(run.history) /\ SystemLeads(run.history) /\ KnowsThread(run.history)
    /\ IF run.prompt THEN ~EndsInCall(run.history) ELSE AsksOwn(run.history, run.own)

MessagesAreSound ==
  Sending => IsReady(run.messages) /\ (EndsInCall(run.messages) <=> run.at \in {"calling", "tool"})

ProgressIsSound ==
  /\ run.at = "tool" => run.moved
  /\ Attempting /\ run.moved => IsReady(run.progress) /\ ~EndsInCall(run.progress)

CheckpointIsSound ==
  checkpoint.messages # <<>> => IsReady(checkpoint.messages) /\ ~EndsInCall(checkpoint.messages)

ResultIsSound ==
  run.at = "saving" =>
    /\ Paired(run.result) /\ KnowsThread(run.result)
    /\ run.skipped \/ run.own \subseteq PostsIn(run.result)

MemoryInv ==
  /\ MemoryTypes /\ NothingForgotten /\ TurnIsOne /\ BaseIsSound /\ HistoryIsSound
  /\ MessagesAreSound /\ ProgressIsSound /\ CheckpointIsSound /\ ResultIsSound

----------------------------------------------------------------------------
(* What the operators on histories preserve. *)

LEMMA PostsAre == \A h, q : q \in PostsIn(h) <=> \E i \in DOMAIN h : q \in h[i].posts
BY DEF PostsIn

LEMMA PairedIsPairing ==
  ASSUME NEW h \in Seq(Kept)
  PROVE  Paired(h) <=> Pairing(h) /\ ~EndsInCall(h)
<1>1. DOMAIN h = 1..Len(h) /\ Len(h) \in Nat /\ (h = <<>> <=> Len(h) = 0)
  OBVIOUS
<1>2. Paired(h) => Pairing(h)
  BY <1>1 DEF Paired, Pairing
<1>3. Paired(h) => ~EndsInCall(h)
  BY <1>1 DEF Paired, EndsInCall
<1>4. ASSUME Pairing(h), ~EndsInCall(h), NEW i \in DOMAIN h
      PROVE  h[i].kind = "call" => i < Len(h) /\ h[i + 1].kind = "result"
  BY <1>1, <1>4 DEF Pairing, EndsInCall
<1>5. Pairing(h) /\ ~EndsInCall(h) => Paired(h)
  BY <1>4 DEF Paired, Pairing
<1> QED
  BY <1>2, <1>3, <1>5

LEMMA AppendKeeps ==
  ASSUME NEW h \in Seq(Kept), NEW m \in Kept
  PROVE  /\ Append(h, m) \in Seq(Kept) /\ Append(h, m) # <<>>
         /\ PostsIn(Append(h, m)) = PostsIn(h) \cup m.posts
         /\ EndsInCall(Append(h, m)) <=> m.kind = "call"
         /\ Pairing(h) /\ (EndsInCall(h) <=> m.kind = "result") => Pairing(Append(h, m))
         /\ SystemLeads(h) /\ (m.system <=> h = <<>>) => SystemLeads(Append(h, m))
         /\ \A own : AsksOwn(h, own) /\ ~(m.kind = "request" /\ m.posts # {}) => AsksOwn(Append(h, m), own)
         /\ m.kind = "request" => AsksOwn(Append(h, m), m.posts)
<1> DEFINE g == Append(h, m)
<1>1. /\ g \in Seq(Kept) /\ g # <<>> /\ Len(g) = Len(h) + 1 /\ DOMAIN g = 1..(Len(h) + 1) /\ Len(h) \in Nat
      /\ DOMAIN h = 1..Len(h) /\ g[Len(h) + 1] = m /\ (h = <<>> <=> Len(h) = 0)
      /\ \A i \in 1..Len(h) : g[i] = h[i]
  OBVIOUS
<1> HIDE DEF g
<1>2. PostsIn(g) = PostsIn(h) \cup m.posts
  <2>1. ASSUME NEW q PROVE q \in PostsIn(g) <=> q \in PostsIn(h) \/ q \in m.posts
    <3>1. q \in PostsIn(g) <=> \E i \in 1..(Len(h) + 1) : q \in g[i].posts
      BY <1>1, PostsAre
    <3>2. q \in PostsIn(h) <=> \E i \in 1..Len(h) : q \in h[i].posts
      BY <1>1, PostsAre
    <3> QED
      BY <1>1, <3>1, <3>2
  <2> QED
    BY <2>1
<1>3. EndsInCall(g) <=> m.kind = "call"
  BY <1>1 DEF EndsInCall
<1>4. Pairing(h) /\ (EndsInCall(h) <=> m.kind = "result") => Pairing(g)
  BY <1>1 DEF Pairing, EndsInCall
<1>5. SystemLeads(h) /\ (m.system <=> h = <<>>) => SystemLeads(g)
  BY <1>1 DEF SystemLeads
<1>6. ASSUME NEW own, AsksOwn(h, own), ~(m.kind = "request" /\ m.posts # {}) PROVE AsksOwn(g, own)
  BY <1>1, <1>6 DEF AsksOwn
<1>7. m.kind = "request" => AsksOwn(g, m.posts)
  BY <1>1 DEF AsksOwn
<1> QED
  BY <1>1, <1>2, <1>3, <1>4, <1>5, <1>6, <1>7 DEF g

(* _messages_safe_for_resume *)
LEMMA SafeKeeps ==
  ASSUME NEW h \in Seq(Kept), Pairing(h)
  PROVE  /\ SafeForResume(h) \in Seq(Kept) /\ Pairing(SafeForResume(h)) /\ ~EndsInCall(SafeForResume(h))
         /\ PostsIn(SafeForResume(h)) = PostsIn(h)
         /\ SystemLeads(h) => SystemLeads(SafeForResume(h))
         /\ \A own : AsksOwn(h, own) => AsksOwn(SafeForResume(h), own)
<1> DEFINE g == SafeForResume(h)
<1>0. DOMAIN h = 1..Len(h) /\ Len(h) \in Nat /\ (h = <<>> <=> Len(h) = 0)
  OBVIOUS
<1>1. CASE EndsInCall(h)
  <2>1. g = SubSeq(h, 1, Len(h) - 1) /\ Len(h) > 0 /\ h[Len(h)].kind = "call"
    BY <1>0, <1>1 DEF SafeForResume, EndsInCall, Front, Last
  <2>2. /\ g \in Seq(Kept) /\ Len(g) = Len(h) - 1 /\ DOMAIN g = 1..(Len(h) - 1)
        /\ \A i \in 1..(Len(h) - 1) : g[i] = h[i]
    BY <1>0, <2>1
  <2>3. h[Len(h)].posts = {}
    BY <1>0, <2>1 DEF Kept
  <2> HIDE DEF g
  <2>4. PostsIn(g) = PostsIn(h)
    <3>1. ASSUME NEW q PROVE q \in PostsIn(g) <=> q \in PostsIn(h)
      <4>1. q \in PostsIn(g) <=> \E i \in 1..(Len(h) - 1) : q \in h[i].posts
        BY <2>2, PostsAre
      <4>2. q \in PostsIn(h) <=> \E i \in 1..Len(h) : q \in h[i].posts
        BY <1>0, PostsAre
      <4> QED
        BY <1>0, <2>3, <4>1, <4>2
    <3> QED
      BY <3>1
  <2>5. g = <<>> <=> Len(g) = 0
    BY <2>2
  <2>6. Pairing(g) /\ ~EndsInCall(g)
    BY <1>0, <2>1, <2>2, <2>5, SMTT(60) DEF Pairing, EndsInCall
  <2>7. SystemLeads(h) => SystemLeads(g)
    BY <1>0, <2>1, <2>2 DEF SystemLeads
  <2>8. ASSUME NEW own, AsksOwn(h, own) PROVE AsksOwn(g, own)
    <3>1. PICK i \in 1..Len(h) : /\ h[i].kind = "request" /\ h[i].posts = own
                                 /\ \A j \in DOMAIN h : j > i => ~(h[j].kind = "request" /\ h[j].posts # {})
      BY <1>0, <2>8 DEF AsksOwn
    <3>2. i \in DOMAIN g /\ g[i] = h[i]
      BY <1>0, <2>1, <2>2, <3>1
    <3> QED
      BY <1>0, <2>2, <3>1, <3>2 DEF AsksOwn
  <2> QED
    BY <2>2, <2>4, <2>6, <2>7, <2>8 DEF g
<1>2. CASE ~EndsInCall(h)
  BY <1>0, <1>2 DEF SafeForResume, EndsInCall, Last
<1> QED
  BY <1>1, <1>2

(* _with_system_prompt *)
LEMMA SystemPromptKeeps ==
  ASSUME NEW h \in Seq(Kept), Pairing(h)
  PROVE  /\ WithSystemPrompt(h) \in Seq(Kept)
         /\ WithSystemPrompt(h) = <<>> <=> h = <<>>
         /\ Pairing(WithSystemPrompt(h)) /\ SystemLeads(WithSystemPrompt(h))
         /\ EndsInCall(WithSystemPrompt(h)) <=> EndsInCall(h)
         /\ PostsIn(WithSystemPrompt(h)) = PostsIn(h)
         /\ \A own : own # {} /\ AsksOwn(h, own) => AsksOwn(WithSystemPrompt(h), own)
<1> DEFINE g == WithSystemPrompt(h)
           s == [i \in DOMAIN h |-> [h[i] EXCEPT !.system = FALSE]]
           p == Msg("request", {}, TRUE)
<1>0. DOMAIN h = 1..Len(h) /\ Len(h) \in Nat /\ (h = <<>> <=> Len(h) = 0) /\ \A i \in 1..Len(h) : h[i] \in Kept
  OBVIOUS
<1>1. CASE h = <<>>
  BY <1>1 DEF WithSystemPrompt, SystemLeads, EndsInCall
<1>2. /\ DOMAIN s = 1..Len(h) /\ s \in Seq(Kept) /\ Len(s) = Len(h)
      /\ \A i \in 1..Len(h) : /\ s[i] \in Kept /\ s[i].kind = h[i].kind /\ s[i].posts = h[i].posts
                              /\ s[i].system = FALSE
  <2>1. ASSUME NEW i \in 1..Len(h)
        PROVE  /\ s[i] \in Kept /\ s[i].kind = h[i].kind /\ s[i].posts = h[i].posts /\ s[i].system = FALSE
    BY <1>0 DEF Kept
  <2>2. s \in [1..Len(h) -> Kept]
    BY <1>0, <2>1
  <2> HIDE DEF s
  <2>3. s \in Seq(Kept) /\ Len(s) = Len(h) /\ DOMAIN s = 1..Len(h)
    BY <1>0, <2>2
  <2> QED
    BY <2>1, <2>3
<1>3. CASE h # <<>> /\ h[1].kind \in {"log", "request", "result"}
  <2>1. g = [s EXCEPT ![1].system = TRUE] /\ Len(h) > 0
    BY <1>0, <1>3 DEF WithSystemPrompt
  <2> HIDE DEF s
  <2>a. DOMAIN g = 1..Len(h) /\ g[1] = [s[1] EXCEPT !.system = TRUE] /\ \A i \in 2..Len(h) : g[i] = s[i]
    <3>1. 1 \in DOMAIN s /\ g = [s EXCEPT ![1] = [s[1] EXCEPT !.system = TRUE]]
      BY <1>2, <2>1
    <3> HIDE DEF g
    <3>2. g[1] = [s[1] EXCEPT !.system = TRUE]
      BY <3>1
    <3>3. DOMAIN g = DOMAIN s /\ \A i \in DOMAIN s : i # 1 => g[i] = s[i]
      BY <3>1
    <3> QED
      BY <1>2, <3>2, <3>3
  <2>b. s[1] \in Kept /\ s[1].kind = h[1].kind /\ s[1].posts = h[1].posts
    BY <1>0, <1>2, <2>1
  <2> HIDE DEF g
  <2>c. g[1] \in Kept /\ g[1].kind = h[1].kind /\ g[1].posts = h[1].posts /\ g[1].system = TRUE
    BY <2>a, <2>b DEF Kept
  <2>2. ASSUME NEW i \in 1..Len(h)
        PROVE  /\ g[i] \in Kept /\ g[i].kind = h[i].kind /\ g[i].posts = h[i].posts
               /\ g[i].system <=> i = 1
    <3>1. i = 1 \/ i \in 2..Len(h)
      BY <1>0
    <3> QED
      BY <1>2, <2>a, <2>c, <3>1, ZenonT(60)
  <2>3. g \in Seq(Kept) /\ Len(g) = Len(h) /\ g # <<>> /\ DOMAIN g = 1..Len(h)
    <3>0. g = [i \in 1..Len(h) |-> g[i]]
      BY <2>1, <2>a DEF g
    <3>1. g \in [1..Len(h) -> Kept]
      BY <2>2, <3>0
    <3>2. g \in Seq(Kept) /\ Len(g) = Len(h)
      BY <1>0, <3>1
    <3> QED
      BY <1>0, <1>3, <2>a, <3>2
  <2>4. PostsIn(g) = PostsIn(h)
    <3>1. \A q : (\E i \in 1..Len(h) : q \in g[i].posts) <=> \E i \in 1..Len(h) : q \in h[i].posts
      BY <2>2
    <3>2. \A q : q \in PostsIn(g) <=> q \in PostsIn(h)
      BY <1>0, <2>3, <3>1, PostsAre
    <3> QED
      BY <3>2
  <2>5. Pairing(g)
    BY <1>0, <2>2, <2>3 DEF Pairing
  <2>6. SystemLeads(g) /\ (EndsInCall(g) <=> EndsInCall(h))
    BY <1>0, <1>3, <2>1, <2>2, <2>3 DEF SystemLeads, EndsInCall
  <2>7. \A own : AsksOwn(h, own) => AsksOwn(g, own)
    BY <1>0, <2>2, <2>3, SMTT(60) DEF AsksOwn
  <2> QED
    BY <1>3, <2>3, <2>4, <2>5, <2>6, <2>7 DEF g
<1>4. CASE h # <<>> /\ h[1].kind \notin {"log", "request", "result"}
  <2>1. g = <<p>> \o s /\ Len(h) > 0
    BY <1>0, <1>4 DEF WithSystemPrompt
  <2>2. p \in Kept /\ p.kind = "request" /\ p.posts = {} /\ p.system = TRUE
    BY DEF Msg, Kept
  <2> HIDE DEF s, p
  <2>3. /\ g \in Seq(Kept) /\ Len(g) = Len(h) + 1 /\ DOMAIN g = 1..(Len(h) + 1) /\ g # <<>> /\ g[1] = p
        /\ \A i \in 1..Len(h) : g[i + 1] = s[i]
    BY <1>0, <1>2, <2>1, <2>2
  <2> HIDE DEF g
  <2>4. PostsIn(g) = PostsIn(h)
    <3>1. ASSUME NEW q, NEW i \in 1..Len(h), q \in h[i].posts PROVE q \in PostsIn(g)
      <4>1. i + 1 \in DOMAIN g /\ q \in g[i + 1].posts
        BY <1>0, <1>2, <2>3, <3>1
      <4> QED
        BY <4>1, PostsAre
    <3>2. ASSUME NEW q, NEW i \in 1..(Len(h) + 1), q \in g[i].posts PROVE q \in PostsIn(h)
      <4>1. i # 1 /\ i - 1 \in 1..Len(h) /\ q \in h[i - 1].posts
        BY <1>0, <1>2, <2>2, <2>3, <3>2
      <4> QED
        BY <1>0, <4>1, PostsAre
    <3> QED
      BY <1>0, <2>3, <3>1, <3>2, PostsAre
  <2>5. \A i \in 2..(Len(h) + 1) : g[i].kind = h[i - 1].kind /\ g[i].posts = h[i - 1].posts /\ g[i].system = FALSE
    <3> SUFFICES ASSUME NEW i \in 2..(Len(h) + 1)
                 PROVE  g[i].kind = h[i - 1].kind /\ g[i].posts = h[i - 1].posts /\ g[i].system = FALSE
      OBVIOUS
    <3>1. i - 1 \in 1..Len(h) /\ (i - 1) + 1 = i
      BY <1>0
    <3>2. g[i] = s[i - 1]
      BY <2>3, <3>1
    <3> QED
      BY <1>2, <3>1, <3>2
  <2>6. Pairing(g)
    <3> SUFFICES ASSUME NEW i \in 1..(Len(h) + 1)
                 PROVE  /\ g[i].kind = "call" => i = Len(g) \/ g[i + 1].kind = "result"
                        /\ g[i].kind = "result" => i > 1 /\ g[i - 1].kind = "call"
      BY <2>3 DEF Pairing
    <3>1. CASE i = 1
      BY <2>2, <2>3, <3>1
    <3>2. CASE i > 1
      <4>1. i - 1 \in DOMAIN h /\ g[i].kind = h[i - 1].kind
        BY <1>0, <2>5, <3>2
      <4>2. i < Len(h) + 1 => g[i + 1].kind = h[i].kind
        BY <1>0, <2>5, <3>2
      <4>3. h[i - 1].kind = "call" => i - 1 = Len(h) \/ h[i].kind = "result"
        BY <4>1 DEF Pairing
      <4>4. h[i - 1].kind = "result" => i - 1 > 1 /\ h[i - 2].kind = "call"
        BY <4>1 DEF Pairing
      <4>5. i > 2 => g[i - 1].kind = h[i - 2].kind
        BY <1>0, <2>5, <3>2
      <4> QED
        BY <1>0, <2>3, <4>1, <4>2, <4>3, <4>4, <4>5
    <3> QED
      BY <3>1, <3>2
  <2>7. SystemLeads(g) /\ (EndsInCall(g) <=> EndsInCall(h))
    BY <1>0, <1>4, <2>1, <2>2, <2>3, <2>5 DEF SystemLeads, EndsInCall
  <2>8. ASSUME NEW own, own # {}, AsksOwn(h, own) PROVE AsksOwn(g, own)
    <3>1. PICK i \in 1..Len(h) : /\ h[i].kind = "request" /\ h[i].posts = own
                                 /\ \A j \in DOMAIN h : j > i => ~(h[j].kind = "request" /\ h[j].posts # {})
      BY <1>0, <2>8 DEF AsksOwn
    <3>2. i + 1 \in DOMAIN g /\ g[i + 1].kind = "request" /\ g[i + 1].posts = own
      BY <1>0, <2>3, <2>5, <3>1
    <3>3. \A j \in DOMAIN g : j > i + 1 => ~(g[j].kind = "request" /\ g[j].posts # {})
      BY <1>0, <2>3, <2>5, <3>1
    <3> QED
      BY <3>2, <3>3 DEF AsksOwn
  <2> QED
    BY <1>4, <2>3, <2>4, <2>6, <2>7, <2>8 DEF g
<1> QED
  BY <1>1, <1>3, <1>4

(* _turn_request_index *)
LEMMA TurnRequestIsOwn ==
  ASSUME NEW h \in Seq(Kept), NEW own, own # {}, AsksOwn(h, own)
  PROVE  /\ TurnRequest(h) \in DOMAIN h /\ h[TurnRequest(h)].kind = "request" /\ h[TurnRequest(h)].posts = own
         /\ \A j \in DOMAIN h : j > TurnRequest(h) => ~(h[j].kind = "request" /\ h[j].posts # {})
<1> DEFINE asks == {i \in DOMAIN h : h[i].kind = "request" /\ h[i].posts # {}}
<1>0. DOMAIN h = 1..Len(h) /\ Len(h) \in Nat
  OBVIOUS
<1>1. PICK i \in DOMAIN h : /\ h[i].kind = "request" /\ h[i].posts = own
                            /\ \A j \in DOMAIN h : j > i => ~(h[j].kind = "request" /\ h[j].posts # {})
  BY DEF AsksOwn
<1>2. i \in asks /\ \A j \in asks : j <= i
  BY <1>0, <1>1
<1>3. \A k \in asks : (\A j \in asks : j <= k) => k = i
  BY <1>0, <1>2
<1>4. TurnRequest(h) = CHOOSE k \in asks : \A j \in asks : j <= k
  BY <1>2 DEF TurnRequest
<1> HIDE DEF asks
<1>5. TurnRequest(h) = i
  BY <1>2, <1>3, <1>4
<1> QED
  BY <1>1, <1>5

(* Old messages give way to notes: no call is parted from its result, and   *)
(* the system prompt and the posts stay.                                    *)
LEMMA NotedKeeps ==
  ASSUME NEW h \in Seq(Kept), Pairing(h), NEW n \in 1..(Len(h) - 1), h[n].kind # "call",
         NEW g, g = Noted(h, n, PostsIn(SubSeq(h, 1, n)))
  PROVE  /\ g \in Seq(Kept) /\ g # <<>> /\ Pairing(g) /\ (EndsInCall(g) <=> EndsInCall(h))
         /\ PostsIn(g) = PostsIn(h)
         /\ SystemLeads(h) => SystemLeads(g)
         /\ \A own : own # {} /\ AsksOwn(h, own) /\ n < TurnRequest(h) => AsksOwn(g, own)
<1> DEFINE ps == PostsIn(SubSeq(h, 1, n))
           old == SubSeq(h, 1, n)
           new == SubSeq(h, n + 1, Len(h))
           log == Msg("log", ps, \E i \in 1..n : h[i].system)
<1>0. /\ DOMAIN h = 1..Len(h) /\ Len(h) \in Nat /\ n \in Nat /\ n >= 1 /\ n < Len(h) /\ h # <<>>
      /\ \A i \in 1..Len(h) : h[i] \in Kept
  OBVIOUS
<1>1. old \in Seq(Kept) /\ DOMAIN old = 1..n /\ \A i \in 1..n : old[i] = h[i]
  BY <1>0
<1>2. /\ new \in Seq(Kept) /\ Len(new) = Len(h) - n
      /\ \A i \in 1..(Len(h) - n) : new[i] = h[n + i]
  BY <1>0
<1>3. \A q : q \in ps <=> \E i \in 1..n : q \in h[i].posts
  BY <1>1, PostsAre
<1>4. log \in Kept /\ log.kind = "log" /\ log.posts = ps /\ (log.system <=> \E i \in 1..n : h[i].system)
  <2>1. ps \subseteq Nat
    BY <1>0, <1>3 DEF Kept
  <2> HIDE DEF ps
  <2> QED
    BY <2>1 DEF Msg, Kept
<1>5. g = <<log>> \o new
  BY DEF Noted
<1> HIDE DEF log, new, old, ps
<1>a. new \in Seq(Kept) /\ Len(new) \in Nat /\ <<log>> \in Seq(Kept) /\ Len(<<log>>) = 1 /\ <<log>>[1] = log
  BY <1>2, <1>4
<1>b. g \in Seq(Kept)
  <2>1. \A a, b \in Seq(Kept) : a \o b \in Seq(Kept)
    OBVIOUS
  <2>2. <<log>> \o new \in Seq(Kept)
    BY <1>a, <2>1
  <2> QED
    BY <1>5, <2>2
<1>c. Len(g) = 1 + Len(new)
  BY <1>5, <1>a
<1>d. g[1] = log
  BY <1>5, <1>a
<1>e. \A i \in 1..Len(new) : g[i + 1] = new[i]
  BY <1>5, <1>a
<1>6. /\ g \in Seq(Kept) /\ Len(g) = Len(h) - n + 1 /\ DOMAIN g = 1..(Len(h) - n + 1) /\ g # <<>> /\ g[1] = log
      /\ \A i \in 1..(Len(h) - n) : g[i + 1] = new[i]
  BY <1>0, <1>2, <1>b, <1>c, <1>d, <1>e
<1>7. \A i \in 2..(Len(h) - n + 1) : g[i] = h[n + i - 1]
  <2> SUFFICES ASSUME NEW i \in 2..(Len(h) - n + 1) PROVE g[i] = h[n + i - 1]
    OBVIOUS
  <2>1. i - 1 \in 1..(Len(h) - n) /\ (i - 1) + 1 = i /\ n + (i - 1) = n + i - 1
    BY <1>0
  <2> QED
    BY <1>2, <1>6, <2>1
<1>8. \A j \in (n + 1)..Len(h) : j - n + 1 \in 2..(Len(h) - n + 1) /\ g[j - n + 1] = h[j]
  <2> SUFFICES ASSUME NEW j \in (n + 1)..Len(h)
               PROVE  j - n + 1 \in 2..(Len(h) - n + 1) /\ g[j - n + 1] = h[j]
    OBVIOUS
  <2>1. j - n + 1 \in 2..(Len(h) - n + 1) /\ n + (j - n + 1) - 1 = j
    BY <1>0
  <2> QED
    BY <1>7, <2>1
<1>9. PostsIn(g) = PostsIn(h)
  <2>1. ASSUME NEW q, NEW i \in 1..Len(h), q \in h[i].posts PROVE q \in PostsIn(g)
    <3>1. CASE i <= n
      <4>1. q \in log.posts
        BY <1>0, <1>3, <1>4, <2>1, <3>1
      <4> QED
        BY <1>0, <1>6, <4>1, PostsAre
    <3>2. CASE i > n
      <4>1. i - n + 1 \in DOMAIN g /\ q \in g[i - n + 1].posts
        BY <1>0, <1>6, <1>8, <2>1, <3>2
      <4> QED
        BY <4>1, PostsAre
    <3> QED
      BY <1>0, <3>1, <3>2
  <2>2. ASSUME NEW q, NEW i \in 1..(Len(h) - n + 1), q \in g[i].posts PROVE q \in PostsIn(h)
    <3>1. CASE i = 1
      <4>1. \E j \in 1..n : q \in h[j].posts
        BY <1>3, <1>4, <1>6, <2>2, <3>1
      <4> QED
        BY <1>0, <4>1, PostsAre
    <3>2. CASE i > 1
      <4>1. n + i - 1 \in DOMAIN h /\ q \in h[n + i - 1].posts
        BY <1>0, <1>7, <2>2, <3>2
      <4> QED
        BY <4>1, PostsAre
    <3> QED
      BY <1>0, <3>1, <3>2
  <2>3. \A q : q \in PostsIn(g) <=> q \in PostsIn(h)
    BY <1>0, <1>6, <2>1, <2>2, PostsAre
  <2> QED
    BY <2>3
<1>10. Pairing(g)
  <2> SUFFICES ASSUME NEW i \in 1..(Len(h) - n + 1)
               PROVE  /\ g[i].kind = "call" => i = Len(g) \/ g[i + 1].kind = "result"
                      /\ g[i].kind = "result" => i > 1 /\ g[i - 1].kind = "call"
    BY <1>6 DEF Pairing
  <2>1. CASE i = 1
    BY <1>4, <1>6, <2>1
  <2>2. CASE i > 1
    <3> DEFINE j == n + i - 1
    <3>a. i \in 2..(Len(h) - n + 1) /\ i \in Nat
      BY <1>0, <2>2
    <3>b. g[i] = h[j]
      BY <1>7, <3>a
    <3>c. j \in 1..Len(h) /\ j > n /\ (j = Len(h) <=> i = Len(h) - n + 1)
      BY <1>0, <3>a
    <3>1. j \in DOMAIN h /\ j > n /\ g[i] = h[j] /\ (j = Len(h) <=> i = Len(g))
      BY <1>0, <1>6, <3>b, <3>c
    <3>2. i < Len(g) => g[i + 1] = h[j + 1]
      <4>1. i < Len(g) => i + 1 \in 2..(Len(h) - n + 1) /\ n + (i + 1) - 1 = j + 1
        BY <1>0, <1>6, <2>2
      <4> QED
        BY <1>7, <4>1
    <3>3. i > 2 => g[i - 1] = h[j - 1]
      <4>1. i > 2 => i - 1 \in 2..(Len(h) - n + 1) /\ n + (i - 1) - 1 = j - 1
        BY <1>0, <2>2
      <4> QED
        BY <1>7, <4>1
    <3>4. i = 2 => j - 1 = n
      BY <1>0
    <3> HIDE DEF j
    <3>5. /\ h[j].kind = "call" => j = Len(h) \/ h[j + 1].kind = "result"
          /\ h[j].kind = "result" => j > 1 /\ h[j - 1].kind = "call"
      BY <3>1 DEF Pairing
    <3>6. i = 2 \/ i > 2
      BY <2>2
    <3> QED
      BY <1>6, <2>2, <3>1, <3>2, <3>3, <3>4, <3>5, <3>6, SMTT(60)
  <2> QED
    BY <2>1, <2>2
<1>11. EndsInCall(g) <=> EndsInCall(h)
  <2>1. g[Len(g)] = h[Len(h)]
    <3>1. Len(g) \in 2..(Len(h) - n + 1) /\ n + Len(g) - 1 = Len(h)
      BY <1>0, <1>6
    <3> QED
      BY <1>7, <3>1
  <2> QED
    BY <1>0, <1>6, <2>1 DEF EndsInCall
<1>12. ASSUME SystemLeads(h) PROVE SystemLeads(g)
  <2>1. h[1].system /\ \A i \in 2..Len(h) : ~h[i].system
    BY <1>0, <1>12 DEF SystemLeads
  <2>2. log.system
    BY <1>0, <1>4, <2>1
  <2>3. \A i \in 2..(Len(h) - n + 1) : ~g[i].system
    <3> SUFFICES ASSUME NEW i \in 2..(Len(h) - n + 1) PROVE ~g[i].system
      OBVIOUS
    <3>1. n + i - 1 \in 2..Len(h) /\ g[i] = h[n + i - 1]
      BY <1>0, <1>7
    <3> QED
      BY <2>1, <3>1
  <2>4. \A i \in 1..(Len(h) - n + 1) : i = 1 \/ i \in 2..(Len(h) - n + 1)
    BY <1>0
  <2> QED
    BY <1>6, <2>2, <2>3, <2>4 DEF SystemLeads
<1>13. ASSUME NEW own, own # {}, AsksOwn(h, own), n < TurnRequest(h) PROVE AsksOwn(g, own)
  <2>1. /\ TurnRequest(h) \in DOMAIN h /\ h[TurnRequest(h)].kind = "request" /\ h[TurnRequest(h)].posts = own
        /\ \A j \in DOMAIN h : j > TurnRequest(h) => ~(h[j].kind = "request" /\ h[j].posts # {})
    BY <1>13, TurnRequestIsOwn
  <2>2. PICK k \in (n + 1)..Len(h) : k = TurnRequest(h)
    BY <1>0, <1>13, <2>1
  <2>3. k - n + 1 \in 2..(Len(h) - n + 1) /\ g[k - n + 1] = h[k]
    BY <1>8
  <2>4. \A i \in DOMAIN g : i > k - n + 1 => ~(g[i].kind = "request" /\ g[i].posts # {})
    <3> SUFFICES ASSUME NEW i \in DOMAIN g, i > k - n + 1 PROVE ~(g[i].kind = "request" /\ g[i].posts # {})
      OBVIOUS
    <3>1. i \in 2..(Len(h) - n + 1) /\ n + i - 1 \in DOMAIN h /\ n + i - 1 > k
      BY <1>0, <1>6, <2>3, SMTT(60)
    <3> QED
      BY <1>7, <2>1, <2>2, <3>1
  <2>5. k - n + 1 \in DOMAIN g /\ g[k - n + 1].kind = "request" /\ g[k - n + 1].posts = own
    BY <1>0, <1>6, <2>1, <2>2, <2>3, SMTT(60)
  <2> QED
    BY <2>4, <2>5 DEF AsksOwn
<1> QED
  BY <1>6, <1>9, <1>10, <1>11, <1>12, <1>13

(* maybe_observe: the history, or the history with notes for its beginning. *)
LEMMA ObserveKeeps ==
  ASSUME NEW h \in Seq(Kept), Pairing(h), NEW w \in [observeAt : Nat, keep : Nat \ {0}],
         NEW noted, NEW keepFrom,
         keepFrom = 0 \/ \E own : keepFrom = TurnRequest(h) /\ own # {} /\ AsksOwn(h, own),
         NEW g, g = MaybeObserve(h, w, keepFrom, noted)
  PROVE  /\ g \in Seq(Kept) /\ (g = <<>> <=> h = <<>>) /\ Pairing(g) /\ (EndsInCall(g) <=> EndsInCall(h))
         /\ PostsIn(g) = PostsIn(h)
         /\ SystemLeads(h) => SystemLeads(g)
         /\ \A own : keepFrom = TurnRequest(h) /\ own # {} /\ AsksOwn(h, own) => AsksOwn(g, own)
<1> DEFINE raw  == RawOf(h)
           d    == Len(h) - Len(raw)
           cut  == SplitIndex(raw, w.keep)
           kept == IF keepFrom = 0 THEN Len(raw) ELSE keepFrom - 1 - d
           split == IF kept < cut THEN kept ELSE cut
           n    == d + split
<1>0. /\ DOMAIN h = 1..Len(h) /\ Len(h) \in Nat /\ (h = <<>> <=> Len(h) = 0)
      /\ w.keep \in Nat /\ w.keep > 0 /\ w.observeAt \in Nat
  OBVIOUS
<1>1. /\ raw \in Seq(Kept) /\ Len(raw) \in Nat /\ d \in {0, 1} /\ Len(raw) + d = Len(h)
      /\ \A i \in 1..Len(raw) : raw[i] = h[i + d]
      /\ d = 1 => h[1].kind = "log"
  <2>1. CASE HasLog(h)
    <3>1. raw = Tail(h) /\ h # <<>> /\ h[1].kind = "log"
      BY <2>1 DEF RawOf, HasLog
    <3>2. /\ raw \in Seq(Kept) /\ Len(raw) = Len(h) - 1 /\ Len(h) > 0
          /\ \A i \in 1..(Len(h) - 1) : raw[i] = h[i + 1]
      BY <1>0, <3>1
    <3> HIDE DEF raw
    <3> QED
      BY <1>0, <3>1, <3>2
  <2>2. CASE ~HasLog(h)
    <3>1. raw = h
      BY <2>2 DEF RawOf
    <3> HIDE DEF raw
    <3> QED
      BY <1>0, <3>1
  <2> QED
    BY <2>1, <2>2
<1> HIDE DEF raw, d
<1>2. cut \in Nat /\ (cut > 0 => cut < Len(raw) /\ raw[cut].kind # "call")
  <2> DEFINE k == IF Len(raw) > w.keep THEN Len(raw) - w.keep ELSE 0
  <2>1. k \in Nat /\ (k > 0 => k < Len(raw))
    BY <1>0, <1>1
  <2>2. cut = IF k > 0 /\ raw[k].kind = "call" THEN k - 1 ELSE k
    BY DEF SplitIndex
  <2> HIDE DEF k
  <2>3. CASE k > 0 /\ raw[k].kind = "call" /\ k - 1 > 0
    <3>1. k - 1 \in 1..Len(raw) /\ k \in 1..Len(raw) /\ raw[k - 1] = h[k - 1 + d] /\ raw[k] = h[k + d]
      BY <1>1, <2>1, <2>3
    <3>2. k - 1 + d \in DOMAIN h /\ k - 1 + d # Len(h) /\ (k - 1 + d) + 1 = k + d
      BY <1>0, <1>1, <2>1, <2>3
    <3>3. h[k - 1 + d].kind = "call" => h[k + d].kind = "result"
      BY <3>2 DEF Pairing
    <3> QED
      BY <2>1, <2>2, <2>3, <3>1, <3>3
  <2> QED
    BY <2>1, <2>2, <2>3
<1>3. /\ kept \in Nat
      /\ keepFrom # 0 => /\ keepFrom \in DOMAIN h /\ h[keepFrom].kind = "request" /\ kept + d + 1 = keepFrom
                         /\ keepFrom = TurnRequest(h)
  <2>1. CASE keepFrom = 0
    BY <1>1, <2>1
  <2>2. CASE keepFrom # 0
    <3>1. keepFrom = TurnRequest(h) /\ keepFrom \in DOMAIN h /\ h[keepFrom].kind = "request"
      BY <2>2, TurnRequestIsOwn
    <3>2. d = 1 => keepFrom # 1
      BY <1>1, <3>1
    <3> QED
      BY <1>0, <1>1, <2>2, <3>1, <3>2
  <2> QED
    BY <2>1, <2>2
<1> HIDE DEF cut, kept
<1>4. split \in Nat /\ split <= kept /\ split <= cut
  BY <1>2, <1>3
<1>5. g = h \/ (split # 0 /\ g = Noted(h, n, PostsIn(SubSeq(h, 1, n))))
  BY DEF MaybeObserve, Observed, raw, d, cut, kept
<1>6. CASE g = h
  BY <1>3, <1>6
<1>7. CASE split # 0 /\ g = Noted(h, n, PostsIn(SubSeq(h, 1, n)))
  <2>0. split = kept \/ split = cut
    OBVIOUS
  <2> HIDE DEF split
  <2>1. split \in 1..Len(raw) /\ split < Len(raw) /\ raw[split] = h[n]
    BY <1>1, <1>2, <1>4, <1>7
  <2>2. n \in 1..(Len(h) - 1) /\ n \in DOMAIN h
    BY <1>0, <1>1, <2>1
  <2>3. h[n].kind # "call"
    <3>1. CASE split = cut
      BY <1>2, <1>4, <1>7, <2>1, <3>1
    <3>2. CASE split = kept /\ keepFrom # 0
      <4>1. h[n + 1].kind = "request" /\ n # Len(h)
        BY <1>1, <1>3, <2>2, <3>2
      <4> QED
        BY <2>2, <4>1 DEF Pairing
    <3>3. CASE split = kept /\ keepFrom = 0
      BY <1>1, <1>4, <1>7, <2>1, <3>3 DEF kept
    <3> QED
      BY <2>0, <3>1, <3>2, <3>3
  <2>4. keepFrom # 0 => n < TurnRequest(h)
    BY <1>1, <1>3, <1>4
  <2>a. \A own : keepFrom = TurnRequest(h) /\ own # {} /\ AsksOwn(h, own) => keepFrom # 0
    BY <1>0, TurnRequestIsOwn
  <2> HIDE DEF n
  <2>5. /\ g \in Seq(Kept) /\ g # <<>> /\ Pairing(g) /\ (EndsInCall(g) <=> EndsInCall(h))
        /\ PostsIn(g) = PostsIn(h)
        /\ SystemLeads(h) => SystemLeads(g)
        /\ \A o : o # {} /\ AsksOwn(h, o) /\ n < TurnRequest(h) => AsksOwn(g, o)
    BY <1>7, <2>2, <2>3, NotedKeeps
  <2>6. h # <<>>
    BY <1>0, <2>2
  <2> QED
    BY <2>4, <2>5, <2>6, <2>a
<1> QED
  BY <1>5, <1>6, <1>7

(* What a turn's request holds is among its messages, and not in its notes. *)
LEMMA OwnIsRaw ==
  ASSUME NEW h \in Seq(Kept), NEW own, AsksOwn(h, own)
  PROVE  own \subseteq PostsIn(RawOf(h)) /\ own \subseteq PostsIn(h) /\ h # <<>>
<1>0. DOMAIN h = 1..Len(h) /\ Len(h) \in Nat
  OBVIOUS
<1>1. PICK i \in 1..Len(h) : h[i].kind = "request" /\ h[i].posts = own
  BY <1>0 DEF AsksOwn
<1>2. own \subseteq PostsIn(h) /\ h # <<>>
  BY <1>0, <1>1, PostsAre
<1>3. CASE HasLog(h)
  <2>1. i # 1 /\ RawOf(h) = Tail(h) /\ h # <<>>
    BY <1>1, <1>3 DEF HasLog, RawOf
  <2>2. i - 1 \in DOMAIN Tail(h) /\ Tail(h)[i - 1] = h[i]
    BY <1>0, <1>1, <2>1
  <2> QED
    BY <1>1, <1>2, <2>1, <2>2, PostsAre
<1>4. CASE ~HasLog(h)
  BY <1>2, <1>4 DEF RawOf
<1> QED
  BY <1>2, <1>3, <1>4

----------------------------------------------------------------------------
(* ThreadMemory's steps. *)

LEMMA KnowsMore ==
  ASSUME NEW h, NEW g, NEW seen, NEW gone, NEW gone2, NEW r, NEW s,
         Knows(h, seen, gone, r), PostsIn(h) \subseteq PostsIn(g), gone \subseteq gone2,
         s.fetched => r.fetched /\ s.post = r.post /\ s.own = r.own
  PROVE  Knows(g, seen, gone2, s)
BY DEF Knows

LEMMA StoredIsKnown ==
  ASSUME MemoryTypes, NothingForgotten
  PROVE  /\ StoredMemory \in [messages : Seq(Kept), seen : Nat] /\ Paired(StoredMemory.messages)
         /\ 1..StoredMemory.seen \subseteq PostsIn(StoredMemory.messages) \cup letGo
<1>1. NoMemory \in [messages : Seq(Kept), seen : Nat] /\ Paired(NoMemory.messages) /\ 1..NoMemory.seen = {}
  BY DEF NoMemory, Paired
<1> QED
  BY <1>1 DEF StoredMemory, MemoryTypes, NothingForgotten

LEMMA FreshRuns ==
  ASSUME NEW p \in Nat, NEW own \in SUBSET Nat, NEW base \in Seq(Kept), NEW fetched \in BOOLEAN
  PROVE  /\ NewRun(p, own, base, fetched) \in RunShape
         /\ NewRun(p, own, base, fetched).at = "starting" /\ NewRun(p, own, base, fetched).post = p
         /\ NewRun(p, own, base, fetched).own = own /\ NewRun(p, own, base, fetched).base = base
         /\ NewRun(p, own, base, fetched).fetched = fetched /\ NewRun(p, own, base, fetched).prompt
         /\ ~NewRun(p, own, base, fetched).moved
BY DEF NewRun, RunShape, NoWindow

LEMMA NoRunIsTyped == NoRun \in RunShape /\ NoRun.at = "idle" /\ NoRun.own = {}
<1>1. <<>> \in Seq(Kept)
  OBVIOUS
<1>2. NewRun(0, {}, <<>>, FALSE) \in RunShape /\ NewRun(0, {}, <<>>, FALSE).own = {}
  BY <1>1 DEF NewRun, RunShape, NoWindow
<1> QED
  BY <1>2 DEF NoRun, RunShape

(* A turn that just began. *)
LEMMA TurnBegins ==
  ASSUME run' \in RunShape, run'.at = "starting", run'.own # {}, run'.prompt, ~run'.moved,
         Paired(run'.base), Knows(run'.base, StoredMemory'.seen, letGo', run'),
         checkpoint'.messages = <<>> \/ CheckpointIsSound'
  PROVE  /\ TurnIsOne' /\ BaseIsSound' /\ HistoryIsSound' /\ MessagesAreSound' /\ ProgressIsSound'
         /\ CheckpointIsSound' /\ ResultIsSound'
BY DEF TurnIsOne, BaseIsSound, HistoryIsSound, MessagesAreSound, ProgressIsSound, CheckpointIsSound,
       ResultIsSound, Attempting, Sending, KnowsThread

(* The finally block of a turn, with what is stored by then. *)
LEMMA EndTurnKeeps ==
  ASSUME MemoryTypes, NEW stored, stored.messages \in Seq(Kept), Paired(stored.messages), EndTurn(stored),
         1..StoredMemory'.seen \subseteq PostsIn(stored.messages) \cup letGo'
  PROVE  /\ run' \in RunShape /\ checkpoint' \in [post : Nat, messages : Seq(Kept)] /\ steerQueue' \in Seq(Nat)
         /\ TurnIsOne' /\ BaseIsSound' /\ HistoryIsSound' /\ MessagesAreSound' /\ ProgressIsSound'
         /\ CheckpointIsSound' /\ ResultIsSound'
<1>0. NoRecord \in [post : Nat, messages : Seq(Kept)] /\ NoRecord.messages = <<>>
  BY DEF NoRecord
<1>1. CASE steerQueue = <<>>
  <2>1. run' = NoRun /\ checkpoint' = NoRecord /\ steerQueue' = steerQueue
    BY <1>1 DEF EndTurn
  <2> QED
    BY <1>0, <2>1, NoRunIsTyped
    DEF TurnIsOne, BaseIsSound, HistoryIsSound, MessagesAreSound, ProgressIsSound, CheckpointIsSound,
        ResultIsSound, Attempting, Sending, MemoryTypes
<1>2. CASE steerQueue # <<>>
  <2> DEFINE p == Last(steerQueue)
             own == ToSet(steerQueue)
  <2>1. /\ run' = NewRun(p, own, stored.messages, FALSE)
        /\ checkpoint' = [NoRecord EXCEPT !.post = p] /\ steerQueue' = <<>>
    BY <1>2 DEF EndTurn
  <2>2. p \in Nat /\ own \in SUBSET Nat /\ own # {}
    <3>1. steerQueue \in Seq(Nat) /\ Len(steerQueue) \in DOMAIN steerQueue
      BY <1>2 DEF MemoryTypes
    <3>2. p = steerQueue[Len(steerQueue)] /\ own = {steerQueue[i] : i \in DOMAIN steerQueue}
      BY DEF Last, ToSet
    <3> QED
      BY <3>1, <3>2
  <2> HIDE DEF p, own
  <2>3. /\ run' \in RunShape /\ run'.at = "starting" /\ run'.own = own /\ run'.base = stored.messages
        /\ run'.fetched = FALSE /\ run'.prompt /\ ~run'.moved
    <3>1. LET r == NewRun(p, own, stored.messages, FALSE) IN
          /\ r \in RunShape /\ r.at = "starting" /\ r.own = own /\ r.base = stored.messages
          /\ r.fetched = FALSE /\ r.prompt /\ ~r.moved
      BY <2>2 DEF NewRun, RunShape, NoWindow
    <3> QED
      BY <2>1, <3>1
  <2>4. checkpoint' \in [post : Nat, messages : Seq(Kept)] /\ checkpoint'.messages = <<>>
    BY <1>0, <2>1, <2>2
  <2>5. Knows(run'.base, StoredMemory'.seen, letGo', run')
    BY <2>3 DEF Knows
  <2>6. <<>> \in Seq(Nat)
    OBVIOUS
  <2> QED
    BY <2>1, <2>2, <2>3, <2>4, <2>5, <2>6, TurnBegins
<1> QED
  BY <1>1, <1>2

LEMMA WritingKeeps ==
  ASSUME MemoryInv, NEW b \in BOOLEAN, WriteInThread(b)
  PROVE  MemoryInv'
<1>1. UNCHANGED <<memory, run, checkpoint, letGo>>
  BY DEF WriteInThread
<1>2. MemoryTypes'
  <2>0. MemoryTypes
    BY DEF MemoryInv
  <2>1. thread' \in Nat /\ thread' = thread + 1
    BY <2>0 DEF MemoryTypes, WriteInThread
  <2>2. unheard' \subseteq 1..thread'
    <3>1. unheard \subseteq 1..thread /\ thread \in Nat
      BY <2>0 DEF MemoryTypes
    <3>2. unheard' = unheard \/ unheard' = unheard \cup {thread'}
      BY DEF WriteInThread
    <3>3. 1..thread \subseteq 1..thread' /\ thread' \in 1..thread'
      BY <2>1, <3>1
    <3> QED
      BY <3>1, <3>2, <3>3
  <2>3. steerQueue' \in Seq(Nat)
    <3>1. steerQueue' = steerQueue \/ steerQueue' = Append(steerQueue, thread')
      BY DEF WriteInThread
    <3>2. steerQueue \in Seq(Nat)
      BY <2>0 DEF MemoryTypes
    <3>3. Append(steerQueue, thread') \in Seq(Nat)
      BY <2>1, <3>2
    <3> QED
      BY <3>1, <3>2, <3>3
  <2> QED
    BY <1>1, <2>0, <2>1, <2>2, <2>3 DEF MemoryTypes
<1>3. StoredMemory' = StoredMemory
  BY <1>1 DEF StoredMemory
<1> QED
  BY <1>1, <1>2, <1>3
  DEF MemoryInv, NothingForgotten, TurnIsOne, BaseIsSound, HistoryIsSound, MessagesAreSound,
      ProgressIsSound, CheckpointIsSound, ResultIsSound, Attempting, Sending, KnowsThread, IsReady

LEMMA AnsweringKeeps ==
  ASSUME MemoryInv, NEW p \in unheard, AnswerThread(p)
  PROVE  MemoryInv'
<1> DEFINE stored == StoredMemory
           unseen == Unseen(p, stored)
<1>0. MemoryTypes /\ NothingForgotten /\ p \in Nat /\ p >= 1 /\ p <= thread /\ thread \in Nat
  <2>1. thread \in Nat /\ p \in 1..thread
    BY DEF MemoryInv, MemoryTypes
  <2> QED
    BY <2>1 DEF MemoryInv
<1>1. PICK fetched \in BOOLEAN, echoes \in SUBSET unseen :
        LET shown == IF fetched THEN Shown(Reached(unseen, stored) \ echoes) ELSE {} IN
        /\ run' = NewRun(p, {p}, IF shown = {} THEN stored.messages
                                 ELSE Append(stored.messages, Msg("request", shown, FALSE)), fetched)
        /\ letGo' = letGo \cup (IF fetched THEN {q \in unseen \ shown : q < p} ELSE {})
  BY DEF AnswerThread
<1> DEFINE shown == IF fetched THEN Shown(Reached(unseen, stored) \ echoes) ELSE {}
           base  == IF shown = {} THEN stored.messages
                    ELSE Append(stored.messages, Msg("request", shown, FALSE))
<1>2. /\ unheard' = unheard \ {p} /\ checkpoint' = [NoRecord EXCEPT !.post = p]
      /\ UNCHANGED <<thread, memory, steerQueue>> /\ StoredMemory' = StoredMemory
  BY DEF AnswerThread, StoredMemory
<1>3. stored \in [messages : Seq(Kept), seen : Nat] /\ Paired(stored.messages)
      /\ 1..stored.seen \subseteq PostsIn(stored.messages) \cup letGo
  BY <1>0, StoredIsKnown
<1>4. unseen \subseteq 1..thread /\ shown \subseteq unseen
  BY DEF Unseen, Shown, Reached
<1>5. \A q \in 1..p : q # p => q <= stored.seen \/ q \in unseen \/ q \in PostsIn(RawOf(stored.messages))
  <2> SUFFICES ASSUME NEW q \in 1..p, q # p, ~(q <= stored.seen), q \notin PostsIn(RawOf(stored.messages))
               PROVE  q \in unseen
    OBVIOUS
  <2>1. stored.seen \in Nat /\ q \in 1..thread
    BY <1>0, <1>3
  <2>2. q > stored.seen
    BY <2>1
  <2> QED
    BY <2>1, <2>2 DEF Unseen
<1>6. PostsIn(RawOf(stored.messages)) \subseteq PostsIn(stored.messages)
  <2>1. CASE HasLog(stored.messages)
    <3>1. RawOf(stored.messages) = Tail(stored.messages) /\ stored.messages # <<>>
      BY <2>1 DEF RawOf, HasLog
    <3>2. \A i \in DOMAIN Tail(stored.messages) :
            i + 1 \in DOMAIN stored.messages /\ Tail(stored.messages)[i] = stored.messages[i + 1]
      BY <1>3, <3>1
    <3> QED
      BY <3>1, <3>2, PostsAre, ZenonT(60)
  <2> QED
    BY <2>1 DEF RawOf
<1> HIDE DEF stored, unseen, shown
<1>7. base \in Seq(Kept) /\ Paired(base) /\ PostsIn(base) = PostsIn(stored.messages) \cup shown
  <2>1. CASE shown = {}
    BY <1>3, <2>1
  <2>2. CASE shown # {}
    <3> DEFINE m == Msg("request", shown, FALSE)
    <3>1. m \in Kept /\ m.kind = "request" /\ m.posts = shown
      BY <1>0, <1>4 DEF Msg, Kept
    <3> HIDE DEF m
    <3>2. Pairing(stored.messages) /\ ~EndsInCall(stored.messages)
      BY <1>3, PairedIsPairing
    <3>3. /\ Append(stored.messages, m) \in Seq(Kept) /\ Pairing(Append(stored.messages, m))
          /\ ~EndsInCall(Append(stored.messages, m))
          /\ PostsIn(Append(stored.messages, m)) = PostsIn(stored.messages) \cup shown
      BY <1>3, <3>1, <3>2, AppendKeeps
    <3>4. base = Append(stored.messages, m)
      BY <2>2 DEF m
    <3> QED
      BY <3>3, <3>4, PairedIsPairing
  <2> QED
    BY <2>1, <2>2
<1>8. run' = NewRun(p, {p}, base, fetched) /\ letGo' = letGo \cup (IF fetched THEN {q \in unseen \ shown : q < p} ELSE {})
  BY <1>1 DEF shown
<1> HIDE DEF base
<1>9. /\ run' \in RunShape /\ run'.at = "starting" /\ run'.own = {p} /\ run'.base = base /\ run'.post = p
      /\ run'.fetched = fetched /\ run'.prompt /\ ~run'.moved
  BY <1>0, <1>7, <1>8, FreshRuns
<1>10. checkpoint' \in [post : Nat, messages : Seq(Kept)] /\ checkpoint'.messages = <<>>
  <2>1. NoRecord \in [post : Nat, messages : Seq(Kept)] /\ NoRecord.messages = <<>>
    BY DEF NoRecord
  <2> QED
    BY <1>0, <1>2, <2>1
<1>11. Knows(run'.base, StoredMemory'.seen, letGo', run')
  <2>1. 1..StoredMemory'.seen \subseteq PostsIn(base) \cup letGo'
    BY <1>2, <1>3, <1>7, <1>8 DEF stored
  <2>2. ASSUME fetched, NEW q \in 1..p, q # p PROVE q \in PostsIn(base) \cup letGo'
    <3>1. q <= stored.seen => q \in PostsIn(stored.messages) \cup letGo
      BY <1>0, <1>3
    <3>2. q \in unseen => q \in shown \/ q \in letGo'
      BY <1>0, <1>8, <2>2
    <3> QED
      BY <1>5, <1>6, <1>7, <1>8, <2>2, <3>1, <3>2
  <2>3. fetched => 1..p \subseteq PostsIn(base) \cup letGo' \cup {p}
    BY <2>2
  <2> QED
    BY <1>9, <2>1, <2>3 DEF Knows
<1>12. MemoryTypes'
  BY <1>0, <1>2, <1>4, <1>8, <1>9, <1>10 DEF MemoryTypes
<1>13. NothingForgotten'
  BY <1>0, <1>2, <1>8 DEF NothingForgotten
<1> QED
  BY <1>7, <1>9, <1>10, <1>11, <1>12, <1>13, TurnBegins DEF MemoryInv

(* A step in the middle of a turn. *)
LEMMA TurnGoesOn ==
  ASSUME MemoryInv, run.at \notin {"idle", "saving"}, run' \in RunShape,
         run'.at \notin {"idle", "starting"}, run'.post = run.post, run'.own = run.own,
         run'.fetched = run.fetched, run'.at = "saving" \/ run'.base = run.base,
         UNCHANGED <<thread, unheard, memory, letGo>>, steerQueue' \in Seq(Nat),
         checkpoint' \in [post : Nat, messages : Seq(Kept)],
         HistoryIsSound', MessagesAreSound', ProgressIsSound', CheckpointIsSound', ResultIsSound'
  PROVE  MemoryInv'
<1>1. MemoryTypes'
  BY DEF MemoryInv, MemoryTypes
<1>2. TurnIsOne' /\ NothingForgotten'
  BY DEF MemoryInv, TurnIsOne, NothingForgotten
<1>3. Knows(run.base, StoredMemory.seen, letGo, run) /\ Paired(run.base) /\ StoredMemory' = StoredMemory
  BY DEF MemoryInv, BaseIsSound, KnowsThread, StoredMemory
<1>4. run'.base = run.base => Knows(run'.base, StoredMemory'.seen, letGo', run')
  BY <1>3, KnowsMore
<1>5. BaseIsSound'
  BY <1>3, <1>4 DEF BaseIsSound, KnowsThread
<1> QED
  BY <1>1, <1>2, <1>5 DEF MemoryInv

LEMMA PreparingKeeps ==
  ASSUME MemoryInv, Prepare
  PROVE  MemoryInv'
<1> DEFINE w == WithSystemPrompt(run.base)
           ask == Msg("request", run.own, run.base = <<>>)
           search == Msg("call", {}, FALSE)
           h == w \o <<ask, search>>
<1>0. /\ MemoryTypes /\ NothingForgotten /\ run.at = "starting" /\ run \in RunShape /\ run.own # {}
      /\ run.prompt /\ Paired(run.base) /\ KnowsThread(run.base)
      /\ run.base \in Seq(Kept) /\ run.own \subseteq Nat
  BY DEF MemoryInv, Prepare, TurnIsOne, BaseIsSound, MemoryTypes, RunShape
<1>1. /\ UNCHANGED <<thread, unheard, memory, steerQueue, checkpoint, letGo>>
      /\ \/ run' = [run EXCEPT !.at = "trying", !.history = w]
         \/ run' = [run EXCEPT !.at = "trying", !.prompt = FALSE, !.history = h]
      /\ StoredMemory' = StoredMemory
  BY DEF Prepare, StoredMemory
<1>2. /\ w \in Seq(Kept) /\ (w = <<>> <=> run.base = <<>>) /\ Pairing(w) /\ SystemLeads(w) /\ ~EndsInCall(w)
      /\ PostsIn(w) = PostsIn(run.base)
  BY <1>0, PairedIsPairing, SystemPromptKeeps
<1>3. /\ ask \in Kept /\ ask.kind = "request" /\ ask.posts = run.own /\ (ask.system <=> w = <<>>)
      /\ search \in Kept /\ search.kind = "call" /\ search.posts = {} /\ search.system = FALSE
  BY <1>0, <1>2 DEF Msg, Kept
<1> HIDE DEF w, ask, search
<1>4. h = Append(Append(w, ask), search)
  BY <1>2, <1>3
<1> HIDE DEF h
<1>5. /\ Append(w, ask) \in Seq(Kept) /\ Append(w, ask) # <<>> /\ Pairing(Append(w, ask))
      /\ SystemLeads(Append(w, ask)) /\ ~EndsInCall(Append(w, ask)) /\ AsksOwn(Append(w, ask), run.own)
      /\ PostsIn(Append(w, ask)) = PostsIn(w) \cup run.own
  BY <1>2, <1>3, AppendKeeps
<1>6. /\ h \in Seq(Kept) /\ Pairing(h) /\ SystemLeads(h) /\ AsksOwn(h, run.own)
      /\ PostsIn(h) = PostsIn(w) \cup run.own
  BY <1>3, <1>4, <1>5, AppendKeeps
<1>7. /\ run' \in RunShape /\ run'.at = "trying" /\ run'.post = run.post /\ run'.own = run.own
      /\ run'.fetched = run.fetched /\ run'.base = run.base /\ run'.moved = run.moved
      /\ \/ run'.history = w /\ run'.prompt
         \/ run'.history = h /\ ~run'.prompt
  <2>1. CASE run' = [run EXCEPT !.at = "trying", !.history = w]
    BY <1>0, <1>2, <2>1 DEF RunShape
  <2>2. CASE run' = [run EXCEPT !.at = "trying", !.prompt = FALSE, !.history = h]
    BY <1>0, <1>6, <2>2 DEF RunShape
  <2> QED
    BY <1>1, <2>1, <2>2
<1>8. PostsIn(run.base) \subseteq PostsIn(run'.history)
  BY <1>2, <1>6, <1>7
<1>9. Knows(run'.history, StoredMemory'.seen, letGo', run')
  BY <1>0, <1>1, <1>7, <1>8, KnowsMore DEF KnowsThread
<1>10. HistoryIsSound'
  BY <1>2, <1>6, <1>7, <1>9 DEF HistoryIsSound, KnowsThread
<1>11. CheckpointIsSound'
  <2>1. checkpoint.messages # <<>> => Knows(checkpoint'.messages, StoredMemory'.seen, letGo', run')
    BY <1>1, <1>7, KnowsMore DEF MemoryInv, CheckpointIsSound, IsReady, KnowsThread
  <2> QED
    BY <1>1, <1>7, <2>1 DEF MemoryInv, CheckpointIsSound, IsReady, KnowsThread
<1>12. MessagesAreSound' /\ ProgressIsSound' /\ ResultIsSound'
  BY <1>0, <1>7 DEF MemoryInv, TurnIsOne, MessagesAreSound, ProgressIsSound, ResultIsSound, Sending
<1> QED
  BY <1>0, <1>1, <1>7, <1>10, <1>11, <1>12, TurnGoesOn DEF MemoryTypes

LEMMA CheckpointStays ==
  ASSUME MemoryInv, UNCHANGED <<memory, checkpoint>>, letGo \subseteq letGo', run'.own = run.own,
         run'.fetched => run.fetched /\ run'.post = run.post
  PROVE  CheckpointIsSound'
<1>1. StoredMemory' = StoredMemory
  BY DEF StoredMemory
<1>2. checkpoint.messages # <<>> => Knows(checkpoint'.messages, StoredMemory'.seen, letGo', run')
  BY <1>1, KnowsMore DEF MemoryInv, CheckpointIsSound, IsReady, KnowsThread
<1> QED
  BY <1>2 DEF MemoryInv, CheckpointIsSound, IsReady, KnowsThread

(* The messages of an attempt: what fits the model, and the turn's request. *)
LEMMA TryingKeeps ==
  ASSUME MemoryInv, NEW w \in Windows, NEW noted \in BOOLEAN, Try(w, noted)
  PROVE  MemoryInv'
<1> DEFINE keepFrom == IF run.prompt THEN 0 ELSE TurnRequest(run.history)
           fitted   == MaybeObserve(run.history, w, keepFrom, noted)
           ask      == Msg("request", run.own, fitted = <<>>)
           sent     == IF run.prompt THEN Append(fitted, ask) ELSE fitted
           at       == IF Last(sent).kind = "call" THEN "calling" ELSE "asking"
<1>0. /\ MemoryTypes /\ run.at = "trying" /\ run \in RunShape /\ run.own # {} /\ run.own \subseteq Nat
      /\ run.history \in Seq(Kept) /\ run.prompt \in BOOLEAN
      /\ w \in [observeAt : Nat, keep : Nat \ {0}]
  BY MemoryAssumption DEF MemoryInv, Try, TurnIsOne, MemoryTypes, RunShape
<1>1. /\ Pairing(run.history) /\ SystemLeads(run.history) /\ KnowsThread(run.history)
      /\ IF run.prompt THEN ~EndsInCall(run.history) ELSE AsksOwn(run.history, run.own)
  BY <1>0 DEF MemoryInv, HistoryIsSound, Attempting
<1>2. /\ UNCHANGED <<thread, unheard, memory, steerQueue, checkpoint, letGo>> /\ StoredMemory' = StoredMemory
      /\ run' = [run EXCEPT !.history = fitted, !.messages = sent, !.window = w, !.at = at]
  BY DEF Try, StoredMemory
<1>3. keepFrom = 0 \/ (keepFrom = TurnRequest(run.history) /\ run.own # {} /\ AsksOwn(run.history, run.own))
  BY <1>0, <1>1
<1>4. ~run.prompt => keepFrom # 0
  BY <1>0, <1>1, TurnRequestIsOwn
<1> HIDE DEF keepFrom
<1>5. /\ fitted \in Seq(Kept) /\ Pairing(fitted) /\ SystemLeads(fitted) /\ PostsIn(fitted) = PostsIn(run.history)
      /\ IF run.prompt THEN ~EndsInCall(fitted) ELSE AsksOwn(fitted, run.own)
  <2> DEFINE h == run.history
             o == run.own
  <2>1. h \in Seq(Kept) /\ Pairing(h) /\ w \in [observeAt : Nat, keep : Nat \ {0}]
    BY <1>0, <1>1
  <2>2. keepFrom = 0 \/ \E own : keepFrom = TurnRequest(h) /\ own # {} /\ AsksOwn(h, own)
    BY <1>3
  <2>3. fitted = MaybeObserve(h, w, keepFrom, noted)
    OBVIOUS
  <2>4. ~run.prompt => keepFrom = TurnRequest(h) /\ o # {} /\ AsksOwn(h, o)
    BY <1>3, <1>4
  <2> HIDE DEF h, o, fitted
  <2>5. /\ fitted \in Seq(Kept) /\ Pairing(fitted) /\ (EndsInCall(fitted) <=> EndsInCall(h))
        /\ PostsIn(fitted) = PostsIn(h)
        /\ SystemLeads(h) => SystemLeads(fitted)
        /\ \A own : keepFrom = TurnRequest(h) /\ own # {} /\ AsksOwn(h, own) => AsksOwn(fitted, own)
    BY <2>1, <2>2, <2>3, ObserveKeeps
  <2> QED
    BY <1>1, <2>4, <2>5 DEF h, o
<1> HIDE DEF fitted
<1>6. ask \in Kept /\ ask.kind = "request" /\ ask.posts = run.own /\ (ask.system <=> fitted = <<>>)
  BY <1>0 DEF Msg, Kept
<1> HIDE DEF ask
<1>7. /\ sent \in Seq(Kept) /\ Pairing(sent) /\ SystemLeads(sent) /\ AsksOwn(sent, run.own)
      /\ PostsIn(run.history) \subseteq PostsIn(sent)
  <2>1. CASE run.prompt
    <3>1. /\ Append(fitted, ask) \in Seq(Kept) /\ Pairing(Append(fitted, ask))
          /\ SystemLeads(Append(fitted, ask)) /\ AsksOwn(Append(fitted, ask), run.own)
          /\ PostsIn(Append(fitted, ask)) = PostsIn(fitted) \cup ask.posts
      BY <1>5, <1>6, <2>1, AppendKeeps
    <3> QED
      BY <1>5, <2>1, <3>1
  <2>2. CASE ~run.prompt
    BY <1>5, <2>2
  <2> QED
    BY <2>1, <2>2
<1>8. sent # <<>>
  BY <1>7, OwnIsRaw
<1>9. at \in {"calling", "asking"} /\ (at = "calling" <=> EndsInCall(sent))
  BY <1>8 DEF EndsInCall, Last
<1> HIDE DEF sent, at
<1>10. /\ run' \in RunShape /\ run'.at = at /\ run'.post = run.post /\ run'.own = run.own
       /\ run'.fetched = run.fetched /\ run'.base = run.base /\ run'.moved = run.moved
       /\ run'.progress = run.progress /\ run'.history = fitted /\ run'.prompt = run.prompt /\ run'.messages = sent
  BY <1>0, <1>2, <1>5, <1>7, <1>9 DEF RunShape
<1>11. \A h : PostsIn(run.history) \subseteq PostsIn(h) => Knows(h, StoredMemory'.seen, letGo', run')
  <2> SUFFICES ASSUME NEW h, PostsIn(run.history) \subseteq PostsIn(h)
               PROVE  Knows(h, StoredMemory'.seen, letGo', run')
    OBVIOUS
  <2>1. Knows(run.history, StoredMemory.seen, letGo, run)
    BY <1>1 DEF KnowsThread
  <2>2. letGo \subseteq letGo' /\ (run'.fetched => run.fetched /\ run'.post = run.post /\ run'.own = run.own)
    BY <1>2, <1>10
  <2>3. Knows(h, StoredMemory.seen, letGo', run')
    BY <2>1, <2>2, KnowsMore
  <2> QED
    BY <1>2, <2>3
<1>12. HistoryIsSound' /\ MessagesAreSound'
  BY <1>5, <1>7, <1>9, <1>10, <1>11 DEF HistoryIsSound, MessagesAreSound, KnowsThread, IsReady
<1>13. ProgressIsSound'
  <2>1. run.moved => Knows(run'.progress, StoredMemory'.seen, letGo', run')
    <3>1. run.moved => Knows(run.progress, StoredMemory.seen, letGo, run)
      BY <1>0 DEF MemoryInv, ProgressIsSound, Attempting, IsReady, KnowsThread
    <3>a. letGo \subseteq letGo' /\ (run'.fetched => run.fetched /\ run'.post = run.post /\ run'.own = run.own)
      BY <1>2, <1>10
    <3>b. ASSUME run.moved PROVE Knows(run.progress, StoredMemory.seen, letGo', run')
      BY <3>1, <3>a, <3>b, KnowsMore
    <3>2. ASSUME run.moved PROVE Knows(run.progress, StoredMemory'.seen, letGo', run')
      BY <1>2, <3>2, <3>b
    <3> QED
      BY <1>10, <3>2
  <2> QED
    BY <1>0, <1>9, <1>10, <2>1 DEF MemoryInv, ProgressIsSound, Attempting, IsReady, KnowsThread
<1>14. ResultIsSound' /\ CheckpointIsSound'
  BY <1>2, <1>9, <1>10, CheckpointStays DEF ResultIsSound
<1> QED
  BY <1>0, <1>2, <1>9, <1>10, <1>12, <1>13, <1>14, TurnGoesOn DEF MemoryTypes

(* A step that leaves the attempt's history alone and adds to its messages. *)
LEMMA AttemptGoesOn ==
  ASSUME MemoryInv, Sending, run' \in RunShape, run'.at \in {"asking", "calling", "tool", "model"},
         run'.post = run.post, run'.own = run.own, run'.fetched = run.fetched, run'.base = run.base,
         run'.history = run.history, run'.prompt = run.prompt,
         UNCHANGED <<thread, unheard, memory, letGo>>, steerQueue' \in Seq(Nat),
         checkpoint' \in [post : Nat, messages : Seq(Kept)],
         PostsIn(run.messages) \subseteq PostsIn(run'.messages),
         Pairing(run'.messages), SystemLeads(run'.messages), AsksOwn(run'.messages, run.own),
         EndsInCall(run'.messages) <=> run'.at \in {"calling", "tool"},
         \/ run'.moved = run.moved /\ run'.progress = run.progress /\ run'.at # "tool"
         \/ run'.moved /\ ProgressIsSound',
         CheckpointIsSound'
  PROVE  MemoryInv'
<1>1. StoredMemory' = StoredMemory
  BY DEF StoredMemory
<1>2. /\ IsReady(run.messages) /\ KnowsThread(run.history) /\ Attempting
      /\ run.moved => KnowsThread(run.progress)
  BY DEF MemoryInv, MessagesAreSound, HistoryIsSound, ProgressIsSound, Attempting, Sending, IsReady
<1>3. /\ Knows(run'.messages, StoredMemory'.seen, letGo', run')
      /\ Knows(run'.history, StoredMemory'.seen, letGo', run')
  BY <1>1, <1>2, KnowsMore DEF KnowsThread, IsReady
<1>4. run.moved /\ run'.progress = run.progress => Knows(run'.progress, StoredMemory'.seen, letGo', run')
  BY <1>1, <1>2, KnowsMore DEF KnowsThread
<1>5. HistoryIsSound'
  BY <1>2, <1>3 DEF MemoryInv, HistoryIsSound, KnowsThread
<1>6. MessagesAreSound'
  BY <1>3 DEF MessagesAreSound, IsReady, KnowsThread
<1>7. ProgressIsSound'
  BY <1>2, <1>4 DEF MemoryInv, ProgressIsSound, IsReady, KnowsThread
<1>8. ResultIsSound'
  BY DEF ResultIsSound
<1> QED
  BY <1>2, <1>5, <1>6, <1>7, <1>8, TurnGoesOn DEF Sending

LEMMA AskingKeeps ==
  ASSUME MemoryInv, AskModel
  PROVE  MemoryInv'
<1>0. /\ MemoryTypes /\ run.at = "asking" /\ Sending /\ run \in RunShape /\ run.messages \in Seq(Kept)
      /\ IsReady(run.messages) /\ ~EndsInCall(run.messages)
  BY DEF MemoryInv, AskModel, MessagesAreSound, Sending, MemoryTypes, RunShape
<1>1. /\ UNCHANGED <<thread, unheard, memory, steerQueue, letGo>> /\ StoredMemory' = StoredMemory
      /\ run' = [run EXCEPT !.at = "model"] /\ checkpoint' = [checkpoint EXCEPT !.messages = run.messages]
  BY DEF AskModel, StoredMemory
<1>2. /\ run' \in RunShape /\ run'.at = "model" /\ run'.post = run.post /\ run'.own = run.own
      /\ run'.fetched = run.fetched /\ run'.base = run.base /\ run'.moved = run.moved
      /\ run'.progress = run.progress /\ run'.history = run.history /\ run'.prompt = run.prompt
      /\ run'.messages = run.messages
  BY <1>0, <1>1 DEF RunShape
<1>3. checkpoint' \in [post : Nat, messages : Seq(Kept)] /\ checkpoint'.messages = run.messages
  BY <1>0, <1>1 DEF MemoryTypes
<1>4. CheckpointIsSound'
  <2>1. Knows(run.messages, StoredMemory'.seen, letGo', run')
    BY <1>0, <1>1, <1>2, KnowsMore DEF IsReady, KnowsThread
  <2> QED
    BY <1>0, <1>2, <1>3, <2>1 DEF CheckpointIsSound, IsReady, KnowsThread
<1> QED
  BY <1>0, <1>1, <1>2, <1>3, <1>4, AttemptGoesOn DEF IsReady, MemoryTypes

LEMMA CallingKeeps ==
  ASSUME MemoryInv, Call
  PROVE  MemoryInv'
<1> DEFINE m == Msg("call", {}, FALSE)
<1>0. /\ MemoryTypes /\ run.at = "model" /\ Sending /\ run \in RunShape /\ run.messages \in Seq(Kept)
      /\ IsReady(run.messages) /\ ~EndsInCall(run.messages)
  BY DEF MemoryInv, Call, MessagesAreSound, Sending, MemoryTypes, RunShape
<1>1. /\ UNCHANGED <<thread, unheard, memory, steerQueue, checkpoint, letGo>>
      /\ run' = [run EXCEPT !.at = "calling", !.calls = @ + 1, !.messages = Append(@, m)]
  BY DEF Call
<1>2. m \in Kept /\ m.kind = "call" /\ m.posts = {} /\ m.system = FALSE
  BY DEF Msg, Kept
<1> HIDE DEF m
<1>3. run.messages # <<>>
  BY <1>0, OwnIsRaw DEF IsReady
<1>4. /\ Append(run.messages, m) \in Seq(Kept) /\ EndsInCall(Append(run.messages, m))
      /\ PostsIn(run.messages) \subseteq PostsIn(Append(run.messages, m))
      /\ Pairing(Append(run.messages, m)) /\ SystemLeads(Append(run.messages, m))
      /\ AsksOwn(Append(run.messages, m), run.own)
  BY <1>0, <1>2, <1>3, AppendKeeps DEF IsReady
<1>a. run.calls \in Nat
  BY <1>0 DEF RunShape
<1>b. run.calls + 1 \in Nat
  BY <1>a
<1>5. /\ run' \in RunShape /\ run'.at = "calling" /\ run'.post = run.post /\ run'.own = run.own
      /\ run'.fetched = run.fetched /\ run'.base = run.base /\ run'.moved = run.moved
      /\ run'.progress = run.progress /\ run'.history = run.history /\ run'.prompt = run.prompt
      /\ run'.messages = Append(run.messages, m)
  BY <1>0, <1>1, <1>4, <1>b DEF RunShape
<1> QED
  BY <1>0, <1>1, <1>4, <1>5, AttemptGoesOn, CheckpointStays DEF MemoryTypes

(* after_tool folds what was queued into the result of the call. *)
LEMMA ResultKeeps ==
  ASSUME MemoryInv, NEW text \in BOOLEAN, ToolResult(text)
  PROVE  MemoryInv'
<1> DEFINE m == Msg("result", IF text THEN ToSet(steerQueue) ELSE {}, FALSE)
<1>0. /\ MemoryTypes /\ run.at = "tool" /\ Sending /\ run \in RunShape /\ run.messages \in Seq(Kept)
      /\ IsReady(run.messages) /\ EndsInCall(run.messages) /\ steerQueue \in Seq(Nat)
  BY DEF MemoryInv, ToolResult, MessagesAreSound, Sending, MemoryTypes, RunShape
<1>1. /\ UNCHANGED <<thread, unheard, memory, checkpoint, letGo>>
      /\ run' = [run EXCEPT !.at = "asking", !.messages = Append(@, m)]
      /\ steerQueue' = IF text THEN <<>> ELSE steerQueue
  BY DEF ToolResult
<1>2. ToSet(steerQueue) \subseteq Nat
  BY <1>0 DEF ToSet
<1>3. m \in Kept /\ m.kind = "result" /\ m.system = FALSE
  BY <1>2 DEF Msg, Kept
<1> HIDE DEF m
<1>4. run.messages # <<>>
  BY <1>0, OwnIsRaw DEF IsReady
<1>5. /\ Append(run.messages, m) \in Seq(Kept) /\ ~EndsInCall(Append(run.messages, m))
      /\ PostsIn(run.messages) \subseteq PostsIn(Append(run.messages, m))
      /\ Pairing(Append(run.messages, m)) /\ SystemLeads(Append(run.messages, m))
      /\ AsksOwn(Append(run.messages, m), run.own)
  BY <1>0, <1>3, <1>4, AppendKeeps DEF IsReady
<1>6. /\ run' \in RunShape /\ run'.at = "asking" /\ run'.post = run.post /\ run'.own = run.own
      /\ run'.fetched = run.fetched /\ run'.base = run.base /\ run'.moved = run.moved
      /\ run'.progress = run.progress /\ run'.history = run.history /\ run'.prompt = run.prompt
      /\ run'.messages = Append(run.messages, m)
  BY <1>0, <1>1, <1>5 DEF RunShape
<1>7. steerQueue' \in Seq(Nat)
  BY <1>0, <1>1
<1> QED
  BY <1>0, <1>1, <1>5, <1>6, <1>7, AttemptGoesOn, CheckpointStays DEF MemoryTypes

(* The run is over, with the messages that are saved for it. *)
LEMMA OverKeeps ==
  ASSUME MemoryInv, Attempting, NEW h, h \in Seq(Kept), Paired(h), KnowsThread(h), NEW skipped \in BOOLEAN,
         skipped \/ run.own \subseteq PostsIn(h), run' = OverWith(h, skipped),
         UNCHANGED <<thread, unheard, memory, steerQueue, checkpoint, letGo>>
  PROVE  MemoryInv'
<1>0. MemoryTypes /\ run \in RunShape /\ run.at \notin {"idle", "saving"}
  BY DEF MemoryInv, MemoryTypes, Attempting
<1>1. run' = [at |-> "saving", post |-> run.post, own |-> run.own, base |-> <<>>, fetched |-> run.fetched,
              history |-> <<>>, prompt |-> TRUE, messages |-> <<>>, progress |-> <<>>, moved |-> FALSE,
              window |-> run.window, calls |-> 0, skipped |-> skipped, result |-> h]
  BY DEF OverWith, NewRun
<1>2. /\ run.post \in Nat /\ run.own \in SUBSET Nat /\ run.fetched \in BOOLEAN /\ <<>> \in Seq(Kept)
      /\ run.window \in [observeAt : Nat, keep : Nat \ {0}]
  BY <1>0 DEF RunShape
<1>3. /\ run' \in RunShape /\ run'.at = "saving" /\ run'.post = run.post /\ run'.own = run.own
      /\ run'.fetched = run.fetched /\ run'.result = h /\ run'.skipped = skipped
  BY <1>1, <1>2 DEF RunShape
<1>4. StoredMemory' = StoredMemory
  BY DEF StoredMemory
<1>5. Knows(h, StoredMemory'.seen, letGo', run')
  BY <1>3, <1>4, KnowsMore DEF KnowsThread
<1>6. ResultIsSound'
  BY <1>3, <1>5 DEF ResultIsSound, KnowsThread
<1>7. HistoryIsSound' /\ MessagesAreSound' /\ ProgressIsSound'
  BY <1>3 DEF HistoryIsSound, MessagesAreSound, ProgressIsSound, Attempting, Sending
<1>8. CheckpointIsSound'
  BY <1>3, CheckpointStays
<1> QED
  BY <1>0, <1>3, <1>6, <1>7, <1>8, TurnGoesOn DEF MemoryTypes

LEMMA BeforeToolKeeps ==
  ASSUME MemoryInv, NEW stopped \in BOOLEAN, BeforeTool(stopped)
  PROVE  MemoryInv'
<1> DEFINE safe == SafeForResume(run.messages)
<1>0. /\ MemoryTypes /\ run.at = "calling" /\ Sending /\ Attempting /\ run \in RunShape
      /\ run.messages \in Seq(Kept) /\ IsReady(run.messages) /\ EndsInCall(run.messages)
  BY DEF MemoryInv, BeforeTool, MessagesAreSound, Sending, Attempting, MemoryTypes, RunShape
<1>1. /\ UNCHANGED <<thread, unheard, memory, steerQueue, checkpoint, letGo>> /\ StoredMemory' = StoredMemory
      /\ run' = IF stopped THEN OverWith(safe, FALSE)
                ELSE [run EXCEPT !.at = "tool", !.progress = safe, !.moved = TRUE]
  BY DEF BeforeTool, StoredMemory
<1>2. /\ safe \in Seq(Kept) /\ Pairing(safe) /\ ~EndsInCall(safe) /\ SystemLeads(safe) /\ AsksOwn(safe, run.own)
      /\ PostsIn(safe) = PostsIn(run.messages)
  BY <1>0, SafeKeeps DEF IsReady
<1> HIDE DEF safe
<1>3. Paired(safe) /\ KnowsThread(safe) /\ run.own \subseteq PostsIn(safe)
  <2>1. Paired(safe) /\ run.own \subseteq PostsIn(safe)
    BY <1>2, PairedIsPairing, OwnIsRaw
  <2>2. KnowsThread(safe)
    BY <1>0, <1>2 DEF IsReady, KnowsThread, Knows
  <2> QED
    BY <2>1, <2>2
<1>4. CASE stopped
  <2>1. run' = OverWith(safe, FALSE) /\ FALSE \in BOOLEAN
    BY <1>1, <1>4
  <2> QED
    BY <1>0, <1>1, <1>2, <1>3, <2>1, OverKeeps
<1>5. CASE ~stopped
  <2>1. run' = [run EXCEPT !.at = "tool", !.progress = safe, !.moved = TRUE]
    BY <1>1, <1>5
  <2>2. /\ run' \in RunShape /\ run'.at = "tool" /\ run'.post = run.post /\ run'.own = run.own
        /\ run'.fetched = run.fetched /\ run'.base = run.base /\ run'.moved
        /\ run'.progress = safe /\ run'.history = run.history /\ run'.prompt = run.prompt
        /\ run'.messages = run.messages
    BY <1>0, <1>2, <2>1 DEF RunShape
  <2>3. Knows(safe, StoredMemory'.seen, letGo', run')
    <3>1. letGo \subseteq letGo' /\ (run'.fetched => run.fetched /\ run'.post = run.post /\ run'.own = run.own)
      BY <1>1, <2>2
    <3>2. Knows(safe, StoredMemory.seen, letGo, run)
      BY <1>3 DEF KnowsThread
    <3>3. Knows(safe, StoredMemory.seen, letGo', run')
      BY <3>1, <3>2, KnowsMore
    <3> QED
      BY <1>1, <3>3
  <2>4. ProgressIsSound'
    BY <1>2, <2>2, <2>3 DEF ProgressIsSound, IsReady, KnowsThread
  <2> QED
    BY <1>0, <1>1, <2>2, <2>4, AttemptGoesOn, CheckpointStays DEF MemoryTypes, IsReady
<1> QED
  BY <1>4, <1>5

LEMMA SkippingKeeps ==
  ASSUME MemoryInv, NEW preserve \in BOOLEAN, SkipTurn(preserve)
  PROVE  MemoryInv'
<1> DEFINE h == IF preserve THEN run.progress ELSE run.base
<1>0. /\ MemoryTypes /\ run.at = "tool" /\ Attempting /\ run \in RunShape
      /\ run.progress \in Seq(Kept) /\ run.base \in Seq(Kept)
      /\ Paired(run.base) /\ KnowsThread(run.base) /\ IsReady(run.progress) /\ ~EndsInCall(run.progress)
  BY DEF MemoryInv, SkipTurn, BaseIsSound, ProgressIsSound, Attempting, MemoryTypes, RunShape
<1>1. /\ UNCHANGED <<thread, unheard, memory, steerQueue, checkpoint, letGo>>
      /\ run' = OverWith(h, ~preserve)
  BY DEF SkipTurn
<1>2. Paired(run.progress) /\ KnowsThread(run.progress) /\ run.own \subseteq PostsIn(run.progress)
  BY <1>0, PairedIsPairing, OwnIsRaw DEF IsReady
<1>3. h \in Seq(Kept) /\ Paired(h) /\ KnowsThread(h) /\ (~preserve \/ run.own \subseteq PostsIn(h))
  <2>1. CASE preserve
    BY <1>0, <1>2, <2>1
  <2>2. CASE ~preserve
    BY <1>0, <2>2
  <2> QED
    BY <2>1, <2>2
<1>4. (~preserve) \in BOOLEAN
  OBVIOUS
<1> HIDE DEF h
<1> QED
  BY <1>0, <1>1, <1>3, <1>4, OverKeeps

LEMMA ReplyingKeeps ==
  ASSUME MemoryInv, Reply
  PROVE  MemoryInv'
<1> DEFINE m == Msg("answer", {}, FALSE)
           h == Append(run.messages, m)
<1>0. /\ MemoryTypes /\ run.at = "model" /\ Attempting /\ Sending /\ run \in RunShape /\ run.messages \in Seq(Kept)
      /\ IsReady(run.messages) /\ ~EndsInCall(run.messages)
  BY DEF MemoryInv, Reply, MessagesAreSound, Sending, Attempting, MemoryTypes, RunShape
<1>1. /\ UNCHANGED <<thread, unheard, memory, steerQueue, checkpoint, letGo>>
      /\ run' = OverWith(h, FALSE)
  BY DEF Reply
<1>2. m \in Kept /\ m.kind = "answer" /\ m.posts = {}
  BY DEF Msg, Kept
<1> HIDE DEF m
<1>3. /\ h \in Seq(Kept) /\ ~EndsInCall(h) /\ Pairing(h) /\ PostsIn(h) = PostsIn(run.messages) \cup m.posts
      /\ AsksOwn(h, run.own)
  BY <1>0, <1>2, AppendKeeps DEF IsReady
<1> HIDE DEF h
<1>4. Paired(h) /\ run.own \subseteq PostsIn(h) /\ FALSE \in BOOLEAN
  BY <1>3, PairedIsPairing, OwnIsRaw
<1>5. KnowsThread(h)
  BY <1>0, <1>2, <1>3 DEF IsReady, KnowsThread, Knows
<1> QED
  BY <1>0, <1>1, <1>3, <1>4, <1>5, OverKeeps

(* The next attempt goes on from the latest tool of the one that failed. *)
LEMMA FailingKeeps ==
  ASSUME MemoryInv, TryFails
  PROVE  MemoryInv'
<1>0. /\ MemoryTypes /\ run.at \in {"model", "tool"} /\ Attempting /\ Sending /\ run \in RunShape
      /\ run.progress \in Seq(Kept) /\ run.moved \in BOOLEAN
  BY DEF MemoryInv, TryFails, Attempting, Sending, MemoryTypes, RunShape
<1>1. /\ UNCHANGED <<thread, unheard, memory, steerQueue, checkpoint, letGo>> /\ StoredMemory' = StoredMemory
      /\ run' = IF run.moved
                  THEN [run EXCEPT !.at = "trying", !.history = run.progress, !.prompt = FALSE, !.moved = FALSE]
                  ELSE [run EXCEPT !.at = "trying"]
  BY DEF TryFails, StoredMemory
<1>2. /\ run' \in RunShape /\ run'.at = "trying" /\ run'.post = run.post /\ run'.own = run.own
      /\ run'.fetched = run.fetched /\ run'.base = run.base /\ ~run'.moved
      /\ \/ run.moved /\ run'.history = run.progress /\ ~run'.prompt
         \/ run'.history = run.history /\ run'.prompt = run.prompt
  <2>1. CASE run.moved
    <3>1. run' = [run EXCEPT !.at = "trying", !.history = run.progress, !.prompt = FALSE, !.moved = FALSE]
      BY <1>1, <2>1
    <3> QED
      BY <1>0, <2>1, <3>1 DEF RunShape
  <2>2. CASE ~run.moved
    <3>1. run' = [run EXCEPT !.at = "trying"]
      BY <1>1, <2>2
    <3> QED
      BY <1>0, <2>2, <3>1 DEF RunShape
  <2> QED
    BY <2>1, <2>2
<1>3. run.moved => IsReady(run.progress)
  BY <1>0 DEF MemoryInv, ProgressIsSound
<1>4. KnowsThread(run'.history)
  BY <1>0, <1>2, <1>3 DEF MemoryInv, HistoryIsSound, IsReady
<1>5. Knows(run'.history, StoredMemory'.seen, letGo', run')
  <2>1. letGo \subseteq letGo' /\ (run'.fetched => run.fetched /\ run'.post = run.post /\ run'.own = run.own)
    BY <1>1, <1>2
  <2>2. Knows(run'.history, StoredMemory.seen, letGo, run)
    BY <1>4 DEF KnowsThread
  <2>3. Knows(run'.history, StoredMemory.seen, letGo', run')
    BY <2>1, <2>2, KnowsMore
  <2> QED
    BY <1>1, <2>3
<1>6. HistoryIsSound'
  BY <1>0, <1>2, <1>3, <1>5 DEF MemoryInv, HistoryIsSound, IsReady, KnowsThread
<1>7. MessagesAreSound' /\ ProgressIsSound' /\ ResultIsSound' /\ CheckpointIsSound'
  BY <1>1, <1>2, CheckpointStays DEF MessagesAreSound, ProgressIsSound, ResultIsSound, Sending
<1> QED
  BY <1>0, <1>1, <1>2, <1>6, <1>7, TurnGoesOn DEF MemoryTypes

LEMMA GivingUpKeeps ==
  ASSUME MemoryInv, TurnGivesUp
  PROVE  MemoryInv'
<1>0. MemoryTypes /\ NothingForgotten
  BY DEF MemoryInv
<1>1. UNCHANGED <<thread, unheard, memory, letGo>> /\ EndTurn(StoredMemory) /\ StoredMemory' = StoredMemory
  BY DEF TurnGivesUp, StoredMemory
<1>2. /\ StoredMemory.messages \in Seq(Kept) /\ Paired(StoredMemory.messages)
      /\ 1..StoredMemory'.seen \subseteq PostsIn(StoredMemory.messages) \cup letGo'
  BY <1>0, <1>1, StoredIsKnown
<1>3. /\ run' \in RunShape /\ checkpoint' \in [post : Nat, messages : Seq(Kept)] /\ steerQueue' \in Seq(Nat)
      /\ TurnIsOne' /\ BaseIsSound' /\ HistoryIsSound' /\ MessagesAreSound' /\ ProgressIsSound'
      /\ CheckpointIsSound' /\ ResultIsSound'
  BY <1>0, <1>1, <1>2, EndTurnKeeps
<1>4. MemoryTypes' /\ NothingForgotten'
  BY <1>0, <1>1, <1>3 DEF MemoryTypes, NothingForgotten
<1> QED
  BY <1>3, <1>4 DEF MemoryInv

(* What is saved still tells of every post up to the turn's own.            *)
LEMMA SavingKeeps ==
  ASSUME MemoryInv, NEW noted \in BOOLEAN, SaveMemory(noted)
  PROVE  MemoryInv'
<1> DEFINE msgs  == MaybeObserve(run.result, run.window, 0, noted)
           seen  == IF run.post > StoredMemory.seen THEN run.post ELSE StoredMemory.seen
           saved == [messages |-> msgs, seen |-> seen]
           gone  == IF ~run.fetched THEN 1..run.post \ PostsIn(saved.messages)
                    ELSE IF run.skipped THEN run.own ELSE {}
<1>0. /\ MemoryTypes /\ NothingForgotten /\ run \in RunShape /\ run.at = "saving" /\ run.post \in Nat
      /\ run.result \in Seq(Kept) /\ run.window \in [observeAt : Nat, keep : Nat \ {0}]
      /\ run.own \subseteq Nat /\ StoredMemory.seen \in Nat
  BY StoredIsKnown DEF MemoryInv, SaveMemory, MemoryTypes, RunShape
<1>1. /\ Paired(run.result) /\ KnowsThread(run.result)
      /\ run.skipped \/ run.own \subseteq PostsIn(run.result)
  BY <1>0 DEF MemoryInv, ResultIsSound
<1>2. /\ memory' = saved /\ letGo' = letGo \cup gone /\ EndTurn(saved) /\ UNCHANGED <<thread, unheard>>
  BY DEF SaveMemory
<1>3. msgs \in Seq(Kept) /\ Paired(msgs) /\ PostsIn(msgs) = PostsIn(run.result)
  <2>1. Pairing(run.result) /\ ~EndsInCall(run.result)
    BY <1>0, <1>1, PairedIsPairing
  <2>2. /\ msgs \in Seq(Kept) /\ Pairing(msgs) /\ (EndsInCall(msgs) <=> EndsInCall(run.result))
        /\ PostsIn(msgs) = PostsIn(run.result)
    BY <1>0, <2>1, ObserveKeeps
  <2> HIDE DEF msgs
  <2> QED
    BY <2>1, <2>2, PairedIsPairing
<1> HIDE DEF msgs
<1>4. seen \in Nat /\ (seen = run.post \/ seen = StoredMemory.seen)
  BY <1>0
<1>5. 1..run.post \subseteq PostsIn(msgs) \cup letGo'
  <2>1. CASE ~run.fetched
    BY <1>2, <2>1
  <2>2. CASE run.fetched
    <3>1. 1..run.post \subseteq PostsIn(msgs) \cup letGo \cup run.own
      BY <1>1, <1>3, <2>2 DEF KnowsThread, Knows
    <3>2. run.own \subseteq PostsIn(msgs) \cup letGo'
      BY <1>1, <1>2, <1>3, <2>2
    <3> QED
      BY <1>2, <3>1, <3>2
  <2> QED
    BY <2>1, <2>2
<1>6. 1..StoredMemory.seen \subseteq PostsIn(msgs) \cup letGo'
  BY <1>1, <1>2, <1>3 DEF KnowsThread, Knows
<1>7. 1..seen \subseteq PostsIn(msgs) \cup letGo'
  BY <1>4, <1>5, <1>6
<1>8. letGo' \subseteq Nat
  <2>1. gone \subseteq Nat
    BY <1>0
  <2> QED
    BY <1>0, <1>2, <2>1 DEF MemoryTypes
<1> HIDE DEF seen, gone
<1>9. saved \in [messages : Seq(Kept), seen : Nat] /\ saved.messages = msgs /\ saved.seen = seen
  BY <1>3, <1>4
<1> HIDE DEF saved
<1>10. NothingForgotten'
  BY <1>2, <1>7, <1>9 DEF NothingForgotten
<1>11. 1..StoredMemory'.seen \subseteq PostsIn(saved.messages) \cup letGo'
  <2>1. StoredMemory' = saved \/ StoredMemory' = NoMemory
    BY <1>2 DEF StoredMemory
  <2>2. 1..NoMemory.seen = {}
    BY DEF NoMemory
  <2> QED
    BY <1>7, <1>9, <2>1, <2>2
<1>12. /\ run' \in RunShape /\ checkpoint' \in [post : Nat, messages : Seq(Kept)] /\ steerQueue' \in Seq(Nat)
       /\ TurnIsOne' /\ BaseIsSound' /\ HistoryIsSound' /\ MessagesAreSound' /\ ProgressIsSound'
       /\ CheckpointIsSound' /\ ResultIsSound'
  BY <1>0, <1>2, <1>3, <1>9, <1>11, EndTurnKeeps
<1>13. MemoryTypes'
  BY <1>0, <1>2, <1>8, <1>9, <1>12 DEF MemoryTypes
<1> QED
  BY <1>10, <1>12, <1>13 DEF MemoryInv

LEMMA ForgettingKeeps ==
  ASSUME MemoryInv, ForgetExpired
  PROVE  MemoryInv'
<1>0. MemoryTypes /\ run.at = "idle" /\ memory.seen \in Nat
  BY DEF MemoryInv, ForgetExpired, MemoryTypes
<1>1. /\ memory' = NoMemory /\ letGo' = letGo \cup 1..memory.seen
      /\ UNCHANGED <<thread, unheard, steerQueue, run, checkpoint>>
  BY DEF ForgetExpired
<1>2. NoMemory \in [messages : Seq(Kept), seen : Nat] /\ 1..NoMemory.seen = {}
  BY DEF NoMemory
<1>5. letGo' \subseteq Nat
  <2>1. 1..memory.seen \subseteq Nat
    BY <1>0
  <2> QED
    BY <1>0, <1>1, <2>1 DEF MemoryTypes
<1>3. MemoryTypes' /\ NothingForgotten'
  <2>1. MemoryTypes'
    BY <1>0, <1>1, <1>2, <1>5 DEF MemoryTypes
  <2>2. 1..memory'.seen = {}
    BY <1>1, <1>2
  <2> QED
    BY <2>1, <2>2 DEF NothingForgotten
<1>4. checkpoint.messages = <<>>
  BY <1>0 DEF MemoryInv, TurnIsOne, NoRecord
<1> QED
  BY <1>0, <1>1, <1>3, <1>4
  DEF MemoryInv, TurnIsOne, BaseIsSound, HistoryIsSound, MessagesAreSound, ProgressIsSound,
      CheckpointIsSound, ResultIsSound, Attempting, Sending

(* The restarted turn goes on from its checkpoint, or starts over.          *)
LEMMA RestartingKeeps ==
  ASSUME MemoryInv, RestartTurn
  PROVE  MemoryInv'
<1> DEFINE fresh == NewRun(checkpoint.post, run.own, StoredMemory.messages, FALSE)
           h     == WithSystemPrompt(checkpoint.messages)
<1>0. /\ MemoryTypes /\ NothingForgotten /\ run \in RunShape /\ run.own \in SUBSET Nat /\ run.own # {}
      /\ checkpoint \in [post : Nat, messages : Seq(Kept)] /\ steerQueue \in Seq(Nat) /\ letGo \subseteq Nat
  BY DEF MemoryInv, RestartTurn, TurnIsOne, MemoryTypes, RunShape
<1>1. /\ steerQueue' = <<>> /\ letGo' = letGo \cup ToSet(steerQueue)
      /\ UNCHANGED <<thread, unheard, memory, checkpoint>> /\ StoredMemory' = StoredMemory
      /\ run' = IF checkpoint.messages = <<>> THEN fresh
                ELSE [fresh EXCEPT !.at = "trying", !.prompt = FALSE, !.history = h]
  BY DEF RestartTurn, StoredMemory
<1>2. letGo' \subseteq Nat /\ letGo \subseteq letGo' /\ steerQueue' \in Seq(Nat)
  BY <1>0, <1>1 DEF ToSet
<1>3. /\ StoredMemory.messages \in Seq(Kept) /\ Paired(StoredMemory.messages)
      /\ 1..StoredMemory.seen \subseteq PostsIn(StoredMemory.messages) \cup letGo
  BY <1>0, StoredIsKnown
<1>4. /\ fresh \in RunShape /\ fresh.at = "starting" /\ fresh.own = run.own /\ fresh.base = StoredMemory.messages
      /\ fresh.fetched = FALSE /\ fresh.prompt /\ ~fresh.moved
  BY <1>0, <1>3 DEF NewRun, RunShape, NoWindow
<1> HIDE DEF fresh
<1>5. NothingForgotten'
  BY <1>0, <1>1, <1>2 DEF NothingForgotten
<1>6. \A r : r.fetched = FALSE => Knows(StoredMemory.messages, StoredMemory'.seen, letGo', r)
  BY <1>1, <1>2, <1>3 DEF Knows
<1>7. CASE checkpoint.messages = <<>>
  <2>1. run' = fresh
    BY <1>1, <1>7
  <2>2. MemoryTypes'
    BY <1>0, <1>1, <1>2, <1>4, <2>1 DEF MemoryTypes
  <2>3. /\ TurnIsOne' /\ BaseIsSound' /\ HistoryIsSound' /\ MessagesAreSound' /\ ProgressIsSound'
        /\ CheckpointIsSound' /\ ResultIsSound'
    BY <1>0, <1>1, <1>3, <1>4, <1>6, <1>7, <2>1, TurnBegins
  <2> QED
    BY <1>5, <2>2, <2>3 DEF MemoryInv
<1>8. CASE checkpoint.messages # <<>>
  <2>1. IsReady(checkpoint.messages) /\ ~EndsInCall(checkpoint.messages) /\ checkpoint.messages \in Seq(Kept)
    BY <1>0, <1>8 DEF MemoryInv, CheckpointIsSound
  <2>2. /\ h \in Seq(Kept) /\ Pairing(h) /\ SystemLeads(h) /\ PostsIn(h) = PostsIn(checkpoint.messages)
        /\ AsksOwn(h, run.own)
    BY <1>0, <2>1, SystemPromptKeeps DEF IsReady
  <2> HIDE DEF h
  <2>3. run' = [fresh EXCEPT !.at = "trying", !.prompt = FALSE, !.history = h]
    BY <1>1, <1>8
  <2>4. /\ run' \in RunShape /\ run'.at = "trying" /\ run'.own = run.own /\ run'.base = StoredMemory.messages
        /\ run'.fetched = FALSE /\ ~run'.prompt /\ ~run'.moved /\ run'.history = h
    BY <1>4, <2>2, <2>3 DEF RunShape
  <2>5. MemoryTypes'
    BY <1>0, <1>1, <1>2, <2>4 DEF MemoryTypes
  <2>6. CheckpointIsSound'
    BY <1>1, <1>2, <2>4, CheckpointStays
  <2>7. Knows(run'.history, StoredMemory'.seen, letGo', run')
    <3>1. 1..StoredMemory.seen \subseteq PostsIn(checkpoint.messages) \cup letGo
      BY <2>1 DEF IsReady, KnowsThread, Knows
    <3> QED
      BY <1>1, <1>2, <2>2, <2>4, <3>1 DEF Knows
  <2>8. HistoryIsSound'
    BY <2>2, <2>4, <2>7 DEF HistoryIsSound, KnowsThread
  <2>9. BaseIsSound'
    BY <1>3, <1>6, <2>4 DEF BaseIsSound, KnowsThread
  <2>10. TurnIsOne' /\ MessagesAreSound' /\ ProgressIsSound' /\ ResultIsSound'
    BY <1>0, <2>4 DEF TurnIsOne, MessagesAreSound, ProgressIsSound, ResultIsSound, Sending
  <2> QED
    BY <1>5, <2>5, <2>6, <2>8, <2>9, <2>10 DEF MemoryInv
<1> QED
  BY <1>7, <1>8

LEMMA MemoryStep == MemoryInv /\ [MemoryNext]_memoryVars => MemoryInv'
<1> SUFFICES ASSUME MemoryInv, [MemoryNext]_memoryVars PROVE MemoryInv'
  OBVIOUS
<1>1. CASE MemoryNext
  BY <1>1, WritingKeeps, BeforeToolKeeps, ResultKeeps, SkippingKeeps, SavingKeeps, AnsweringKeeps, TryingKeeps,
     PreparingKeeps, AskingKeeps, CallingKeeps, FailingKeeps, ReplyingKeeps, GivingUpKeeps, ForgettingKeeps,
     RestartingKeeps
  DEF MemoryNext
<1>2. CASE UNCHANGED memoryVars
  <2>1. UNCHANGED <<thread, unheard, memory, steerQueue, run, checkpoint, letGo>> /\ StoredMemory' = StoredMemory
    BY <1>2 DEF memoryVars, StoredMemory
  <2> QED
    BY <2>1
    DEF MemoryInv, MemoryTypes, NothingForgotten, TurnIsOne, BaseIsSound, HistoryIsSound, MessagesAreSound,
        ProgressIsSound, CheckpointIsSound, ResultIsSound, Attempting, Sending, KnowsThread, IsReady
<1> QED
  BY <1>1, <1>2

LEMMA MemoryStart == MemoryInit => MemoryInv
<1> SUFFICES ASSUME MemoryInit PROVE MemoryInv
  OBVIOUS
<1>1. <<>> \in Seq(Kept) /\ <<>> \in Seq(Nat) /\ NoRun \in RunShape /\ NoRun.at = "idle"
  BY NoRunIsTyped
<1>2. NoMemory \in [messages : Seq(Kept), seen : Nat] /\ NoMemory.seen = 0
      /\ NoRecord \in [post : Nat, messages : Seq(Kept)] /\ NoRecord.messages = <<>>
  BY <1>1 DEF NoMemory, NoRecord
<1>3. MemoryTypes /\ NothingForgotten
  BY <1>1, <1>2 DEF MemoryInit, MemoryTypes, NothingForgotten
<1> QED
  BY <1>1, <1>2, <1>3
  DEF MemoryInit, MemoryInv, TurnIsOne, BaseIsSound, HistoryIsSound, MessagesAreSound, ProgressIsSound,
      CheckpointIsSound, ResultIsSound, Attempting, Sending

(* The messages a turn sends a model, whatever it went through, are ones a  *)
(* provider takes and the turn's own (observational_memory.py, agent.py).   *)
THEOREM MessagesSentAreSound == MemorySpec => []SentIsSound
<1>1. MemoryInv => SentIsSound
  <2> SUFFICES ASSUME MemoryInv, run.at = "model" PROVE SentIsSound
    BY DEF SentIsSound
  <2>1. IsReady(run.messages) /\ ~EndsInCall(run.messages) /\ run.messages \in Seq(Kept)
    BY DEF MemoryInv, MessagesAreSound, Sending, MemoryTypes, RunShape
  <2> QED
    BY <2>1, PairedIsPairing, OwnIsRaw DEF SentIsSound, IsReady, SystemLeads
<1> QED
  BY <1>1, MemoryStart, MemoryStep, PTL DEF MemorySpec

(* Every post up to last_seen_ts is in the stored history, as itself or in  *)
(* its notes, unless the code lets go of it (thread_context/store.py).      *)
THEOREM NoPostIsForgotten == MemorySpec => []NothingForgotten
<1>1. MemoryInv => NothingForgotten
  BY DEF MemoryInv
<1> QED
  BY <1>1, MemoryStart, MemoryStep, PTL DEF MemorySpec

----------------------------------------------------------------------------
(* Subagents, for any number of them, any budget and any number of calls,   *)
(* failures and stops: the turn's deps count every Slack call of the turn   *)
(* and of its subagents, so that all of them together stay within the       *)
(* budget.                                                                  *)

(* No call is made that the deps it counts on have not counted. *)
CallsAreCounted == \A r \in {TurnRun, KevintonRun} : slackMade[r] <= runDeps[r].slack

(* The inductive invariant: BudgetIsShared alone does not say that the     *)
(* count a call is checked against is the count of what was made.          *)
BudgetInv == SubagentTypeOK /\ CallsAreCounted /\ BudgetIsShared

(* A response asks for finitely many calls. *)
LEMMA ResponseIsFinite ==
  ASSUME NEW r \in AgentRuns, NEW tools \in SUBSET ToolsOf(r)
  PROVE  Cardinality(tools) \in Nat
<1> DEFINE Posting == {"slack", "code"}
           Ending  == {"report", "delegate"}
<1>1. IsFiniteSet(Posting \cup Ending \cup {"stream"})
  <2>1. \A x : IsFiniteSet({x})
    BY FS_Singleton
  <2>2. IsFiniteSet({"slack"} \cup {"code"}) /\ IsFiniteSet({"report"} \cup {"delegate"})
    BY <2>1, FS_Union
  <2>3. Posting = {"slack"} \cup {"code"} /\ Ending = {"report"} \cup {"delegate"}
    OBVIOUS
  <2>4. IsFiniteSet(Posting \cup Ending)
    BY <2>2, <2>3, FS_Union
  <2> QED
    BY <2>4, FS_AddElement
<1>2. ToolsOf(r) \subseteq Posting \cup Ending \cup {"stream"}
  BY DEF ToolsOf
<1>3. IsFiniteSet(tools)
  BY <1>1, <1>2, FS_Subset
<1> QED
  BY <1>3, FS_CardinalityType

(* A run that is over, and one whose calls are halted, keep their shape. *)
LEMMA RunOverKeepsShape ==
  ASSUME runs \in [AgentRuns -> RunState], runDeps \in [AgentRuns -> RunDeps],
         NEW r \in AgentRuns, NEW place \in RunPlaces, RunOver(r, place)
  PROVE  runs' \in [AgentRuns -> RunState]
<1> DEFINE merging == r \in SubRuns
           over == [runs[r] EXCEPT !.at = IF merging THEN "merging" ELSE place,
                                   !.seen = IF merging THEN runDeps[TurnRun].keepalive ELSE FALSE]
<1>1. runs' = [runs EXCEPT ![r] = over]
  BY Zenon DEF RunOver
<1>2. over \in RunState
  <2>1. CASE merging
    <3>1. runDeps[TurnRun].keepalive \in BOOLEAN
      BY Zenon DEF RunDeps, AgentRuns
    <3> QED
      BY <2>1, <3>1, Zenon DEF RunState, RunPlaces
  <2>2. CASE ~merging
    BY <2>2, Zenon DEF RunState, RunPlaces
  <2> QED
    BY <2>1, <2>2
<1> QED
  BY <1>1, <1>2

(* A flag of a run's deps is set. *)
LEMMA DepsTakeFlag ==
  ASSUME runDeps \in [AgentRuns -> RunDeps], NEW r
  PROVE  /\ [runDeps EXCEPT ![r].keepalive = TRUE] \in [AgentRuns -> RunDeps]
         /\ [runDeps EXCEPT ![r].stopped = TRUE] \in [AgentRuns -> RunDeps]
<1>1. \A d \in RunDeps : [d EXCEPT !.keepalive = TRUE] \in RunDeps /\ [d EXCEPT !.stopped = TRUE] \in RunDeps
  BY Zenon DEF RunDeps
<1> QED
  BY <1>1

(* Tasks are delegated. *)
LEMMA TasksAreQueued ==
  ASSUME runs \in [AgentRuns -> RunState], NEW tasks,
         runs' = [r \in AgentRuns |-> IF r \in tasks THEN [runs[r] EXCEPT !.at = "queued"] ELSE runs[r]]
  PROVE  runs' \in [AgentRuns -> RunState]
<1>1. \A x \in RunState : [x EXCEPT !.at = "queued"] \in RunState
  BY Zenon DEF RunState, RunPlaces
<1> QED
  BY <1>1

LEMMA BudgetHoldsAtFirst == SubagentInit => BudgetInv
<1> SUFFICES ASSUME SubagentInit PROVE BudgetInv
  OBVIOUS
<1> USE SubagentAssumption DEF SubagentInit
<1>1. runs \in [AgentRuns -> RunState]
  <2>1. \A r \in AgentRuns :
          [at |-> IF r = TurnRun THEN "asking" ELSE "idle", attempts |-> 0,
           knows |-> [of |-> r, rounds |-> 0], seen |-> FALSE] \in RunState
    BY DEF RunState, RunPlaces, Checkpoint
  <2> QED
    BY <2>1, Zenon
<1>2. runDeps \in [AgentRuns -> RunDeps]
  <2>1. [stopped |-> FALSE, keepalive |-> FALSE, slack |-> 0, kept |-> NoCheckpoint, used |-> 0] \in RunDeps
    BY DEF RunDeps, Checkpoint, NoCheckpoint
  <2> QED
    BY <2>1, Zenon
<1>3. SubagentTypeOK
  <2>1. haltAsked \in BOOLEAN
    BY Zenon
  <2>2. /\ toolCalls = {} /\ program \in AgentRuns \cup {NoProgram}
        /\ slackMade \in [{TurnRun, KevintonRun} -> Nat] /\ roundsDone \in [AgentRuns -> Nat]
        /\ toolUses \in 0..MaxToolUses /\ runEvents \in 0..MaxRunEvents
    OBVIOUS
  <2> QED
    BY <1>1, <1>2, <2>1, <2>2, Zenon DEF SubagentTypeOK
<1>4. CallsAreCounted /\ BudgetIsShared
  BY DEF CallsAreCounted, BudgetIsShared, AgentRuns
<1> QED
  BY <1>3, <1>4 DEF BudgetInv

(* What the runs' models do. *)
LEMMA RunStepKeepsBudget ==
  ASSUME BudgetInv, NEW r \in AgentRuns,
         RunResponds(r) \/ RunAnswers(r) \/ AttemptFailed(r) \/ NextRequest(r) \/ ProxyCall(r) \/ RunHalted(r)
  PROVE  BudgetInv'
<1> USE SubagentAssumption
    DEF BudgetInv, SubagentTypeOK, CallsAreCounted, BudgetIsShared, AgentRuns, RunPlaces, Checkpoint,
        RunState, RunDeps, RunGoes, RunEvent
<1>1. CASE RunResponds(r)
  <2>1. PICK tools \in (SUBSET ToolsOf(r)) \ {{}} :
          /\ toolUses + Cardinality(tools) <= MaxToolUses
          /\ toolUses' = toolUses + Cardinality(tools)
          /\ toolCalls' = toolCalls \cup {[by |-> r, tool |-> t, at |-> "asked"] : t \in tools}
    BY <1>1 DEF RunResponds
  <2>2. toolUses' \in 0..MaxToolUses
    BY <2>1, ResponseIsFinite
  <2>3. toolCalls' \subseteq [by: AgentRuns, tool: UNION {ToolsOf(q) : q \in AgentRuns}, at: {"asked", "running"}]
    BY <2>1
  <2> QED
    BY <1>1, <2>2, <2>3 DEF RunResponds
<1>2. CASE RunAnswers(r)
  <2>1. runs' \in [AgentRuns -> RunState]
    BY <1>2, RunOverKeepsShape DEF RunAnswers
  <2> QED
    BY <1>2, <2>1 DEF RunAnswers
<1>3. CASE AttemptFailed(r)
  <2>1. runs' \in [AgentRuns -> RunState]
    <3>1. CASE RunOver(r, "failed")
      BY <3>1, RunOverKeepsShape
    <3>2. CASE runs[r].attempts + 1 < ChainLength /\ runs' = [runs EXCEPT ![r].attempts = @ + 1, ![r].knows = ResumeFrom(r)]
      BY <3>2, SMTT(60) DEF ResumeFrom
    <3> QED
      BY <1>3, <3>1, <3>2 DEF AttemptFailed
  <2> QED
    BY <1>3, <2>1 DEF AttemptFailed
<1>4. CASE NextRequest(r)
  BY <1>4 DEF NextRequest
<1>5. CASE ProxyCall(r)
  BY <1>5 DEF ProxyCall, Stopped, Spend, OverBudget, Payer, SlackCallBy, NoProgram
<1>6. CASE RunHalted(r)
  <2>1. runs' \in [AgentRuns -> RunState]
    BY <1>6, RunOverKeepsShape DEF RunHalted
  <2> QED
    BY <1>6, <2>1 DEF RunHalted
<1> QED
  BY <1>1, <1>2, <1>3, <1>4, <1>5, <1>6

(* What becomes of a call. *)
LEMMA CallStepKeepsBudget ==
  ASSUME BudgetInv, NEW c \in toolCalls,
         \/ CallRefused(c) \/ CallHalted(c) \/ CallStarts(c) \/ SlackCallEnds(c) \/ StreamStarts(c)
         \/ Reports(c) \/ Delegated(c) \/ ProgramStarts(c) \/ ProgramEnds(c)
  PROVE  BudgetInv'
<1> USE SubagentAssumption
    DEF BudgetInv, SubagentTypeOK, CallsAreCounted, BudgetIsShared, AgentRuns, RunPlaces, Checkpoint,
        RunState, RunDeps, RunGoes, RunEvent, Drop, Starts, Ends, Spend, OverBudget, Payer, SlackCallBy, Refusable
<1>1. CASE CallRefused(c)
  BY <1>1, SMTT(60) DEF CallRefused
<1>2. CASE CallHalted(c)
  BY <1>2 DEF CallHalted, HaltRun
<1>3. CASE CallStarts(c)
  <2>1. runs' \in [AgentRuns -> RunState]
    <3>1. CASE c.tool = "delegate"
      <4>1. PICK tasks \in (SUBSET SubRuns) \ {{}} :
              runs' = [r \in AgentRuns |-> IF r \in tasks THEN [runs[r] EXCEPT !.at = "queued"] ELSE runs[r]]
        BY <1>3, <3>1 DEF CallStarts
      <4> QED
        BY <4>1, TasksAreQueued
    <3> QED
      BY <1>3, <3>1 DEF CallStarts
  <2>2. runDeps' \in [AgentRuns -> RunDeps]
    <3>1. Payer(c.by) \in AgentRuns /\ c.by \in AgentRuns
      OBVIOUS
    <3>2. Spend(c.by, c.tool) \in [AgentRuns -> RunDeps]
      BY <3>1
    <3>3. \A D \in [AgentRuns -> RunDeps], n \in Nat :
            [D EXCEPT ![c.by].used = @ + n] \in [AgentRuns -> RunDeps]
      BY <3>1
    <3>4. (IF c.by \in SubRuns THEN 1 ELSE 0) \in Nat
      OBVIOUS
    <3>5. runDeps' = [Spend(c.by, c.tool) EXCEPT ![c.by].used = @ + IF c.by \in SubRuns THEN 1 ELSE 0]
      BY <1>3, Zenon DEF CallStarts
    <3> HIDE DEF Spend, RunDeps, Payer
    <3> QED
      BY <3>2, <3>3, <3>4, <3>5, Zenon
  <2>3. CallsAreCounted' /\ BudgetIsShared'
    BY <1>3, SMTT(60) DEF CallStarts
  <2>4. toolCalls' \subseteq [by: AgentRuns, tool: UNION {ToolsOf(q) : q \in AgentRuns}, at: {"asked", "running"}]
    BY <1>3, SMTT(60) DEF CallStarts
  <2>5. slackMade' \in [{TurnRun, KevintonRun} -> Nat]
    BY <1>3, SMTT(60) DEF CallStarts
  <2> QED
    BY <1>3, <2>1, <2>2, <2>3, <2>4, <2>5 DEF CallStarts
<1>4. CASE SlackCallEnds(c)
  BY <1>4 DEF SlackCallEnds
<1>5. CASE StreamStarts(c)
  <2>1. runDeps' \in [AgentRuns -> RunDeps]
    BY <1>5, DepsTakeFlag DEF StreamStarts
  <2>2. \A r \in {TurnRun, KevintonRun} : runDeps'[r].slack = runDeps[r].slack
    BY <1>5 DEF StreamStarts
  <2> QED
    BY <1>5, <2>1, <2>2 DEF StreamStarts
<1>6. CASE Reports(c)
  <2>1. runDeps' \in [AgentRuns -> RunDeps]
    <3>1. CASE runDeps' = [runDeps EXCEPT ![c.by].stopped = TRUE]
      BY <3>1, DepsTakeFlag
    <3>2. CASE UNCHANGED runDeps
      BY <3>2
    <3> QED
      BY <1>6, <3>1, <3>2, Zenon DEF Reports
  <2>2. \A r \in {TurnRun, KevintonRun} : runDeps'[r].slack = runDeps[r].slack
    BY <1>6 DEF Reports
  <2> QED
    BY <1>6, <2>1, <2>2 DEF Reports
<1>7. CASE Delegated(c)
  BY <1>7 DEF Delegated
<1>8. CASE ProgramStarts(c)
  BY <1>8 DEF ProgramStarts
<1>9. CASE ProgramEnds(c)
  BY <1>9 DEF ProgramEnds
<1> QED
  BY <1>1, <1>2, <1>3, <1>4, <1>5, <1>6, <1>7, <1>8, <1>9

(* A subagent's copy of the turn's deps. *)
LEMMA SubagentDepsType == runDeps \in [AgentRuns -> RunDeps] => SubagentDeps \in RunDeps
<1>1. NoCheckpoint \in Checkpoint /\ 0 \in Nat
  BY DEF NoCheckpoint, Checkpoint
<1>2. \A d \in RunDeps, k \in Checkpoint, n \in Nat : [d EXCEPT !.kept = k, !.used = n] \in RunDeps
  BY Zenon DEF RunDeps
<1> QED
  BY <1>1, <1>2, Zenon DEF SubagentDeps, AgentRuns

(* Subagents and kevinton begin with a copy of the turn's deps. *)
LEMMA BeginStepKeepsBudget ==
  ASSUME BudgetInv,
         (\E s \in SubRuns : RunSubagent(s) \/ MergeBack(s)) \/ SpawnKevinton \/ AskToStop
  PROVE  BudgetInv'
<1> USE SubagentAssumption
    DEF BudgetInv, SubagentTypeOK, CallsAreCounted, BudgetIsShared, AgentRuns, RunPlaces, Checkpoint,
        RunState, RunDeps, RunGoes, RunEvent
<1>1. ASSUME NEW s \in SubRuns, RunSubagent(s) PROVE BudgetInv'
  <2>1. SubagentDeps \in RunDeps
    BY SubagentDepsType
  <2>2. runDeps' = [runDeps EXCEPT ![s] = SubagentDeps]
    BY <1>1 DEF RunSubagent
  <2>3. runDeps' \in [AgentRuns -> RunDeps]
    <3> HIDE DEF RunDeps
    <3> QED
      BY <2>1, <2>2
  <2> QED
    BY <1>1, <2>2, <2>3 DEF RunSubagent
<1>2. ASSUME NEW s \in SubRuns, MergeBack(s) PROVE BudgetInv'
  BY <1>2, SMTT(60) DEF MergeBack
<1>3. CASE SpawnKevinton
  BY <1>3 DEF SpawnKevinton
<1>4. CASE AskToStop
  BY <1>4 DEF AskToStop
<1> QED
  BY <1>1, <1>2, <1>3, <1>4

LEMMA BudgetStep == BudgetInv /\ [SubagentNext]_subagentVars => BudgetInv'
<1> SUFFICES ASSUME BudgetInv, [SubagentNext]_subagentVars PROVE BudgetInv'
  OBVIOUS
<1>1. CASE UNCHANGED subagentVars
  BY <1>1
  DEF BudgetInv, SubagentTypeOK, CallsAreCounted, BudgetIsShared, subagentVars, Checkpoint
<1>2. CASE SubagentNext
  BY <1>2, RunStepKeepsBudget, CallStepKeepsBudget, BeginStepKeepsBudget DEF SubagentNext
<1> QED
  BY <1>1, <1>2

LEMMA BudgetIsInductive == SubagentSpec => []BudgetInv
BY BudgetHoldsAtFirst, BudgetStep, PTL DEF SubagentSpec

(* Every variable of Subagents keeps its type, whatever runs beside what. *)
THEOREM SubagentTypeInvariant == SubagentSpec => []SubagentTypeOK
<1>1. BudgetInv => SubagentTypeOK
  BY DEF BudgetInv
<1> QED
  BY <1>1, BudgetIsInductive, PTL

(* agent/slack_budget.py: the Slack calls of a turn, its subagents' and its *)
(* programs' included, never exceed SLACK_CALL_BUDGET.                      *)
THEOREM TurnStaysInBudget == SubagentSpec => []BudgetIsShared
<1>1. BudgetInv => BudgetIsShared
  BY DEF BudgetInv
<1> QED
  BY <1>1, BudgetIsInductive, PTL
(***************************************************************************)
(* What a subagent whose provider failed goes on from.                      *)
(***************************************************************************)

(* A call that has not begun belongs to a run that waits for its calls, and *)
(* a delegation that has not begun finds every subagent unused.             *)
AskedCallsWait ==
  \A c \in toolCalls : c.at = "asked" =>
    /\ runs[c.by].at = "calling"
    /\ c.tool = "delegate" => \A s \in SubRuns : runs[s].at = "idle"

OnlyTheTurnDelegates == \A c \in toolCalls : c.tool = "delegate" => c.by = TurnRun

(* A subagent that has not begun knows its task and nothing else. *)
NewTasksAreNew ==
  \A s \in SubRuns : runs[s].at \in {"idle", "queued"} =>
    runs[s].knows = [of |-> s, rounds |-> 0] /\ roundsDone[s] = 0

(* The next attempt would start from all that the subagent has done. *)
CheckpointIsLatest ==
  \A s \in SubRuns : runs[s].at \in {"asking", "calling"} =>
    ResumeFrom(s) = [of |-> s, rounds |-> roundsDone[s]]

(* The inductive invariant: the attempt after a failure reads the deps'     *)
(* checkpoint, so what an attempt knows stays right only with what the      *)
(* checkpoint holds, and that only as no subagent is begun twice.           *)
ProgressInv ==
  BudgetInv /\ AskedCallsWait /\ OnlyTheTurnDelegates /\ NewTasksAreNew /\ CheckpointIsLatest /\ ProgressIsKept

LEMMA ProgressAtFirst == SubagentInit => ProgressInv
<1> SUFFICES ASSUME SubagentInit PROVE ProgressInv
  OBVIOUS
<1>1. BudgetInv
  BY BudgetHoldsAtFirst
<1>2. \A s \in SubRuns : runs[s].at = "idle" /\ runs[s].knows = [of |-> s, rounds |-> 0] /\ roundsDone[s] = 0
  BY SubagentAssumption DEF SubagentInit, AgentRuns
<1>3. toolCalls = {}
  BY DEF SubagentInit
<1> QED
  BY <1>1, <1>2, <1>3
  DEF ProgressInv, AskedCallsWait, OnlyTheTurnDelegates, NewTasksAreNew, CheckpointIsLatest, ProgressIsKept

(* A step that leaves a subagent's messages and its checkpoint alone keeps  *)
(* what it knows, as long as nobody who has begun waits anew.               *)
StaysOrEnds(s) ==
  /\ runDeps'[s].kept = runDeps[s].kept /\ roundsDone'[s] = roundsDone[s]
  /\ \/ runs'[s].at \notin {"idle", "queued", "asking", "calling"}
     \/ /\ runs'[s].knows = runs[s].knows
        /\ \/ runs'[s].at = runs[s].at
           \/ runs[s].at = "asking" /\ runs'[s].at = "calling"
           \/ runs[s].at = "idle" /\ runs'[s].at = "queued"

LEMMA StayingKeeps ==
  ASSUME ProgressInv, BudgetInv', \A s \in SubRuns : StaysOrEnds(s),
         AskedCallsWait', OnlyTheTurnDelegates'
  PROVE  ProgressInv'
<1>1. NewTasksAreNew'
  BY DEF ProgressInv, NewTasksAreNew, StaysOrEnds
<1>2. CheckpointIsLatest'
  BY DEF ProgressInv, CheckpointIsLatest, StaysOrEnds, ResumeFrom
<1>3. ProgressIsKept'
  BY DEF ProgressInv, ProgressIsKept, StaysOrEnds
<1> QED
  BY <1>1, <1>2, <1>3 DEF ProgressInv

(* What the runs' models do. *)
LEMMA RunStepKeepsProgress ==
  ASSUME ProgressInv, NEW r \in AgentRuns,
         RunResponds(r) \/ RunAnswers(r) \/ AttemptFailed(r) \/ NextRequest(r) \/ ProxyCall(r) \/ RunHalted(r)
  PROVE  ProgressInv'
<1>0. BudgetInv /\ BudgetInv'
  BY RunStepKeepsBudget DEF ProgressInv
<1>1. runs \in [AgentRuns -> RunState] /\ runDeps \in [AgentRuns -> RunDeps] /\ roundsDone \in [AgentRuns -> Nat]
      /\ (\A c \in toolCalls : c.by \in AgentRuns)
  BY <1>0 DEF BudgetInv, SubagentTypeOK
<1>2. SubRuns \subseteq AgentRuns /\ TurnRun \notin SubRuns /\ KevintonRun \notin SubRuns
  BY SubagentAssumption DEF AgentRuns
<1>3. \A s \in AgentRuns : DOMAIN runs[s] = {"at", "attempts", "knows", "seen"}
  BY <1>1 DEF RunState
<1> USE DEF StaysOrEnds, AskedCallsWait, OnlyTheTurnDelegates
<1>4. ASSUME NEW place, place \notin {"idle", "queued", "asking", "calling"}, RunOver(r, place),
             runs[r].at \notin {"idle", "calling"}, UNCHANGED <<runDeps, toolCalls, roundsDone>>
      PROVE  ProgressInv'
  <2>1. \A q \in AgentRuns : q # r => runs'[q] = runs[q]
    BY <1>1, <1>4 DEF RunOver
  <2>2. runs'[r].at \notin {"idle", "queued", "asking", "calling"}
    BY <1>1, <1>3, <1>4 DEF RunOver
  <2>3. \A s \in SubRuns : StaysOrEnds(s)
    BY <1>2, <1>4, <2>1, <2>2
  <2>4. AskedCallsWait' /\ OnlyTheTurnDelegates'
    BY <1>1, <1>2, <1>4, <2>1, <2>2 DEF ProgressInv
  <2> QED
    BY <1>0, <2>3, <2>4, StayingKeeps
<1>5. CASE RunResponds(r)
  <2>1. PICK tools \in (SUBSET ToolsOf(r)) \ {{}} :
          /\ "delegate" \in tools => \A s \in SubRuns : runs[s].at = "idle"
          /\ toolCalls' = toolCalls \cup {[by |-> r, tool |-> t, at |-> "asked"] : t \in tools}
    BY <1>5 DEF RunResponds
  <2>2. runs[r].at = "asking" /\ runs' = [runs EXCEPT ![r].at = "calling"] /\ UNCHANGED <<runDeps, roundsDone>>
    BY <1>5 DEF RunResponds, RunGoes
  <2>3. \A q \in AgentRuns : q # r => runs'[q] = runs[q]
    BY <1>1, <2>2
  <2>4. runs'[r].at = "calling" /\ runs'[r].knows = runs[r].knows
    BY <1>1, <1>3, <2>2
  <2>5. \A s \in SubRuns : StaysOrEnds(s)
    BY <1>2, <2>2, <2>3, <2>4
  <2>6. "delegate" \in tools => r = TurnRun
    BY <1>2, <2>1 DEF ToolsOf, AgentRuns
  <2>7. OnlyTheTurnDelegates'
    BY <2>1, <2>6 DEF ProgressInv
  <2>8. ASSUME NEW c \in toolCalls', c.at = "asked"
        PROVE  runs'[c.by].at = "calling" /\ (c.tool = "delegate" => \A s \in SubRuns : runs'[s].at = "idle")
    <3>1. CASE c \in toolCalls
      <4>1. runs'[c.by].at = "calling"
        BY <1>1, <2>3, <2>4, <2>8, <3>1 DEF ProgressInv
      <4>2. c.tool = "delegate" => r \notin SubRuns
        BY <2>2, <2>8, <3>1 DEF ProgressInv
      <4> QED
        BY <1>2, <2>3, <2>8, <3>1, <4>1, <4>2 DEF ProgressInv
    <3>2. CASE c \notin toolCalls
      <4>1. PICK t \in tools : c = [by |-> r, tool |-> t, at |-> "asked"]
        BY <2>1, <3>2
      <4>2. c.by = r /\ c.tool = t
        BY <4>1
      <4> QED
        BY <1>2, <2>1, <2>3, <2>4, <2>6, <4>1, <4>2
    <3> QED
      BY <3>1, <3>2
  <2> QED
    BY <1>0, <2>5, <2>7, <2>8, StayingKeeps
<1>6. CASE RunAnswers(r)
  BY <1>4, <1>6 DEF RunAnswers
<1>7. CASE AttemptFailed(r)
  <2>1. CASE RunOver(r, "failed")
    BY <1>4, <1>7, <2>1 DEF AttemptFailed
  <2>2. CASE r \in SubRuns /\ runs' = [runs EXCEPT ![r].attempts = @ + 1, ![r].knows = ResumeFrom(r)]
    <3>1. runs[r].at = "asking" /\ UNCHANGED <<runDeps, toolCalls, roundsDone>>
      BY <1>7 DEF AttemptFailed
    <3>2. \A q \in AgentRuns : q # r => runs'[q] = runs[q]
      BY <1>1, <2>2
    <3>3. runs'[r].at = "asking" /\ runs'[r].knows = ResumeFrom(r)
      BY <1>1, <1>3, <2>2, <3>1
    <3>4. AskedCallsWait' /\ OnlyTheTurnDelegates'
      BY <1>1, <1>2, <3>1, <3>2, <3>3 DEF ProgressInv
    <3>5. \A s \in SubRuns : s # r => runs'[s] = runs[s]
      BY <1>2, <3>2
    <3>6. NewTasksAreNew'
      BY <3>1, <3>3, <3>5 DEF ProgressInv, NewTasksAreNew
    <3>7. CheckpointIsLatest'
      BY <3>1, <3>3, <3>5 DEF ProgressInv, CheckpointIsLatest, ResumeFrom
    <3>8. ProgressIsKept'
      BY <3>1, <3>3, <3>5 DEF ProgressInv, CheckpointIsLatest, ProgressIsKept
    <3> QED
      BY <1>0, <3>4, <3>6, <3>7, <3>8 DEF ProgressInv
  <2> QED
    BY <1>7, <2>1, <2>2 DEF AttemptFailed
<1>8. CASE NextRequest(r)
  <2> DEFINE known == [runs[r].knows EXCEPT !.rounds = @ + 1]
  <2>1. /\ runs[r].at = "calling" /\ CallsOf(r) = {} /\ toolCalls' = toolCalls
        /\ runs' = [runs EXCEPT ![r].at = "asking", ![r].knows = known]
        /\ runDeps' = IF r \in SubRuns THEN [runDeps EXCEPT ![r].kept = known] ELSE runDeps
        /\ roundsDone' = [roundsDone EXCEPT ![r] = @ + 1]
    BY <1>8, Zenon DEF NextRequest
  <2>2. \A q \in AgentRuns : q # r => runs'[q] = runs[q] /\ roundsDone'[q] = roundsDone[q]
                                       /\ runDeps'[q] = runDeps[q]
    BY <1>1, <2>1
  <2>3. runs'[r].at = "asking" /\ runs'[r].knows = known /\ roundsDone'[r] = roundsDone[r] + 1
    BY <1>1, <1>3, <2>1
  <2>4. r \in SubRuns => runDeps'[r].kept = known
    <3>1. "kept" \in DOMAIN runDeps[r]
      BY <1>1 DEF RunDeps
    <3> QED
      BY <1>1, <2>1, <3>1
  <2>5. r \in SubRuns => known = [of |-> r, rounds |-> roundsDone'[r]] /\ known # NoCheckpoint
    <3>1. roundsDone[r] \in Nat
      BY <1>1
    <3>2. r \in SubRuns => runs[r].knows = [of |-> r, rounds |-> roundsDone[r]]
      BY <2>1 DEF ProgressInv, ProgressIsKept
    <3>3. r \in SubRuns => known = [of |-> r, rounds |-> roundsDone[r] + 1]
      BY <3>2
    <3> QED
      BY <2>3, <3>1, <3>3 DEF NoCheckpoint
  <2>6. AskedCallsWait' /\ OnlyTheTurnDelegates'
    <3>1. \A c \in toolCalls : c.by # r
      BY <2>1 DEF CallsOf
    <3>2. \A c \in toolCalls : runs'[c.by] = runs[c.by]
      BY <1>1, <2>2, <3>1
    <3>3. \A s \in SubRuns : runs[s].at = "idle" => runs'[s].at = "idle"
      BY <1>2, <2>1, <2>2
    <3> QED
      BY <2>1, <3>2, <3>3 DEF ProgressInv
  <2>7. \A s \in SubRuns : s # r => runs'[s] = runs[s] /\ roundsDone'[s] = roundsDone[s] /\ runDeps'[s] = runDeps[s]
    BY <1>2, <2>2
  <2> HIDE DEF known
  <2>8. NewTasksAreNew'
    BY <2>3, <2>7 DEF ProgressInv, NewTasksAreNew
  <2>9. CheckpointIsLatest'
    BY <2>3, <2>4, <2>5, <2>7 DEF ProgressInv, CheckpointIsLatest, ResumeFrom
  <2>10. ProgressIsKept'
    BY <2>3, <2>5, <2>7 DEF ProgressInv, ProgressIsKept
  <2> QED
    BY <1>0, <2>6, <2>8, <2>9, <2>10 DEF ProgressInv
<1>9. CASE ProxyCall(r)
  <2>1. UNCHANGED <<runs, toolCalls, roundsDone>> /\ (UNCHANGED runDeps \/ runDeps' = Spend(r, "slack"))
    BY <1>9 DEF ProxyCall
  <2>2. \A s \in SubRuns : runDeps'[s].kept = runDeps[s].kept
    BY <1>1, <1>2, <2>1 DEF Spend, RunDeps
  <2>3. AskedCallsWait' /\ OnlyTheTurnDelegates'
    BY <2>1 DEF ProgressInv
  <2> QED
    BY <1>0, <2>1, <2>2, <2>3, StayingKeeps
<1>10. CASE RunHalted(r)
  BY <1>4, <1>10 DEF RunHalted
<1> QED
  BY <1>5, <1>6, <1>7, <1>8, <1>9, <1>10

(* What becomes of a call. *)
LEMMA CallStepKeepsProgress ==
  ASSUME ProgressInv, NEW c \in toolCalls,
         \/ CallRefused(c) \/ CallHalted(c) \/ CallStarts(c) \/ SlackCallEnds(c) \/ StreamStarts(c)
         \/ Reports(c) \/ Delegated(c) \/ ProgramStarts(c) \/ ProgramEnds(c)
  PROVE  ProgressInv'
<1>0. BudgetInv /\ BudgetInv'
  BY CallStepKeepsBudget DEF ProgressInv
<1>1. runs \in [AgentRuns -> RunState] /\ runDeps \in [AgentRuns -> RunDeps]
      /\ (\A d \in toolCalls : d.by \in AgentRuns)
  BY <1>0 DEF BudgetInv, SubagentTypeOK
<1>2. SubRuns \subseteq AgentRuns /\ TurnRun \notin SubRuns /\ KevintonRun \notin SubRuns
  BY SubagentAssumption DEF AgentRuns
<1>3. \A r \in AgentRuns : DOMAIN runs[r] = {"at", "attempts", "knows", "seen"}
  BY <1>1 DEF RunState
<1>4. \A s \in AgentRuns : runDeps'[s].kept = runDeps[s].kept
  <2>1. Spend(c.by, c.tool) \in [AgentRuns -> RunDeps]
        /\ \A s \in AgentRuns : Spend(c.by, c.tool)[s].kept = runDeps[s].kept
    <3>1. Payer(c.by) \in AgentRuns
      BY <1>1 DEF Payer, AgentRuns
    <3>2. \A s \in AgentRuns : DOMAIN runDeps[s] = {"stopped", "keepalive", "slack", "kept", "used"}
                               /\ runDeps[s].slack \in Nat
      BY <1>1 DEF RunDeps
    <3>3. Spend(c.by, c.tool) \in [AgentRuns -> RunDeps]
      BY <1>1, <3>1 DEF Spend, RunDeps
    <3> QED
      BY <1>1, <3>1, <3>2, <3>3 DEF Spend
  <2>2. ASSUME NEW D \in [AgentRuns -> RunDeps], NEW n
        PROVE  \A s \in AgentRuns : [D EXCEPT ![c.by].used = n][s].kept = D[s].kept
    BY <1>1 DEF RunDeps
  <2>3. \/ runDeps' = runDeps \/ runDeps' = Spend(c.by, c.tool)
        \/ \E n : runDeps' = [Spend(c.by, c.tool) EXCEPT ![c.by].used = n]
        \/ \E b : runDeps' = [runDeps EXCEPT ![c.by].keepalive = b] \/ runDeps' = [runDeps EXCEPT ![c.by].stopped = b]
    BY DEF CallRefused, CallHalted, CallStarts, SlackCallEnds, StreamStarts, Reports, Delegated, ProgramStarts,
           ProgramEnds
  <2>4. ASSUME NEW n, runDeps' = [Spend(c.by, c.tool) EXCEPT ![c.by].used = n]
        PROVE  \A s \in AgentRuns : runDeps'[s].kept = runDeps[s].kept
    <3>1. \A s \in AgentRuns : runDeps'[s].kept = Spend(c.by, c.tool)[s].kept
      BY <2>1, <2>2, <2>4
    <3> QED
      BY <2>1, <3>1
  <2>5. ASSUME NEW b, runDeps' = [runDeps EXCEPT ![c.by].keepalive = b] \/ runDeps' = [runDeps EXCEPT ![c.by].stopped = b]
        PROVE  \A s \in AgentRuns : runDeps'[s].kept = runDeps[s].kept
    <3>1. CASE runDeps' = [runDeps EXCEPT ![c.by].keepalive = b]
      BY <1>1, <3>1 DEF RunDeps
    <3>2. CASE runDeps' = [runDeps EXCEPT ![c.by].stopped = b]
      BY <1>1, <3>2 DEF RunDeps
    <3> QED
      BY <2>5, <3>1, <3>2
  <2> QED
    BY <2>1, <2>3, <2>4, <2>5
<1>5. UNCHANGED roundsDone
  BY DEF CallRefused, CallHalted, CallStarts, SlackCallEnds, StreamStarts, Reports, Delegated, ProgramStarts,
         ProgramEnds
<1> USE DEF StaysOrEnds, AskedCallsWait, OnlyTheTurnDelegates
<1>6. ASSUME UNCHANGED runs, \/ toolCalls' \subseteq toolCalls
                             \/ toolCalls' = (toolCalls \ {c}) \cup {[c EXCEPT !.at = "running"]}
      PROVE  ProgressInv'
  <2>1. DOMAIN c = {"by", "tool", "at"}
    BY <1>0 DEF BudgetInv, SubagentTypeOK
  <2>2. [c EXCEPT !.at = "running"].at = "running" /\ [c EXCEPT !.at = "running"].by = c.by
        /\ [c EXCEPT !.at = "running"].tool = c.tool
    BY <2>1
  <2>3. AskedCallsWait' /\ OnlyTheTurnDelegates'
    BY <1>6, <2>2 DEF ProgressInv
  <2> QED
    BY <1>0, <1>2, <1>4, <1>5, <1>6, <2>3, StayingKeeps
<1>7. CASE CallHalted(c)
  <2>1. /\ runs' = [runs EXCEPT ![c.by].at = "halting"]
        /\ toolCalls' = {d \in toolCalls : d.by # c.by \/ d.at = "running"}
        /\ c.at = "asked"
    BY <1>7 DEF CallHalted, HaltRun, RunGoes, Refusable
  <2>2. c.by \in AgentRuns /\ runs[c.by].at = "calling"
    BY <1>1, <2>1 DEF ProgressInv
  <2>3. runs'[c.by].at = "halting" /\ \A r \in AgentRuns : r # c.by => runs'[r] = runs[r]
    BY <1>1, <1>3, <2>1, <2>2
  <2>4. AskedCallsWait' /\ OnlyTheTurnDelegates'
    BY <1>1, <1>2, <2>1, <2>2, <2>3 DEF ProgressInv
  <2>5. \A s \in SubRuns : StaysOrEnds(s)
    BY <1>2, <1>4, <1>5, <2>3
  <2> QED
    BY <1>0, <2>4, <2>5, StayingKeeps
<1>8. CASE CallStarts(c) /\ c.tool = "delegate"
  <2>1. PICK tasks \in (SUBSET SubRuns) \ {{}} :
          runs' = [r \in AgentRuns |-> IF r \in tasks THEN [runs[r] EXCEPT !.at = "queued"] ELSE runs[r]]
    BY <1>8 DEF CallStarts
  <2>2. toolCalls' = (toolCalls \ {c}) \cup {[c EXCEPT !.at = "running"]} /\ c.at = "asked"
    BY <1>8 DEF CallStarts, Starts, Refusable
  <2>3. c.by = TurnRun /\ \A s \in SubRuns : runs[s].at = "idle"
    BY <1>8, <2>2 DEF ProgressInv
  <2>4. \A s \in tasks : runs'[s].at = "queued" /\ runs'[s].knows = runs[s].knows
    BY <1>1, <1>2, <1>3, <2>1
  <2>5. \A r \in AgentRuns \ tasks : runs'[r] = runs[r]
    BY <2>1
  <2>6. \A s \in SubRuns : StaysOrEnds(s)
    BY <1>2, <1>4, <1>5, <2>3, <2>4, <2>5
  <2>7. c \in [by: AgentRuns, tool: UNION {ToolsOf(r) : r \in AgentRuns}, at: {"asked", "running"}]
        /\ \A d \in toolCalls : d \in [by: AgentRuns, tool: UNION {ToolsOf(r) : r \in AgentRuns}, at: {"asked", "running"}]
    BY <1>0 DEF BudgetInv, SubagentTypeOK
  <2>8. [c EXCEPT !.at = "running"].at = "running" /\ [c EXCEPT !.at = "running"].by = c.by
    BY <2>7
  <2>9. OnlyTheTurnDelegates'
    BY <2>2, <2>3, <2>8 DEF ProgressInv
  <2>10. ASSUME NEW d \in toolCalls', d.at = "asked"
         PROVE  runs'[d.by].at = "calling" /\ d.tool # "delegate"
    <3>1. d \in toolCalls /\ d # c
      BY <2>2, <2>8, <2>10
    <3>2. d.tool = "delegate" => d.by = TurnRun
      BY <3>1 DEF ProgressInv
    <3>3. d.tool # "delegate"
      BY <1>8, <2>2, <2>3, <2>7, <2>10, <3>1, <3>2
    <3>4. runs[d.by].at = "calling" /\ d.by \in AgentRuns
      BY <1>1, <2>10, <3>1 DEF ProgressInv
    <3>5. d.by \notin tasks
      BY <2>3, <3>4
    <3> QED
      BY <2>5, <3>3, <3>4, <3>5
  <2> QED
    BY <1>0, <2>6, <2>9, <2>10, StayingKeeps
<1>9. CASE CallRefused(c) \/ (CallStarts(c) /\ c.tool # "delegate") \/ SlackCallEnds(c) \/ StreamStarts(c)
           \/ Reports(c) \/ Delegated(c) \/ ProgramStarts(c) \/ ProgramEnds(c)
  BY <1>6, <1>9 DEF CallRefused, CallStarts, SlackCallEnds, StreamStarts, Reports, Delegated, ProgramStarts,
                    ProgramEnds, Drop, Starts, Ends
<1> QED
  BY <1>7, <1>8, <1>9

(* Subagents and kevinton begin; what outlives a subagent is merged. *)
LEMMA BeginStepKeepsProgress ==
  ASSUME ProgressInv,
         (\E s \in SubRuns : RunSubagent(s) \/ MergeBack(s)) \/ SpawnKevinton \/ AskToStop
  PROVE  ProgressInv'
<1>0. BudgetInv /\ BudgetInv'
  BY BeginStepKeepsBudget DEF ProgressInv
<1>1. runs \in [AgentRuns -> RunState] /\ runDeps \in [AgentRuns -> RunDeps]
      /\ (\A d \in toolCalls : d.by \in AgentRuns)
  BY <1>0 DEF BudgetInv, SubagentTypeOK
<1>2. SubRuns \subseteq AgentRuns /\ TurnRun \notin SubRuns /\ KevintonRun \notin SubRuns
      /\ TurnRun \in AgentRuns /\ KevintonRun \in AgentRuns
  BY SubagentAssumption DEF AgentRuns
<1>3. \A r \in AgentRuns : DOMAIN runs[r] = {"at", "attempts", "knows", "seen"}
  BY <1>1 DEF RunState
<1>4. \A r \in AgentRuns : DOMAIN runDeps[r] = {"stopped", "keepalive", "slack", "kept", "used"}
  BY <1>1 DEF RunDeps
<1>5. UNCHANGED <<toolCalls, roundsDone>>
  BY DEF RunSubagent, MergeBack, SpawnKevinton, AskToStop
<1> USE DEF StaysOrEnds, AskedCallsWait, OnlyTheTurnDelegates
<1>6. ASSUME NEW r \in AgentRuns, runs[r].at \notin {"calling"}, r \in SubRuns => runs[r].at # "idle",
             \A q \in AgentRuns : q # r => runs'[q] = runs[q]
      PROVE  AskedCallsWait' /\ OnlyTheTurnDelegates'
  <2>1. \A d \in toolCalls : d.at = "asked" => d.by # r
    BY <1>6 DEF ProgressInv
  <2>2. ASSUME NEW d \in toolCalls, d.at = "asked", d.tool = "delegate"
        PROVE  \A s \in SubRuns : runs'[s].at = "idle"
    <3>1. \A s \in SubRuns : runs[s].at = "idle" /\ s # r
      BY <1>6, <2>2 DEF ProgressInv
    <3> QED
      BY <1>2, <1>6, <3>1
  <2> QED
    BY <1>1, <1>5, <1>6, <2>1, <2>2 DEF ProgressInv
<1>7. ASSUME NEW s \in SubRuns, RunSubagent(s) PROVE ProgressInv'
  <2>1. /\ runs[s].at = "queued" /\ runs' = [runs EXCEPT ![s].at = "asking"]
        /\ runDeps' = [runDeps EXCEPT ![s] = SubagentDeps]
    BY <1>7 DEF RunSubagent, RunGoes
  <2>2. \A q \in AgentRuns : q # s => runs'[q] = runs[q] /\ runDeps'[q] = runDeps[q]
    BY <1>1, <2>1
  <2>3. runs'[s].at = "asking" /\ runs'[s].knows = runs[s].knows
    BY <1>1, <1>2, <1>3, <2>1
  <2>4. runDeps'[s].kept = NoCheckpoint
    BY <1>1, <1>2, <1>4, <2>1 DEF SubagentDeps
  <2>5. AskedCallsWait' /\ OnlyTheTurnDelegates'
    BY <1>2, <1>6, <2>1, <2>2
  <2>6. runs[s].knows = [of |-> s, rounds |-> 0] /\ roundsDone[s] = 0
    BY <2>1 DEF ProgressInv, NewTasksAreNew
  <2>7. \A q \in SubRuns : q # s => runs'[q] = runs[q] /\ runDeps'[q] = runDeps[q]
    BY <1>2, <2>2
  <2>8. NewTasksAreNew'
    BY <1>5, <2>3, <2>7 DEF ProgressInv, NewTasksAreNew
  <2>9. CheckpointIsLatest'
    BY <1>5, <2>4, <2>6, <2>7 DEF ProgressInv, CheckpointIsLatest, ResumeFrom
  <2>10. ProgressIsKept'
    BY <1>5, <2>3, <2>6, <2>7 DEF ProgressInv, ProgressIsKept
  <2> QED
    BY <1>0, <2>5, <2>8, <2>9, <2>10 DEF ProgressInv
<1>8. ASSUME NEW s \in SubRuns, MergeBack(s) PROVE ProgressInv'
  <2>1. /\ runs[s].at = "merging" /\ runs' = [runs EXCEPT ![s].at = "over"]
        /\ runDeps' = [runDeps EXCEPT ![TurnRun].keepalive = runs[s].seen \/ runDeps[s].keepalive]
    BY <1>8 DEF MergeBack, RunGoes
  <2>2. \A q \in AgentRuns : q # s => runs'[q] = runs[q]
    BY <1>1, <2>1
  <2>3. runs'[s].at = "over"
    BY <1>1, <1>2, <1>3, <2>1
  <2>4. \A q \in SubRuns : runDeps'[q] = runDeps[q]
    BY <1>1, <1>2, <2>1
  <2>5. AskedCallsWait' /\ OnlyTheTurnDelegates'
    BY <1>2, <1>6, <2>1, <2>2
  <2>6. \A q \in SubRuns : StaysOrEnds(q)
    BY <1>2, <1>5, <2>2, <2>3, <2>4
  <2> QED
    BY <1>0, <2>5, <2>6, StayingKeeps
<1>9. CASE SpawnKevinton
  <2>1. /\ runs[KevintonRun].at = "idle" /\ runs' = [runs EXCEPT ![KevintonRun].at = "asking"]
        /\ runDeps' = [runDeps EXCEPT ![KevintonRun] = runDeps[TurnRun]]
    BY <1>9 DEF SpawnKevinton, RunGoes
  <2>2. \A q \in AgentRuns : q # KevintonRun => runs'[q] = runs[q] /\ runDeps'[q] = runDeps[q]
    BY <1>1, <2>1
  <2>3. AskedCallsWait' /\ OnlyTheTurnDelegates'
    BY <1>2, <1>6, <2>1, <2>2
  <2>4. \A q \in SubRuns : StaysOrEnds(q)
    BY <1>2, <1>5, <2>2
  <2> QED
    BY <1>0, <2>3, <2>4, StayingKeeps
<1>10. CASE AskToStop
  <2>1. UNCHANGED <<runs, runDeps>>
    BY <1>10 DEF AskToStop
  <2> QED
    BY <1>0, <1>5, <2>1, StayingKeeps DEF ProgressInv
<1> QED
  BY <1>7, <1>8, <1>9, <1>10

LEMMA ProgressStep == ProgressInv /\ [SubagentNext]_subagentVars => ProgressInv'
<1> SUFFICES ASSUME ProgressInv, [SubagentNext]_subagentVars PROVE ProgressInv'
  OBVIOUS
<1>1. CASE UNCHANGED subagentVars
  <2>1. BudgetInv'
    BY <1>1, BudgetStep DEF ProgressInv
  <2> QED
    BY <1>1, <2>1, StayingKeeps
    DEF ProgressInv, subagentVars, StaysOrEnds, AskedCallsWait, OnlyTheTurnDelegates
<1>2. CASE SubagentNext
  BY <1>2, RunStepKeepsProgress, CallStepKeepsProgress, BeginStepKeepsProgress DEF SubagentNext
<1> QED
  BY <1>1, <1>2

(* agent/subagents.py: a subagent goes on after a failed attempt from every *)
(* response it had finished, and never from another subagent's messages.    *)
THEOREM ASubagentKeepsItsProgress == SubagentSpec => []ProgressIsKept
<1>1. ProgressInv => ProgressIsKept
  BY DEF ProgressInv
<1> QED
  BY <1>1, ProgressAtFirst, ProgressStep, PTL DEF SubagentSpec
==============================================================================
