--------------------------- MODULE ProviderChain ---------------------------
(***************************************************************************)
(* Which model answers a turn (agent.py, provider_config.py): the order of *)
(* models to try, made from providers.json, the user's own endpoint        *)
(* (byok_store.py) and fallback_cache.json; the attempts; and everyone who *)
(* writes that cache: turns, Jev and image generation, the background      *)
(* probe and the maintainer's tests (provider_probe.py).                   *)
(*                                                                         *)
(* A turn runs in its own thread of the conversation, so a turn also names *)
(* the thread that hcai_status.py warns.                                   *)
(***************************************************************************)
EXTENDS Naturals, Sequences, FiniteSets, SequencesExt

CONSTANTS
  Models,       (* names of the fallback chain: "hcai_0", "groq", ...        *)
  Priority,     (* providers.json: the models in order                       *)
  Tagged,       (* the models that answer the turn's [!WITH:tag]             *)
  TagOnly,      (* the models that answer nothing else                       *)
  OwnerOnly,    (* the models only COOLTON_OWNER_USER_ID may use             *)
  Byok,         (* the user's own endpoint, as the chain names it            *)
  Jev,          (* hcai_jev: not a chat model, but cached and keyed as one   *)
  Families,
  Family,       (* provider_family of each model, and Jev's provider         *)
  FamilyKeys,   (* _configured_keys: each family's keys in order             *)
  Hcai,
  Turns,
  Kinds,        (* who starts a turn, and how: plain, tagged, owner, byok    *)
  Endpoints,    (* ids of one user's endpoints                               *)
  NoModel,
  MaxRetries,   (* max_retries                                               *)
  MaxRuns,      (* bound: turns started                                      *)
  MaxOthers     (* bound: what others do to the stores meanwhile             *)

Named == Models \cup {Jev}
Keys  == UNION {Range(FamilyKeys[f]) : f \in Families}

ASSUME ProviderChainAssumption ==
  /\ Priority \in Seq(Models)
  /\ {Tagged, TagOnly, OwnerOnly} \subseteq SUBSET Models
  /\ Byok \notin Named /\ NoModel \notin Named \cup {Byok} \cup Endpoints
  /\ Family \in [Named \cup {Byok} -> Families]
  /\ FamilyKeys \in [Families -> Seq(Keys)]
  /\ Kinds \subseteq {"plain", "tagged", "owner", "byok"}
  /\ MaxRetries \in Nat \ {0} /\ {MaxRuns, MaxOthers} \subseteq Nat

VARIABLES
  working,      (* the cache: the last provider that answered                *)
  dead,         (* the cache: providers in cooldown                          *)
  deadFamilies, (* the cache: families in cooldown                           *)
  outKeys,      (* the cache: keys whose account is out                      *)
  turn,         (* each turn's frame in _run_provider_chain                  *)
  probe,        (* refresh_fallback_cache: its results so far                *)
  side,         (* on_outage of Jev's preload or image generation            *)
  endpoints,    (* byok_store.json, one user's endpoints                     *)
  textEndpoint, (* ... and which one answers their turns                     *)
  imageEndpoint,
  warned,       (* hcai_status._last_warned: threads warned lately           *)
  chainSpent    (* history: the bounded events so far                        *)

cacheVars    == <<working, dead, deadFamilies, outKeys>>
endpointVars == <<endpoints, textEndpoint, imageEndpoint>>
chainVars    == <<cacheVars, turn, endpointVars, probe, side, warned, chainSpent>>

(* Where the frame stands, who started it, the order and the model and      *)
(* attempt it is at, each family's key in its configs, what went out this   *)
(* turn (dead_families_this_turn); and, as history, the models called.      *)
Frame(l, k, o, keys) ==
  [pc |-> l, kind |-> k, order |-> o, at |-> 1, attempt |-> 1, keys |-> keys,
   out |-> {}, called |-> {}]
NoKeys  == [f \in Families |-> NoModel]
NoFrame == Frame("idle", "plain", <<>>, NoKeys)
Probe(l, good, bad) == [pc |-> l, good |-> good, bad |-> bad]
Side(l, f, k) == [pc |-> l, family |-> f, key |-> k]
NoSide == Side("idle", {}, {})

(* "alive or provider_order": a filter that leaves nothing is not applied.  *)
Unless(s, t) == IF s = <<>> THEN t ELSE s

(* What of s is in T, in the order of s: the filters of the orders, as a    *)
(* recursive function, for the proofs to follow.                           *)
Sifted(s, T) ==
  LET kept[i \in 0..Len(s)] ==
        IF i = 0 THEN <<>> ELSE IF s[i] \in T THEN Append(kept[i - 1], s[i]) ELSE kept[i - 1]
  IN  kept[Len(s)]
Without(s, X) == Sifted(s, Range(s) \ X)

(* provider_api_key: the first key that is not out, or the first of all.    *)
UsableKeys(f) == Without(FamilyKeys[f], outKeys)
ApiKey(f) == IF UsableKeys(f) = <<>> THEN Head(FamilyKeys[f]) ELSE Head(UsableKeys(f))
ApiKeys == [f \in Families |-> IF FamilyKeys[f] = <<>> THEN NoModel ELSE ApiKey(f)]

(* build_provider_order: what the turn may use, in order.                   *)
Serves(m, k) ==
  /\ IF k = "tagged" THEN m \in Tagged ELSE m \notin TagOnly
  /\ m \in OwnerOnly => k = "owner"
  /\ FamilyKeys[Family[m]] # <<>>
Chat(k) == Sifted(Priority, {m \in Models : Serves(m, k)})
Own(k)  == IF k = "byok" /\ textEndpoint # NoModel THEN <<Byok>> ELSE <<>>

InFamily(f) == {m \in Named \cup {Byok} : Family[m] = f}
InDeadFamily == UNION {InFamily(f) : f \in deadFamilies}

----------------------------------------------------------------------------
(* fallback_cache.py: each is one locked read and write of the file.        *)

(* Mutant of MarkDead: a dead provider stays the preferred one. *)
MarkDeadOnly(m) == dead' = dead \cup {m} /\ UNCHANGED <<working, deadFamilies, outKeys>>

MarkDead(m) ==
  /\ dead' = dead \cup {m}
  /\ working' = IF working = m THEN NoModel ELSE working
  /\ UNCHANGED <<deadFamilies, outKeys>>

MarkFamilyDead(f) ==
  /\ deadFamilies' = deadFamilies \cup {f}
  /\ working' = IF working # NoModel /\ Family[working] = f THEN NoModel ELSE working
  /\ UNCHANGED <<dead, outKeys>>

(* provider_family("hcai_jev") is itself, so Jev clears no family.          *)
MarkAlive(m) ==
  /\ dead' = dead \ {m}
  /\ deadFamilies' = IF m = Jev THEN deadFamilies ELSE deadFamilies \ {Family[m]}
  /\ UNCHANGED <<working, outKeys>>

SetWorkingProvider(m) ==
  /\ working' = m
  /\ dead' = dead \ {m}
  /\ deadFamilies' = deadFamilies \ {Family[m]}
  /\ UNCHANGED outKeys

MarkKeyOut(k) == outKeys' = outKeys \cup {k} /\ UNCHANGED <<working, dead, deadFamilies>>

(* The first of the chain that passed is preferred from now on.             *)
FirstOf(good) ==
  Priority[CHOOSE i \in DOMAIN Priority :
             Priority[i] \in good /\ \A j \in DOMAIN Priority : Priority[j] \in good => i <= j]

RefreshFromResults(good, bad) ==
  /\ working' = IF good = {} THEN NoModel ELSE FirstOf(good)
  /\ dead' = (dead \ good) \cup bad
  /\ deadFamilies' = deadFamilies \ {Family[m] : m \in good}
  /\ UNCHANGED outKeys

----------------------------------------------------------------------------
ChainInit ==
  /\ working = NoModel /\ dead = {} /\ deadFamilies = {} /\ outKeys = {}
  /\ turn = [t \in Turns |-> NoFrame]
  /\ probe = Probe("idle", {}, {})
  /\ side = NoSide
  /\ endpoints = {} /\ textEndpoint = NoModel /\ imageEndpoint = NoModel
  /\ warned = {}
  /\ chainSpent = [k \in {"runs", "others"} |-> 0]

Quiet == UNCHANGED <<endpointVars, probe, side, chainSpent>>

Other == chainSpent.others < MaxOthers /\ chainSpent' = [chainSpent EXCEPT !.others = @ + 1]
Meanwhile == Other /\ UNCHANGED <<endpointVars, probe, side>>

(* _build_provider_order: the candidates, and the keys to call them with.   *)
BuildOrder(t, k) ==
  /\ turn[t].pc \in {"idle", "failed"}
  /\ Own(k) \o Chat(k) # <<>>
  /\ turn' = [turn EXCEPT ![t] = Frame("skip", k, Own(k) \o Chat(k), ApiKeys)]
  /\ chainSpent.runs < MaxRuns /\ chainSpent' = [chainSpent EXCEPT !.runs = @ + 1]
  /\ UNCHANGED <<cacheVars, endpointVars, probe, side, warned>>

(* get_dead_families, whatever routed the turn here; a tag or the user's    *)
(* own endpoint ends it there.                                              *)
SkipDeadFamilies(t) ==
  LET o == Unless(Without(turn[t].order, InDeadFamily), turn[t].order) IN
  /\ turn[t].pc = "skip"
  /\ turn' = [turn EXCEPT ![t].order = o,
       ![t].pc = IF Head(o) = Byok \/ turn[t].kind = "tagged" THEN "trying" ELSE "prefer"]
  /\ UNCHANGED <<cacheVars, warned>> /\ Quiet

(* get_dead_providers, then get_working_provider goes first.                *)
SkipDeadProviders(t) ==
  /\ turn[t].pc = "prefer"
  /\ LET alive == Unless(Without(turn[t].order, dead), turn[t].order)
         first == Sifted(alive, {working})
     IN turn' = [turn EXCEPT ![t].order = first \o Without(alive, {working}), ![t].pc = "trying"]
  /\ UNCHANGED <<cacheVars, warned>> /\ Quiet

----------------------------------------------------------------------------
(* _run_provider_chain: one call of one model, by what came of it.          *)
Model(t)  == turn[t].order[turn[t].at]
KeyFor(t) == turn[t].keys[Family[Model(t)]]

(* The frame once the model was called. *)
Called(t) == [turn[t] EXCEPT !.called = @ \cup {Model(t)}]

(* The models still to try: not those of a family that went out this turn.  *)
LaterModels(r) == {i \in (r.at + 1)..Len(r.order) : Family[r.order[i]] \notin r.out}

(* Mutant of NextModel: the model after a failed one is passed over.        *)
NextModelButOne(r) ==
  LET later == LaterModels([r EXCEPT !.at = @ + 1]) IN
  IF later = {} THEN [r EXCEPT !.pc = "failed"]
  ELSE [r EXCEPT !.pc = "trying", !.attempt = 1, !.at = CHOOSE i \in later : \A j \in later : i <= j]

(* The loop's next model, or "All AI providers failed". *)
NextModel(r) ==
  LET later == LaterModels(r) IN
  IF later = {} THEN [r EXCEPT !.pc = "failed"]
  ELSE [r EXCEPT !.pc = "trying", !.attempt = 1, !.at = CHOOSE i \in later : \A j \in later : i <= j]

(* The next attempt of the same model, if there is one.                     *)
NextAttempt(r) ==
  IF r.attempt = MaxRetries THEN NextModel(r)
  ELSE [r EXCEPT !.pc = "trying", !.attempt = @ + 1]

Calls(t) == turn[t].pc = "trying"
GoesOn(t, r) == turn' = [turn EXCEPT ![t] = r]

Answers(t) ==
  /\ Calls(t)
  /\ GoesOn(t, NoFrame)
  /\ IF Model(t) = Byok THEN UNCHANGED cacheVars
     ELSE IF turn[t].kind = "tagged" THEN MarkAlive(Model(t)) ELSE SetWorkingProvider(Model(t))
  /\ UNCHANGED warned /\ Quiet

(* A halted run, or an error that is not the provider's. *)
Raises(t) ==
  /\ Calls(t)
  /\ GoesOn(t, NoFrame)
  /\ UNCHANGED <<cacheVars, warned>> /\ Quiet

(* on_outage of a key: mark_key_out, and then get_out_keys.                 *)
KeyIsOut(t) ==
  /\ Calls(t)
  /\ Model(t) # Byok
  /\ MarkKeyOut(KeyFor(t))
  /\ GoesOn(t, [Called(t) EXCEPT !.pc = "rekeying"])
  /\ UNCHANGED warned /\ Quiet

OtherKeys(f, k) == Without(UsableKeys(f), {k})

(* Every model of the family uses the new key from now on.                  *)
SwitchKey(t) ==
  LET f == Family[Model(t)] IN
  /\ turn[t].pc = "rekeying"
  /\ OtherKeys(f, KeyFor(t)) # <<>>
  /\ GoesOn(t, NextAttempt([turn[t] EXCEPT !.keys[f] = Head(OtherKeys(f, KeyFor(t)))]))
  /\ UNCHANGED <<cacheVars, warned>> /\ Quiet

(* The family is out for the rest of the turn, and its thread is told once  *)
(* in a while when it is HCAI.                                              *)
GiveUpFamily(t, r, f) ==
  /\ MarkFamilyDead(f)
  /\ GoesOn(t, NextModel([r EXCEPT !.out = @ \cup {f}]))
  /\ warned' = IF f = Hcai THEN warned \cup {t} ELSE warned

NoKeyLeft(t) ==
  /\ turn[t].pc = "rekeying"
  /\ OtherKeys(Family[Model(t)], KeyFor(t)) = <<>>
  /\ GiveUpFamily(t, turn[t], Family[Model(t)])
  /\ Quiet

ProviderIsOut(t) ==
  /\ Calls(t)
  /\ Model(t) # Byok
  /\ GiveUpFamily(t, Called(t), Family[Model(t)])
  /\ Quiet

HardError(t) ==
  /\ Calls(t)
  /\ IF Model(t) = Byok THEN UNCHANGED cacheVars ELSE MarkDead(Model(t))
  /\ GoesOn(t, NextModel(Called(t)))
  /\ UNCHANGED warned /\ Quiet

RetryableError(t) ==
  /\ Calls(t)
  /\ GoesOn(t, NextAttempt(Called(t)))
  /\ UNCHANGED <<cacheVars, warned>> /\ Quiet

OtherError(t) ==
  /\ Calls(t)
  /\ GoesOn(t, NextModel(Called(t)))
  /\ UNCHANGED <<cacheVars, warned>> /\ Quiet

(* check_and_warn_async, from the turn's start: a low balance, or HCAI      *)
(* marked out.                                                              *)
WarnAtStart(t) ==
  /\ turn[t].pc # "idle"
  /\ warned' = warned \cup {t}
  /\ UNCHANGED <<cacheVars, turn>> /\ Meanwhile

----------------------------------------------------------------------------
(* refresh_fallback_cache and "Test All": every model of the plain chain is *)
(* probed, one family's one after the other, and the results are applied    *)
(* together when the last has come.                                         *)
StartProbe ==
  /\ probe.pc = "idle"
  /\ probe' = Probe("probing", {}, {})
  /\ Other
  /\ UNCHANGED <<cacheVars, turn, endpointVars, side, warned>>

Probed == probe.good \cup probe.bad
ToProbe == {i \in DOMAIN Priority : Serves(Priority[i], "plain")}

ProbeModel(m, ok) ==
  /\ probe.pc = "probing"
  /\ m \notin Probed
  /\ \E i \in ToProbe :
       /\ Priority[i] = m
       /\ \A j \in ToProbe : j < i /\ Family[Priority[j]] = Family[m] => Priority[j] \in Probed
  /\ probe' = IF ok THEN [probe EXCEPT !.good = @ \cup {m}] ELSE [probe EXCEPT !.bad = @ \cup {m}]
  /\ UNCHANGED <<cacheVars, turn, endpointVars, side, warned, chainSpent>>

ApplyProbe ==
  /\ probe.pc = "probing"
  /\ Probed = {Priority[i] : i \in ToProbe}
  /\ RefreshFromResults(probe.good, probe.bad)
  /\ probe' = Probe("idle", {}, {})
  /\ UNCHANGED <<turn, endpointVars, side, warned, chainSpent>>

(* "Test a Provider", Jev's preload and Jev's probe: one of them is marked. *)
TestModel(m, ok) ==
  /\ IF ok THEN MarkAlive(m) ELSE MarkDead(m)
  /\ UNCHANGED <<turn, warned>> /\ Meanwhile

(* on_outage of Jev or an image model, in its steps. *)
SideKeyOut(f, k) ==
  /\ side = NoSide
  /\ k \in Range(FamilyKeys[f])
  /\ MarkKeyOut(k)
  /\ side' = Side("rekeying", {f}, {k})
  /\ Other
  /\ UNCHANGED <<turn, endpointVars, probe, warned>>

SideRekeys(f, k) ==
  /\ side = Side("rekeying", {f}, {k})
  /\ side' = NoSide
  /\ IF OtherKeys(f, k) = <<>> THEN MarkFamilyDead(f) ELSE UNCHANGED cacheVars
  /\ UNCHANGED <<turn, endpointVars, probe, warned, chainSpent>>

SideFamilyOut(f) ==
  /\ FamilyKeys[f] # <<>>
  /\ MarkFamilyDead(f)
  /\ UNCHANGED <<turn, warned>> /\ Meanwhile

(* An entry is older than its TTL, or a thread's warning than its interval. *)
Forget ==
  /\ \/ working' = NoModel /\ UNCHANGED <<dead, deadFamilies, outKeys, warned>>
     \/ \E m \in dead : dead' = dead \ {m} /\ UNCHANGED <<working, deadFamilies, outKeys, warned>>
     \/ \E f \in deadFamilies : deadFamilies' = deadFamilies \ {f} /\ UNCHANGED <<working, dead, outKeys, warned>>
     \/ \E k \in outKeys : outKeys' = outKeys \ {k} /\ UNCHANGED <<working, dead, deadFamilies, warned>>
     \/ \E t \in warned : warned' = warned \ {t} /\ UNCHANGED cacheVars
  /\ UNCHANGED turn /\ Meanwhile

ClearCache ==
  /\ working' = NoModel /\ dead' = {} /\ deadFamilies' = {} /\ outKeys' = {}
  /\ UNCHANGED <<turn, warned>> /\ Meanwhile

----------------------------------------------------------------------------
(* byok_store.py, one user's buttons. *)
StoreOnly == Other /\ UNCHANGED <<cacheVars, turn, probe, side, warned>>

AddEndpoint(e) ==
  /\ e \notin endpoints
  /\ endpoints' = endpoints \cup {e}
  /\ textEndpoint' = IF textEndpoint = NoModel THEN e ELSE textEndpoint
  /\ UNCHANGED imageEndpoint /\ StoreOnly

(* What used a deleted endpoint uses the oldest one left, or none.          *)
DeleteEndpoint(e) ==
  \E heir \in IF endpoints \ {e} = {} THEN {NoModel} ELSE endpoints \ {e} :
    /\ endpoints' = endpoints \ {e}
    /\ textEndpoint' = IF textEndpoint = e THEN heir ELSE textEndpoint
    /\ imageEndpoint' = IF imageEndpoint = e THEN heir ELSE imageEndpoint
    /\ StoreOnly

SetTextEndpoint(e) ==
  /\ e \in endpoints \cup {NoModel}
  /\ textEndpoint' = e
  /\ UNCHANGED <<endpoints, imageEndpoint>> /\ StoreOnly

SetImageEndpoint(e) ==
  /\ e \in endpoints \cup {NoModel}
  /\ imageEndpoint' = e
  /\ UNCHANGED <<endpoints, textEndpoint>> /\ StoreOnly

----------------------------------------------------------------------------
TurnStep(t) ==
  \/ \E k \in Kinds : BuildOrder(t, k)
  \/ SkipDeadFamilies(t) \/ SkipDeadProviders(t)
  \/ Answers(t) \/ Raises(t)
  \/ KeyIsOut(t) \/ SwitchKey(t) \/ NoKeyLeft(t) \/ ProviderIsOut(t)
  \/ HardError(t) \/ RetryableError(t) \/ OtherError(t)
  \/ WarnAtStart(t)

CacheStep ==
  \/ StartProbe \/ ApplyProbe
  \/ \E m \in Models, ok \in BOOLEAN : ProbeModel(m, ok)
  \/ \E m \in Named, ok \in BOOLEAN : TestModel(m, ok)
  \/ \E f \in Families : SideFamilyOut(f) \/ \E k \in Keys : SideKeyOut(f, k) \/ SideRekeys(f, k)
  \/ Forget \/ ClearCache

EndpointStep ==
  \/ \E e \in Endpoints : AddEndpoint(e) \/ DeleteEndpoint(e)
  \/ \E e \in Endpoints \cup {NoModel} : SetTextEndpoint(e) \/ SetImageEndpoint(e)

ChainNext == (\E t \in Turns : TurnStep(t)) \/ CacheStep \/ EndpointStep

ChainSpec == ChainInit /\ [][ChainNext]_chainVars

----------------------------------------------------------------------------
ChainTypeOK ==
  /\ working \in Models \cup {NoModel}
  /\ dead \subseteq Named /\ deadFamilies \subseteq Families /\ outKeys \subseteq Keys
  /\ \A t \in Turns :
       /\ turn[t].pc \in {"idle", "skip", "prefer", "trying", "rekeying", "failed"}
       /\ turn[t].kind \in Kinds \cup {"plain"}
       /\ turn[t].order \in Seq(Models \cup {Byok})
       /\ turn[t].pc # "idle" => turn[t].at \in 1..Len(turn[t].order)
       /\ turn[t].attempt \in 1..MaxRetries
       /\ turn[t].keys \in [Families -> Keys \cup {NoModel}]
       /\ turn[t].called \subseteq Models \cup {Byok}
       /\ turn[t].out \subseteq Families
  /\ probe.pc \in {"idle", "probing"} /\ {probe.good, probe.bad} \subseteq SUBSET Models
  /\ side.pc \in {"idle", "rekeying"} /\ side.family \subseteq Families /\ side.key \subseteq Keys
  /\ endpoints \subseteq Endpoints
  /\ {textEndpoint, imageEndpoint} \subseteq endpoints \cup {NoModel}
  /\ warned \subseteq Turns
  /\ chainSpent \in [{"runs", "others"} -> Nat]

(* The provider every turn tries first is not one the cache says to skip,   *)
(* whatever order turns, probes, tests and Jev write it in.                 *)
WorkingIsNotDead == working # NoModel => working \notin dead /\ Family[working] \notin deadFamilies

(* A turn fails only when each model of its order was called, or belongs to *)
(* a family that was found out during this very turn.                       *)
EveryModelTried ==
  \A t \in Turns : turn[t].pc = "failed" =>
    \A i \in 1..Len(turn[t].order) :
      turn[t].order[i] \in turn[t].called \/ Family[turn[t].order[i]] \in turn[t].out
============================================================================
