-------------------------- MODULE Surfaces_proofs --------------------------
(***************************************************************************)
(* What is proved of what people see of a turn: huddles, the plan a turn   *)
(* shows in its thread, and the web UI's conversations.  Each part is      *)
(* proved of its own specification, for any number of people, messages,    *)
(* steps, losses and restarts: they share no variable.                     *)
(***************************************************************************)
EXTENDS Huddle, PlanBlock, WebConversation, TLAPS

----------------------------------------------------------------------------
(* Huddles: a coolton that is in a call can be reached there, and a kick    *)
(* reaches the join it found.                                               *)

BeforeSession == {"idle", "prompting", "deciding", "checking", "entering", "registering"}
JoinUnderWay  == {"checking", "entering", "registering", "waiting"}
JoinPlaces    == BeforeSession \cup JoinUnderWay \cup {"leaving", "over"}

(* A join that entered a huddle knows which. *)
JoinersTyped ==
  /\ joiner \in [Joiners -> [pc : JoinPlaces, for : 0..MaxHuddles, in : 0..MaxHuddles]]
  /\ \A t \in Joiners :
       /\ joiner[t].pc = "prompting" => joiner[t].for # 0
       /\ joiner[t].pc = "registering" \/ call[t].start # "none" => joiner[t].in # 0

SessionsFollowJoins ==
  \A t \in Joiners :
    /\ joiner[t].pc \in BeforeSession => call[t].start = "none"
    /\ joiner[t].pc = "waiting" => call[t].start # "none"
    /\ call[t].link \/ call[t].reconnecting => call[t].start # "none"
    /\ call[t].stop # "no" => call[t].asked

SessionsAreJoined ==
  \A h \in Huddles, t \in Joiners : sessionOf[h] = t => joiner[t].in = h /\ call[t].start # "none"

(* A session nobody asked to stop is the one its huddle is known by. *)
SessionsAreKnown ==
  \A t \in Joiners : call[t].start # "none" /\ ~call[t].asked => sessionOf[joiner[t].in] = t

(* One join per key, and it is marked. *)
Holding(t) == joiner[t].pc \in JoinUnderWay \cup {"leaving"}

KeysAreHeld ==
  \A t \in Joiners : Holding(t) =>
    /\ joiningKeys[KeyOf(t)] # "no"
    /\ \A u \in Joiners : Holding(u) /\ KeyOf(u) = KeyOf(t) => u = t

(* A kick that found a join has stopped its session, is about to, or has    *)
(* left its mark for the join to see, unless there never was a session; or  *)
(* its second look will tell whether it misses a join in the huddle.        *)
KicksArrive ==
  \A t \in kickedJoins \ missedJoins :
    \/ call[t].asked
    \/ kicking # 0 /\ sessionOf[kicking] = t
    \/ kicking # 0 /\ joiner[t].pc = "registering" /\ joiner[t].in = kicking
    \/ joiner[t].pc \in JoinUnderWay /\ joiningKeys[KeyOf(t)] = "kicked"
    \/ joiner[t].pc \in {"leaving", "over"} /\ call[t].start = "none"

(* The inductive invariant: that a session is reachable rests on no join    *)
(* entering twice and no session being forgotten but one told to stop, and  *)
(* that a kick arrives on the key being the join's alone.                   *)
HuddleInv ==
  /\ HuddleTypeOK /\ JoinersTyped /\ SessionsFollowJoins /\ SessionsAreJoined /\ SessionsAreKnown
  /\ KeysAreHeld /\ KicksArrive

LEMMA HuddleAtFirst == HuddleInit => HuddleInv
<1> SUFFICES ASSUME HuddleInit PROVE HuddleInv
  OBVIOUS
<1> USE HuddleAssumption DEF HuddleInit
<1>1. Nobody \notin Joiners
  BY DEF Joiners
<1>2. HuddleTypeOK
  BY DEF HuddleTypeOK, Huddles, Starting
<1>3. JoinersTyped
  BY DEF JoinersTyped, JoinPlaces, BeforeSession, JoinUnderWay
<1>4. SessionsFollowJoins /\ SessionsAreJoined /\ SessionsAreKnown
  BY <1>1 DEF SessionsFollowJoins, SessionsAreJoined, SessionsAreKnown
<1>5. KeysAreHeld /\ KicksArrive
  BY DEF KeysAreHeld, KicksArrive, Holding, JoinUnderWay
<1> QED
  BY <1>2, <1>3, <1>4, <1>5 DEF HuddleInv

LEMMA KeysAreKeys == HuddleInv => \A t \in Joiners : KeyOf(t) \in Huddles \cup {Starting}
BY HuddleAssumption DEF HuddleInv, JoinersTyped, KeyOf, Huddles, Starting

(* A step of one join that changes neither a session nor a mark. *)
LEMMA JoinMoves ==
  ASSUME HuddleInv, NEW t \in Joiners, NEW r \in [pc : JoinPlaces, for : 0..MaxHuddles, in : 0..MaxHuddles],
         joiner' = [joiner EXCEPT ![t] = r], UNCHANGED <<call, joiningKeys, sessionOf, kicking, kickHistory>>,
         joiner[t].pc \in BeforeSession, r.pc # "waiting",
         r.for = joiner[t].for \/ joiner[t].pc = "idle", joiner[t].pc # "registering",
         r.pc \in JoinUnderWay \cup {"leaving"} => joiner[t].pc \in JoinUnderWay,
         joiner[t].pc \in JoinUnderWay => r.pc \in JoinUnderWay \cup {"leaving"},
         r.pc = "prompting" => r.for # 0, r.pc = "registering" => r.in # 0
  PROVE  /\ JoinersTyped' /\ SessionsFollowJoins' /\ SessionsAreJoined' /\ SessionsAreKnown'
         /\ KeysAreHeld' /\ KicksArrive'
<1>1. joiner'[t] = r /\ \A u \in Joiners : u # t => joiner'[u] = joiner[u]
  BY DEF HuddleInv, JoinersTyped
<1>2. call[t].start = "none"
  BY DEF HuddleInv, SessionsFollowJoins
<1>3. JoinersTyped'
  BY <1>1, <1>2 DEF HuddleInv, JoinersTyped
<1>4. SessionsFollowJoins'
  BY <1>1, <1>2 DEF HuddleInv, SessionsFollowJoins
<1>5. SessionsAreJoined' /\ SessionsAreKnown'
  BY <1>1, <1>2 DEF HuddleInv, SessionsAreJoined, SessionsAreKnown
<1>6. \A u \in Joiners : /\ Holding(u)' => Holding(u) /\ KeyOf(u)' = KeyOf(u)
                         /\ u # t => Holding(u)' = Holding(u) /\ KeyOf(u)' = KeyOf(u)
  BY <1>1 DEF Holding, KeyOf, JoinUnderWay
<1>7. KeysAreHeld'
  BY <1>6 DEF HuddleInv, KeysAreHeld
<1>8. ASSUME NEW u \in kickedJoins \ missedJoins
      PROVE  \/ call[u].asked
             \/ kicking # 0 /\ sessionOf[kicking] = u
             \/ kicking # 0 /\ joiner'[u].pc = "registering" /\ joiner'[u].in = kicking
             \/ joiner'[u].pc \in JoinUnderWay /\ joiningKeys[KeyOf(u)'] = "kicked"
             \/ joiner'[u].pc \in {"leaving", "over"} /\ call[u].start = "none"
  <2>1. u \in Joiners
    BY DEF HuddleInv, HuddleTypeOK
  <2>2. CASE u # t
    BY <1>1, <1>6, <2>1, <2>2 DEF HuddleInv, KicksArrive
  <2>3. CASE u = t /\ joiner[t].pc \in JoinUnderWay
    BY <1>1, <1>2, <2>1, <2>3 DEF HuddleInv, KicksArrive, KeyOf, JoinUnderWay
  <2>4. CASE u = t /\ joiner[t].pc \notin JoinUnderWay
    BY <1>1, <1>2, <2>1, <2>4 DEF HuddleInv, KicksArrive, BeforeSession
  <2> QED
    BY <2>2, <2>3, <2>4
<1>9. KicksArrive'
  BY <1>8 DEF KicksArrive, kickHistory
<1> QED
  BY <1>3, <1>4, <1>5, <1>7, <1>9

(* A step of the calls: a session once made stays one, a request to stop    *)
(* stays one, and only a session asked to stop is forgotten.                *)
LEMMA CallsMove ==
  ASSUME HuddleInv, UNCHANGED <<joiner, joiningKeys, kicking, kickHistory>>,
         \A h \in Huddles : \/ sessionOf'[h] = sessionOf[h]
                            \/ sessionOf'[h] = Nobody /\ sessionOf[h] \in Joiners /\ call'[sessionOf[h]].asked,
         \A t \in Joiners : /\ call'[t].start = "none" <=> call[t].start = "none"
                            /\ call[t].asked => call'[t].asked
                            /\ call'[t].link \/ call'[t].reconnecting => call[t].start # "none"
                            /\ call'[t].stop # "no" => call'[t].asked
  PROVE  /\ JoinersTyped' /\ SessionsFollowJoins' /\ SessionsAreJoined' /\ SessionsAreKnown'
         /\ KeysAreHeld' /\ KicksArrive'
<1>0. Nobody \notin Joiners
  BY HuddleAssumption DEF Joiners
<1>1. JoinersTyped'
  BY DEF HuddleInv, JoinersTyped
<1>2. SessionsFollowJoins'
  BY DEF HuddleInv, SessionsFollowJoins
<1>3. SessionsAreJoined'
  BY <1>0 DEF HuddleInv, SessionsAreJoined
<1>4. SessionsAreKnown'
  <2>1. SUFFICES ASSUME NEW t \in Joiners, call'[t].start # "none", ~call'[t].asked
                 PROVE  sessionOf'[joiner[t].in] = t
    BY DEF SessionsAreKnown
  <2>2. sessionOf[joiner[t].in] = t
    BY <2>1 DEF HuddleInv, SessionsAreKnown
  <2>3. joiner[t].in \in Huddles
    BY <2>1, HuddleAssumption DEF HuddleInv, JoinersTyped, Huddles
  <2> QED
    BY <2>1, <2>2, <2>3
<1>5. KeysAreHeld'
  BY DEF HuddleInv, KeysAreHeld, Holding, KeyOf
<1>6. kicking # 0 => kicking \in Huddles
  BY HuddleAssumption DEF HuddleInv, HuddleTypeOK, Huddles
<1>7. KicksArrive'
  <2>1. kickedJoins \subseteq Joiners
    BY DEF HuddleInv, HuddleTypeOK
  <2>2. ASSUME NEW t \in kickedJoins \ missedJoins
        PROVE  \/ call'[t].asked
               \/ kicking # 0 /\ sessionOf'[kicking] = t
               \/ kicking # 0 /\ joiner[t].pc = "registering" /\ joiner[t].in = kicking
               \/ joiner[t].pc \in JoinUnderWay /\ joiningKeys[KeyOf(t)] = "kicked"
               \/ joiner[t].pc \in {"leaving", "over"} /\ call'[t].start = "none"
    BY <1>6, <2>1 DEF HuddleInv, KicksArrive
  <2>3. \A t : KeyOf(t)' = KeyOf(t)
    BY DEF KeyOf
  <2> QED
    BY <2>2, <2>3 DEF KicksArrive, kickHistory
<1> QED
  BY <1>1, <1>2, <1>3, <1>4, <1>5, <1>7

JoinRecord == [pc : JoinPlaces, for : 0..MaxHuddles, in : 0..MaxHuddles]

LEMMA JoinRecordMoves ==
  ASSUME joiner \in [Joiners -> JoinRecord], NEW t \in Joiners, NEW pc
  PROVE  /\ [joiner EXCEPT ![t].pc = pc] = [joiner EXCEPT ![t] = [pc |-> pc, for |-> joiner[t].for, in |-> joiner[t].in]]
         /\ joiner[t].in \in 0..MaxHuddles /\ joiner[t].for \in 0..MaxHuddles
<1> DEFINE r == joiner[t]
<1>1. r \in JoinRecord
  OBVIOUS
<1>2. [r EXCEPT !.pc = pc] = [pc |-> pc, for |-> r.for, in |-> r.in]
  <2> HIDE DEF r
  <2> QED
    BY <1>1 DEF JoinRecord
<1> QED
  BY <1>1, <1>2 DEF JoinRecord

LEMMA JoinRecordAims ==
  ASSUME joiner \in [Joiners -> JoinRecord], NEW t \in Joiners, NEW pc, NEW n
  PROVE  [joiner EXCEPT ![t].pc = pc, ![t].for = n] = [joiner EXCEPT ![t] = [pc |-> pc, for |-> n, in |-> joiner[t].in]]
<1> DEFINE r == joiner[t]
           m == [pc |-> pc, for |-> r.for, in |-> r.in]
<1>1. r \in JoinRecord
  OBVIOUS
<1>2. [r EXCEPT !.pc = pc] = m
  <2> HIDE DEF r
  <2> QED
    BY <1>1 DEF JoinRecord
<1>3. [r EXCEPT !.pc = pc, !.for = n] = [[r EXCEPT !.pc = pc] EXCEPT !.for = n]
  <2> HIDE DEF r
  <2> QED
    OBVIOUS
<1>4. [m EXCEPT !.for = n] = [pc |-> pc, for |-> n, in |-> r.in]
  <2> HIDE DEF r
  <2> QED
    OBVIOUS
<1>5. [joiner EXCEPT ![t].pc = pc, ![t].for = n] = [joiner EXCEPT ![t] = [r EXCEPT !.pc = pc, !.for = n]]
  OBVIOUS
<1> HIDE DEF m
<1>6. [r EXCEPT !.pc = pc, !.for = n] = [pc |-> pc, for |-> n, in |-> r.in]
  BY <1>2, <1>3, <1>4
<1> QED
  BY <1>5, <1>6, Zenon

LEMMA JoinRecordEnters ==
  ASSUME joiner \in [Joiners -> JoinRecord], NEW t \in Joiners, NEW pc, NEW n
  PROVE  [joiner EXCEPT ![t].pc = pc, ![t].in = n] = [joiner EXCEPT ![t] = [pc |-> pc, for |-> joiner[t].for, in |-> n]]
<1> DEFINE r == joiner[t]
           m == [pc |-> pc, for |-> r.for, in |-> r.in]
<1>1. r \in JoinRecord
  OBVIOUS
<1>2. [r EXCEPT !.pc = pc] = m
  <2> HIDE DEF r
  <2> QED
    BY <1>1 DEF JoinRecord
<1>3. [r EXCEPT !.pc = pc, !.in = n] = [[r EXCEPT !.pc = pc] EXCEPT !.in = n]
  <2> HIDE DEF r
  <2> QED
    OBVIOUS
<1>4. [m EXCEPT !.in = n] = [pc |-> pc, for |-> r.for, in |-> n]
  <2> HIDE DEF r
  <2> QED
    OBVIOUS
<1>5. [joiner EXCEPT ![t].pc = pc, ![t].in = n] = [joiner EXCEPT ![t] = [r EXCEPT !.pc = pc, !.in = n]]
  OBVIOUS
<1> HIDE DEF m
<1>6. [r EXCEPT !.pc = pc, !.in = n] = [pc |-> pc, for |-> r.for, in |-> n]
  BY <1>2, <1>3, <1>4
<1> QED
  BY <1>5, <1>6, Zenon

(* Requests and clicks. *)
LEMMA AskingKeepsHuddle ==
  ASSUME HuddleInv,
         \/ \E q \in JoinAsks : AskToJoin(q) \/ RememberAsk(q)
         \/ \E p \in joinPrompts : ExpirePrompt(p) \/ \E b \in JoinClicks : ApproveJoin(b, p) \/ DeclineJoin(b, p)
  PROVE  HuddleInv'
<1> USE HuddleAssumption DEF JoinerAt, JoinerTo
<1>0. JoinAsks \subseteq Joiners /\ JoinClicks \subseteq Joiners
  BY DEF Joiners
<1>1. /\ joiner \in [Joiners -> JoinRecord]
      /\ \A t \in Joiners : joiner[t].pc = "prompting" => joiner[t].for # 0
      /\ live \in 0..MaxHuddles /\ \A p \in joinPrompts : p.id \in JoinAsks /\ p.for \in Huddles
  BY DEF HuddleInv, JoinersTyped, JoinRecord, HuddleTypeOK
<1>2. UNCHANGED <<slackVars, call, joiningKeys, sessionOf, kicking, kickHistory>>
  BY DEF AskToJoin, RememberAsk, ExpirePrompt, ApproveJoin, DeclineJoin, tables
<1>3. ASSUME NEW t \in Joiners, NEW r \in JoinRecord, joiner' = [joiner EXCEPT ![t] = r],
             joiner[t].pc \in {"idle", "prompting"}, r.pc \in {"deciding", "prompting", "over"},
             r.for = joiner[t].for \/ joiner[t].pc = "idle", r.pc = "prompting" => r.for # 0,
             \A p \in joinPrompts' : p.id \in JoinAsks /\ p.for \in Huddles
      PROVE  HuddleInv'
  <2>1. JoinersTyped' /\ SessionsFollowJoins' /\ SessionsAreJoined' /\ SessionsAreKnown' /\ KeysAreHeld' /\ KicksArrive'
    BY <1>2, <1>3, JoinMoves DEF JoinRecord, BeforeSession, JoinUnderWay
  <2>2. HuddleTypeOK'
    BY <1>2, <1>3 DEF HuddleInv, HuddleTypeOK, slackVars, kickHistory
  <2> QED
    BY <2>1, <2>2 DEF HuddleInv
<1>4. {"deciding", "prompting", "over"} \subseteq JoinPlaces
  BY DEF JoinPlaces, BeforeSession
<1>5. ASSUME NEW t \in Joiners, NEW pc \in {"deciding", "prompting", "over"}, NEW n \in 0..MaxHuddles,
             joiner' = [joiner EXCEPT ![t] = [pc |-> pc, for |-> n, in |-> joiner[t].in]],
             joiner[t].pc \in {"idle", "prompting"}, n = joiner[t].for \/ joiner[t].pc = "idle", pc = "prompting" => n # 0,
             \A p \in joinPrompts' : p.id \in JoinAsks /\ p.for \in Huddles
      PROVE  HuddleInv'
  <2>1. [pc |-> pc, for |-> n, in |-> joiner[t].in] \in JoinRecord
    BY <1>1, <1>4, <1>5 DEF JoinRecord
  <2> QED
    BY <1>3, <1>5, <2>1
<1>6. ASSUME NEW q \in JoinAsks, AskToJoin(q) PROVE HuddleInv'
  <2>1. PICK place \in {"deciding", "prompting", "over"}, h \in 0..MaxHuddles :
          joiner' = [joiner EXCEPT ![q].pc = place, ![q].for = h]
    <3>1. CASE live = 0
      <4>1. PICK pc \in {"deciding", "over"} : joiner' = [joiner EXCEPT ![q].pc = pc]
        BY <1>6, <3>1 DEF AskToJoin
      <4>2. joiner' = [joiner EXCEPT ![q].pc = pc, ![q].for = joiner[q].for] /\ joiner[q].for \in 0..MaxHuddles
        BY <1>0, <1>1, <4>1 DEF JoinRecord
      <4> QED
        BY <4>2
    <3>2. CASE live # 0
      BY <1>1, <1>6, <3>2 DEF AskToJoin
    <3> QED
      BY <3>1, <3>2
  <2>2. q \in Joiners /\ joiner[q].pc = "idle" /\ joinPrompts' = joinPrompts
    BY <1>0, <1>6 DEF AskToJoin, tables
  <2>3. joiner' = [joiner EXCEPT ![q] = [pc |-> place, for |-> h, in |-> joiner[q].in]]
    <3>1. \A y : [joiner EXCEPT ![q].pc = place, ![q].for = y]
                  = [joiner EXCEPT ![q] = [pc |-> place, for |-> y, in |-> joiner[q].in]]
      BY <1>1, <2>2, JoinRecordAims
    <3> QED
      BY <2>1, <3>1, Zenon
  <2>4. place = "prompting" => h # 0
    BY <1>1, <1>6, <2>1, <2>2, ZenonT(60) DEF AskToJoin, JoinRecord
  <2> QED
    BY <1>1, <1>5, <2>2, <2>3, <2>4
<1>7. ASSUME NEW q \in JoinAsks, RememberAsk(q) PROVE HuddleInv'
  <2>1. /\ q \in Joiners /\ joiner[q].pc = "prompting"
        /\ joiner' = [joiner EXCEPT ![q].pc = "over"]
        /\ joinPrompts' \in {joinPrompts, joinPrompts \cup {[id |-> q, for |-> joiner[q].for]}}
    BY <1>0, <1>7 DEF RememberAsk
  <2>2. joiner[q].for \in Huddles /\ joiner[q].for \in 0..MaxHuddles
    BY <1>1, <2>1 DEF JoinRecord, Huddles
  <2>3. joiner' = [joiner EXCEPT ![q] = [pc |-> "over", for |-> joiner[q].for, in |-> joiner[q].in]]
    BY <1>1, <2>1, <2>2, JoinRecordMoves
  <2>4. \A p \in joinPrompts' : p.id \in JoinAsks /\ p.for \in Huddles
    BY <1>1, <2>1, <2>2
  <2> QED
    BY <1>5, <2>1, <2>2, <2>3, <2>4
<1>8. ASSUME NEW p \in joinPrompts, ExpirePrompt(p) PROVE HuddleInv'
  <2>1. joiner' = joiner /\ joinPrompts' \subseteq joinPrompts
    BY <1>8 DEF ExpirePrompt
  <2>2. \A h \in Huddles : sessionOf'[h] = sessionOf[h]
    BY <1>2
  <2>3. JoinersTyped' /\ SessionsFollowJoins' /\ SessionsAreJoined' /\ SessionsAreKnown' /\ KeysAreHeld' /\ KicksArrive'
    BY <1>2, <2>1, <2>2, CallsMove DEF HuddleInv, SessionsFollowJoins
  <2>4. HuddleTypeOK'
    BY <1>2, <2>1 DEF HuddleInv, HuddleTypeOK, slackVars, kickHistory
  <2> QED
    BY <2>3, <2>4 DEF HuddleInv
<1>9. ASSUME NEW p \in joinPrompts, NEW b \in JoinClicks, ApproveJoin(b, p) PROVE HuddleInv'
  <2>1. /\ b \in Joiners /\ joiner[b].pc = "idle" /\ p.for \in 0..MaxHuddles /\ joinPrompts' \subseteq joinPrompts
        /\ joiner' = [joiner EXCEPT ![b].pc = "deciding", ![b].for = p.for]
    <3>1. joiner' = [joiner EXCEPT ![b] = [@ EXCEPT !.pc = "deciding", !.for = p.for]] /\ joiner[b].pc = "idle"
      BY <1>9 DEF ApproveJoin
    <3>2. joinPrompts' \subseteq joinPrompts
      BY <1>9 DEF ApproveJoin
    <3>3. p.for \in 0..MaxHuddles
      BY <1>1 DEF Huddles
    <3> QED
      BY <1>0, <3>1, <3>2, <3>3
  <2>2. joiner' = [joiner EXCEPT ![b] = [pc |-> "deciding", for |-> p.for, in |-> joiner[b].in]]
    <3>1. [joiner EXCEPT ![b].pc = "deciding", ![b].for = p.for]
            = [joiner EXCEPT ![b] = [pc |-> "deciding", for |-> p.for, in |-> joiner[b].in]]
      BY <1>1, <2>1, JoinRecordAims, ZenonT(60)
    <3> QED
      BY <2>1, <3>1, Zenon
  <2> QED
    BY <1>1, <1>5, <2>1, <2>2
<1>10. ASSUME NEW p \in joinPrompts, NEW b \in JoinClicks, DeclineJoin(b, p) PROVE HuddleInv'
  <2>1. /\ b \in Joiners /\ joiner[b].pc = "idle" /\ joinPrompts' \subseteq joinPrompts
        /\ joiner' = [joiner EXCEPT ![b].pc = "over"] /\ joiner[b].for \in 0..MaxHuddles
    BY <1>0, <1>1, <1>10 DEF DeclineJoin, JoinRecord
  <2>2. joiner' = [joiner EXCEPT ![b] = [pc |-> "over", for |-> joiner[b].for, in |-> joiner[b].in]]
    BY <1>1, <2>1, JoinRecordMoves
  <2> QED
    BY <1>1, <1>5, <2>1, <2>2
<1> QED
  BY <1>6, <1>7, <1>8, <1>9, <1>10

(* A join, up to its session. *)
LEMMA EnteringKeepsHuddle ==
  ASSUME HuddleInv, NEW t \in Joiners, CheckLive(t) \/ JoinRoom(t)
  PROVE  HuddleInv'
<1> USE HuddleAssumption DEF JoinerAt, JoinerTo
<1>1. /\ joiner \in [Joiners -> JoinRecord]
      /\ {live, huddleCount} \subseteq 0..MaxHuddles
  BY DEF HuddleInv, JoinersTyped, JoinRecord, HuddleTypeOK
<1>2. UNCHANGED <<tables, call, kicking, kickHistory>> /\ {live', huddleCount'} \subseteq 0..MaxHuddles
  BY <1>1 DEF CheckLive, JoinRoom, slackVars
<1>3. PICK pc \in {"entering", "registering", "leaving"}, n \in 0..MaxHuddles :
        /\ joiner' = [joiner EXCEPT ![t] = [pc |-> pc, for |-> joiner[t].for, in |-> n]]
        /\ pc = "registering" => n # 0
  <2>1. joiner[t].in \in 0..MaxHuddles /\ DOMAIN joiner[t] = {"pc", "for", "in"}
    BY <1>1 DEF JoinRecord
  <2>2. CASE CheckLive(t)
    <3>1. PICK pc \in {"entering", "leaving"} : joiner' = [joiner EXCEPT ![t].pc = pc]
      BY <2>2 DEF CheckLive
    <3>2. joiner' = [joiner EXCEPT ![t] = [pc |-> pc, for |-> joiner[t].for, in |-> joiner[t].in]]
      BY <1>1, <3>1, JoinRecordMoves
    <3> QED
      BY <2>1, <3>2
  <2>3. CASE JoinRoom(t) /\ joiner' = [joiner EXCEPT ![t].pc = "leaving"]
    <3>1. joiner' = [joiner EXCEPT ![t] = [pc |-> "leaving", for |-> joiner[t].for, in |-> joiner[t].in]]
      BY <1>1, <2>3, JoinRecordMoves
    <3> QED
      BY <2>1, <3>1
  <2>4. CASE JoinRoom(t) /\ joiner' = [joiner EXCEPT ![t].pc = "registering", ![t].in = live'] /\ live' # 0
    <3>1. joiner' = [joiner EXCEPT ![t] = [pc |-> "registering", for |-> joiner[t].for, in |-> live']]
      BY <1>1, <2>4, JoinRecordEnters
    <3> QED
      BY <1>2, <2>4, <3>1
  <2> QED
    BY <1>1, <2>2, <2>3, <2>4 DEF JoinRoom, slackVars
<1>4. [pc |-> pc, for |-> joiner[t].for, in |-> n] \in JoinRecord
  BY <1>1 DEF JoinRecord, JoinPlaces, JoinUnderWay
<1>5. joiner[t].pc \in {"checking", "entering"}
  BY DEF CheckLive, JoinRoom
<1>6. JoinersTyped' /\ SessionsFollowJoins' /\ SessionsAreJoined' /\ SessionsAreKnown' /\ KeysAreHeld' /\ KicksArrive'
  BY <1>2, <1>3, <1>4, <1>5, JoinMoves, ZenonT(60) DEF JoinRecord, BeforeSession, JoinUnderWay, tables
<1>7. HuddleTypeOK'
  BY <1>2 DEF HuddleInv, HuddleTypeOK, tables, kickHistory
<1> QED
  BY <1>6, <1>7 DEF HuddleInv

(* A join takes its key, and gives it back. *)
LEMMA KeysKeepHuddle ==
  ASSUME HuddleInv, NEW t \in Joiners, DecideJoin(t) \/ EndJoin(t)
  PROVE  HuddleInv'
<1> USE HuddleAssumption DEF JoinerAt, JoinerTo
<1>1. /\ joiner \in [Joiners -> JoinRecord]
      /\ joiningKeys \in [Huddles \cup {Starting} -> {"no", "yes", "kicked"}]
      /\ kickedJoins \subseteq Joiners
  BY DEF HuddleInv, JoinersTyped, JoinRecord, HuddleTypeOK
<1>2. KeyOf(t) \in Huddles \cup {Starting} /\ \A u \in Joiners : KeyOf(u) \in Huddles \cup {Starting}
  BY KeysAreKeys
<1>3. UNCHANGED <<slackVars, joinPrompts, sessionOf, call, kicking, kickHistory>>
  BY DEF DecideJoin, EndJoin
<1>4. PICK to \in {"over", "checking"}, mark \in {"same", "yes", "no"} :
        /\ joiner' = [joiner EXCEPT ![t].pc = to]
        /\ mark = "same" => joiningKeys' = joiningKeys
        /\ mark # "same" => joiningKeys' = [joiningKeys EXCEPT ![KeyOf(t)] = mark]
        /\ to = "checking" <=> mark = "yes"
        /\ to = "checking" => joiner[t].pc = "deciding" /\ joiningKeys[KeyOf(t)] = "no"
        /\ to = "over" => \/ joiner[t].pc = "leaving" /\ mark = "no"
                          \/ joiner[t].pc = "deciding" /\ mark = "same"
  <2>1. CASE EndJoin(t)
    BY <2>1 DEF EndJoin
  <2>2. CASE DecideJoin(t) /\ joiner' = [joiner EXCEPT ![t].pc = "over"] /\ joiningKeys' = joiningKeys
    BY <2>2 DEF DecideJoin
  <2>3. CASE DecideJoin(t) /\ joiner' = [joiner EXCEPT ![t].pc = "checking"]
             /\ joiningKeys' = [joiningKeys EXCEPT ![KeyOf(t)] = "yes"] /\ joiningKeys[KeyOf(t)] = "no"
    BY <2>3 DEF DecideJoin
  <2> QED
    BY <2>1, <2>2, <2>3 DEF DecideJoin
<1>5. /\ joiner'[t].pc = to /\ joiner'[t].for = joiner[t].for /\ joiner'[t].in = joiner[t].in
      /\ \A u \in Joiners : u # t => joiner'[u] = joiner[u]
  <2>1. joiner' = [joiner EXCEPT ![t] = [pc |-> to, for |-> joiner[t].for, in |-> joiner[t].in]]
    BY <1>1, <1>4, JoinRecordMoves
  <2> QED
    BY <1>1, <2>1
<1>6. \A u \in Joiners : KeyOf(u)' = KeyOf(u) /\ (u # t => Holding(u)' = Holding(u))
  BY <1>5 DEF KeyOf, Holding
<1>7. Holding(t)' <=> to = "checking"
  BY <1>5 DEF Holding, JoinUnderWay
<1>8. HuddleTypeOK'
  BY <1>1, <1>3, <1>4 DEF HuddleInv, HuddleTypeOK, slackVars, kickHistory
<1>9. JoinersTyped'
  <2>1. joiner' \in [Joiners -> JoinRecord]
    <3>1. joiner' = [joiner EXCEPT ![t] = [pc |-> to, for |-> joiner[t].for, in |-> joiner[t].in]]
      BY <1>1, <1>4, JoinRecordMoves
    <3>2. [pc |-> to, for |-> joiner[t].for, in |-> joiner[t].in] \in JoinRecord
      BY <1>1 DEF JoinRecord, JoinPlaces, BeforeSession
    <3> QED
      BY <1>1, <3>1, <3>2
  <2> QED
    BY <1>3, <1>4, <1>5, <2>1 DEF HuddleInv, JoinersTyped, JoinRecord
<1>10. SessionsFollowJoins'
  BY <1>3, <1>4, <1>5 DEF HuddleInv, SessionsFollowJoins, BeforeSession
<1>11. SessionsAreJoined' /\ SessionsAreKnown'
  <2>1. \A u \in Joiners : joiner'[u].in = joiner[u].in
    BY <1>5
  <2> QED
    BY <1>3, <2>1 DEF HuddleInv, SessionsAreJoined, SessionsAreKnown
<1>12. ASSUME NEW u \in Joiners, u # t, Holding(u)
       PROVE  /\ joiningKeys'[KeyOf(u)] # "no" /\ joiningKeys'[KeyOf(u)] = joiningKeys[KeyOf(u)]
              /\ Holding(t)' => KeyOf(u) # KeyOf(t)
  <2>1. joiningKeys[KeyOf(u)] # "no"
    BY <1>12 DEF HuddleInv, KeysAreHeld
  <2>2. CASE KeyOf(u) # KeyOf(t)
    BY <1>1, <1>2, <1>4, <2>1, <2>2
  <2>3. CASE KeyOf(u) = KeyOf(t)
    <3>1. to # "checking"
      BY <1>4, <2>1, <2>3
    <3>2. joiner[t].pc # "leaving"
      BY <1>12, <2>3 DEF HuddleInv, KeysAreHeld, Holding
    <3> QED
      BY <1>4, <1>7, <2>1, <3>1, <3>2
  <2> QED
    BY <2>2, <2>3
<1>13. KeysAreHeld'
  <2>1. SUFFICES ASSUME NEW u \in Joiners, Holding(u)'
                 PROVE  /\ joiningKeys'[KeyOf(u)'] # "no"
                        /\ \A v \in Joiners : Holding(v)' /\ KeyOf(v)' = KeyOf(u)' => v = u
    BY DEF KeysAreHeld
  <2>2. CASE u = t
    <3>1. joiningKeys'[KeyOf(t)] = "yes"
      BY <1>1, <1>2, <1>4, <1>7, <2>1, <2>2
    <3> QED
      BY <1>6, <1>12, <2>1, <2>2, <3>1
  <2>3. CASE u # t
    <3>1. Holding(u)
      BY <1>6, <2>1, <2>3
    <3>2. \A v \in Joiners : v # t /\ Holding(v) /\ KeyOf(v) = KeyOf(u) => v = u
      BY <3>1 DEF HuddleInv, KeysAreHeld
    <3> QED
      BY <1>6, <1>12, <2>1, <2>3, <3>1, <3>2
  <2> QED
    BY <2>2, <2>3
<1>14. KicksArrive'
  <2>1. SUFFICES ASSUME NEW u \in kickedJoins \ missedJoins
                 PROVE  \/ call[u].asked
                        \/ kicking # 0 /\ sessionOf[kicking] = u
                        \/ kicking # 0 /\ joiner'[u].pc = "registering" /\ joiner'[u].in = kicking
                        \/ joiner'[u].pc \in JoinUnderWay /\ joiningKeys'[KeyOf(u)'] = "kicked"
                        \/ joiner'[u].pc \in {"leaving", "over"} /\ call[u].start = "none"
    BY <1>3 DEF KicksArrive, kickHistory
  <2>2. u \in Joiners
    BY <1>1
  <2>3. CASE u # t /\ joiner[u].pc \in JoinUnderWay /\ joiningKeys[KeyOf(u)] = "kicked"
    BY <1>5, <1>6, <1>12, <2>2, <2>3 DEF Holding
  <2>4. CASE u = t
    <3>1. joiner[t].pc \in {"deciding", "leaving"} /\ joiner[t].pc \notin JoinUnderWay
      BY <1>4 DEF JoinUnderWay
    <3>2. joiner[t].pc = "leaving" => joiner'[t].pc = "over"
      BY <1>4, <1>5
    <3> QED
      BY <2>4, <3>1, <3>2 DEF HuddleInv, KicksArrive
  <2> QED
    BY <1>5, <2>2, <2>3, <2>4 DEF HuddleInv, KicksArrive
<1> QED
  BY <1>8, <1>9, <1>10, <1>11, <1>13, <1>14 DEF HuddleInv

CallRecord == [start : {"none", "models", "connecting", "announcing", "done", "failed"}, asked : BOOLEAN,
               stop : {"no", "leaving", "left"}, link : BOOLEAN, reconnecting : BOOLEAN]

(* A join makes its session, waits for it, and looks for a kick. *)
LEMMA SessionsKeepHuddle ==
  ASSUME HuddleInv, NEW t \in Joiners, Register(t) \/ StartFailed(t) \/ HearKick(t)
  PROVE  HuddleInv'
<1> USE HuddleAssumption DEF JoinerAt, JoinerTo
<1>0. Nobody \notin Joiners
  BY DEF Joiners
<1>1. /\ joiner \in [Joiners -> JoinRecord] /\ call \in [Joiners -> CallRecord]
      /\ sessionOf \in [Huddles -> Joiners \cup {Nobody}]
      /\ kickedJoins \subseteq Joiners
      /\ joiner[t].pc = "registering" \/ call[t].start # "none" => joiner[t].in \in Huddles
  BY DEF HuddleInv, JoinersTyped, JoinRecord, CallRecord, HuddleTypeOK, Huddles
<1>2. UNCHANGED <<slackVars, joinPrompts, joiningKeys, kicking, kickHistory>>
  BY DEF Register, StartFailed, HearKick, tables
<1>3. PICK to \in {"leaving", "waiting"} : joiner' = [joiner EXCEPT ![t].pc = to]
                                           /\ (to = "waiting" => Register(t))
  BY DEF Register, StartFailed, HearKick
<1>4. joiner' = [joiner EXCEPT ![t] = [pc |-> to, for |-> joiner[t].for, in |-> joiner[t].in]]
  BY <1>1, <1>3, JoinRecordMoves
<1>5. /\ joiner'[t].pc = to /\ joiner'[t].for = joiner[t].for /\ joiner'[t].in = joiner[t].in
      /\ \A u \in Joiners : u # t => joiner'[u] = joiner[u]
  BY <1>1, <1>4
<1>6. joiner' \in [Joiners -> JoinRecord]
  <2>1. [pc |-> to, for |-> joiner[t].for, in |-> joiner[t].in] \in JoinRecord
    BY <1>1 DEF JoinRecord, JoinPlaces, JoinUnderWay
  <2> QED
    BY <1>1, <1>4, <2>1
<1>7. joiner[t].pc \in JoinUnderWay
  BY DEF Register, StartFailed, HearKick, JoinUnderWay
<1>8. KeysAreHeld'
  <2>1. \A u \in Joiners : KeyOf(u)' = KeyOf(u) /\ Holding(u)' = Holding(u)
    BY <1>5, <1>7 DEF KeyOf, Holding, JoinUnderWay
  <2> QED
    BY <1>2, <2>1 DEF HuddleInv, KeysAreHeld
<1>9. \A u \in Joiners : KeyOf(u)' = KeyOf(u)
  BY <1>5 DEF KeyOf
<1>10. CASE Register(t) /\ sessionOf[joiner[t].in] # Nobody
  <2>1. UNCHANGED <<sessionOf, call>> /\ to = "leaving" /\ joiner[t].pc = "registering"
    <3>1. joiner' = [joiner EXCEPT ![t].pc = "leaving"] /\ UNCHANGED <<sessionOf, call>> /\ joiner[t].pc = "registering"
      BY <1>10 DEF Register
    <3> QED
      BY <1>1, <1>5, <3>1, JoinRecordMoves
  <2>2. call[t].start = "none"
    BY <2>1 DEF HuddleInv, SessionsFollowJoins, BeforeSession
  <2>3. HuddleTypeOK'
    BY <1>2, <2>1 DEF HuddleInv, HuddleTypeOK, slackVars, kickHistory
  <2>4. JoinersTyped'
    BY <1>5, <1>6, <2>1 DEF HuddleInv, JoinersTyped, JoinRecord
  <2>5. SessionsFollowJoins'
    BY <1>5, <2>1 DEF HuddleInv, SessionsFollowJoins, BeforeSession
  <2>6. SessionsAreJoined' /\ SessionsAreKnown'
    <3>1. \A u \in Joiners : joiner'[u].in = joiner[u].in
      BY <1>5
    <3> QED
      BY <2>1, <3>1 DEF HuddleInv, SessionsAreJoined, SessionsAreKnown
  <2>7. KicksArrive'
    BY <1>1, <1>2, <1>5, <1>9, <2>1, <2>2 DEF HuddleInv, KicksArrive, kickHistory
  <2> QED
    BY <1>8, <2>3, <2>4, <2>5, <2>6, <2>7 DEF HuddleInv
<1>11. CASE Register(t) /\ sessionOf[joiner[t].in] = Nobody
  <2>1. /\ sessionOf' = [sessionOf EXCEPT ![joiner[t].in] = t] /\ joiner[t].pc = "registering"
        /\ call' = [call EXCEPT ![t].start = "models"] /\ joiner' = [joiner EXCEPT ![t].pc = "waiting"]
    BY <1>11 DEF Register
  <2>2. call[t].start = "none" /\ joiner[t].in \in Huddles
    BY <1>1, <2>1 DEF HuddleInv, SessionsFollowJoins, BeforeSession
  <2>3. to = "waiting"
    BY <1>1, <1>5, <2>1, JoinRecordMoves
  <2>4. /\ call' \in [Joiners -> CallRecord] /\ call'[t].start = "models" /\ call'[t].asked = call[t].asked
        /\ call'[t].link = call[t].link /\ call'[t].reconnecting = call[t].reconnecting /\ call'[t].stop = call[t].stop
        /\ \A u \in Joiners : u # t => call'[u] = call[u]
    BY <1>1, <2>1 DEF CallRecord
  <2>5. /\ sessionOf' \in [Huddles -> Joiners \cup {Nobody}] /\ sessionOf'[joiner[t].in] = t
        /\ \A h \in Huddles : h # joiner[t].in => sessionOf'[h] = sessionOf[h]
    BY <1>1, <2>1, <2>2
  <2>6. HuddleTypeOK'
    BY <1>2, <2>4, <2>5 DEF HuddleInv, HuddleTypeOK, slackVars, kickHistory, CallRecord
  <2>7. JoinersTyped'
    BY <1>5, <1>6, <2>2, <2>3, <2>4 DEF HuddleInv, JoinersTyped, JoinRecord, Huddles
  <2>8. SessionsFollowJoins'
    BY <1>5, <2>3, <2>4 DEF HuddleInv, SessionsFollowJoins, BeforeSession
  <2>9. SessionsAreJoined'
    BY <1>5, <2>2, <2>4, <2>5 DEF HuddleInv, SessionsAreJoined
  <2>10. SessionsAreKnown'
    <3>1. SUFFICES ASSUME NEW u \in Joiners, call'[u].start # "none", ~call'[u].asked
                   PROVE  sessionOf'[joiner'[u].in] = u
      BY DEF SessionsAreKnown
    <3>2. CASE u = t
      BY <1>5, <2>5, <3>2
    <3>3. CASE u # t
      <4>1. joiner'[u].in = joiner[u].in /\ call[u].start # "none" /\ ~call[u].asked
        BY <1>5, <2>4, <3>1, <3>3
      <4>2. sessionOf[joiner[u].in] = u /\ joiner[u].in \in Huddles
        BY <4>1 DEF HuddleInv, SessionsAreKnown, JoinersTyped, Huddles
      <4> QED
        BY <1>0, <1>11, <2>5, <4>1, <4>2
    <3> QED
      BY <3>2, <3>3
  <2>11. KicksArrive'
    <3>1. kicking # 0 => kicking \in Huddles
      BY DEF HuddleInv, HuddleTypeOK, Huddles
    <3>2. \A u \in Joiners : kicking # 0 /\ sessionOf[kicking] = u => sessionOf'[kicking] = u
      BY <1>0, <1>11, <2>5, <3>1
    <3> QED
      BY <1>1, <1>2, <1>5, <1>9, <2>1, <2>3, <2>4, <2>5, <3>2 DEF HuddleInv, KicksArrive, JoinUnderWay, kickHistory
  <2> QED
    BY <1>8, <2>6, <2>7, <2>8, <2>9, <2>10, <2>11 DEF HuddleInv
<1>12. CASE StartFailed(t)
  <2>1. /\ call' = [call EXCEPT ![t].start = "failed", ![t].asked = TRUE] /\ sessionOf' = Forgotten(t)
        /\ joiner[t].pc = "waiting" /\ joiner' = [joiner EXCEPT ![t].pc = "leaving"]
    BY <1>12 DEF StartFailed
  <2>2. to = "leaving"
    BY <1>1, <1>5, <2>1, JoinRecordMoves
  <2>3. /\ call' \in [Joiners -> CallRecord] /\ call'[t].start = "failed" /\ call'[t].asked
        /\ \A u \in Joiners : u # t => call'[u] = call[u]
    BY <1>1, <2>1, ZenonT(60) DEF CallRecord
  <2>4. /\ sessionOf' \in [Huddles -> Joiners \cup {Nobody}]
        /\ \A h \in Huddles : sessionOf'[h] = IF sessionOf[h] = t THEN Nobody ELSE sessionOf[h]
    BY <1>1, <2>1 DEF Forgotten
  <2>5. HuddleTypeOK'
    BY <1>2, <2>3, <2>4 DEF HuddleInv, HuddleTypeOK, slackVars, kickHistory, CallRecord
  <2>6. call[t].start # "none"
    BY <2>1 DEF HuddleInv, SessionsFollowJoins
  <2>7. JoinersTyped'
    BY <1>5, <1>6, <2>2, <2>3, <2>6 DEF HuddleInv, JoinersTyped, JoinRecord
  <2>8. SessionsFollowJoins'
    <3>1. call'[t].link = call[t].link /\ call'[t].reconnecting = call[t].reconnecting
      BY <1>1, <2>1 DEF CallRecord
    <3> QED
      BY <1>5, <2>2, <2>3, <3>1 DEF HuddleInv, SessionsFollowJoins, BeforeSession
  <2>9. \A u \in Joiners : joiner'[u].in = joiner[u].in
    BY <1>5
  <2>10. SessionsAreJoined'
    BY <1>0, <2>3, <2>4, <2>9 DEF HuddleInv, SessionsAreJoined
  <2>11. SessionsAreKnown'
    <3>1. \A u \in Joiners : call[u].start # "none" => joiner[u].in \in Huddles
      BY DEF HuddleInv, JoinersTyped, Huddles
    <3> QED
      BY <2>3, <2>4, <2>9, <3>1 DEF HuddleInv, SessionsAreKnown
  <2>12. KicksArrive'
    <3>1. kicking # 0 => kicking \in Huddles
      BY DEF HuddleInv, HuddleTypeOK, Huddles
    <3>2. \A u \in Joiners : kicking # 0 /\ sessionOf[kicking] = u /\ u # t => sessionOf'[kicking] = u
      BY <2>4, <3>1
    <3> QED
      BY <1>1, <1>2, <1>5, <1>9, <2>3, <3>2 DEF HuddleInv, KicksArrive, kickHistory
  <2> QED
    BY <1>8, <2>5, <2>7, <2>8, <2>10, <2>11, <2>12 DEF HuddleInv
<1>13. CASE HearKick(t)
  <2> DEFINE heard == "kicked" \in {joiningKeys[KeyOf(t)], joiningKeys[joiner[t].in]}
  <2>1. /\ call' = [call EXCEPT ![t].asked = @ \/ heard] /\ sessionOf' = sessionOf
        /\ joiner[t].pc = "waiting" /\ joiner' = [joiner EXCEPT ![t].pc = "leaving"]
    BY <1>13 DEF HearKick, tables
  <2>2. to = "leaving"
    BY <1>1, <1>5, <2>1, JoinRecordMoves
  <2>3. /\ call' \in [Joiners -> CallRecord] /\ call'[t].start = call[t].start
        /\ call'[t].link = call[t].link /\ call'[t].reconnecting = call[t].reconnecting /\ call'[t].stop = call[t].stop
        /\ call[t].asked \/ joiningKeys[KeyOf(t)] = "kicked" => call'[t].asked
        /\ \A u \in Joiners : u # t => call'[u] = call[u]
    <3>1. (call[t].asked \/ heard) \in BOOLEAN
      OBVIOUS
    <3> HIDE DEF heard
    <3>2. /\ call' \in [Joiners -> CallRecord] /\ call'[t].start = call[t].start
          /\ call'[t].link = call[t].link /\ call'[t].reconnecting = call[t].reconnecting /\ call'[t].stop = call[t].stop
          /\ \A u \in Joiners : u # t => call'[u] = call[u]
      BY <1>1, <2>1, <3>1, ZenonT(60) DEF CallRecord
    <3>3. call'[t].asked = (call[t].asked \/ heard)
      BY <1>1, <2>1 DEF CallRecord
    <3>4. joiningKeys[KeyOf(t)] = "kicked" => heard
      BY DEF heard
    <3> QED
      BY <3>2, <3>3, <3>4
  <2>5. HuddleTypeOK'
    BY <1>2, <2>1, <2>3 DEF HuddleInv, HuddleTypeOK, slackVars, kickHistory, CallRecord
  <2>7. JoinersTyped'
    BY <1>5, <1>6, <2>2, <2>3 DEF HuddleInv, JoinersTyped, JoinRecord
  <2>8. SessionsFollowJoins'
    BY <1>5, <2>2, <2>3 DEF HuddleInv, SessionsFollowJoins, BeforeSession
  <2>9. \A u \in Joiners : joiner'[u].in = joiner[u].in
    BY <1>5
  <2>10. SessionsAreJoined' /\ SessionsAreKnown'
    BY <2>1, <2>3, <2>9 DEF HuddleInv, SessionsAreJoined, SessionsAreKnown
  <2>12. KicksArrive'
    BY <1>1, <1>2, <1>5, <1>9, <2>1, <2>3 DEF HuddleInv, KicksArrive, kickHistory
  <2> QED
    BY <1>8, <2>5, <2>7, <2>8, <2>10, <2>12 DEF HuddleInv
<1> QED
  BY <1>10, <1>11, <1>12, <1>13

LEMMA AskedToStop ==
  ASSUME NEW c \in CallRecord
  PROVE  LET r == [c EXCEPT !.asked = TRUE] IN
         /\ r \in CallRecord /\ r.asked /\ r.start = c.start /\ r.stop = c.stop /\ r.link = c.link
         /\ r.reconnecting = c.reconnecting
BY DEF CallRecord

(* Kicks, and calls of leave. *)
LEMMA KickingKeepsHuddle ==
  ASSUME HuddleInv, (\E h \in Huddles : Kick(h)) \/ KickSession \/ LeaveHuddle
  PROVE  HuddleInv'
<1> USE HuddleAssumption
<1>0. Nobody \notin Joiners /\ Starting \notin Huddles
  BY DEF Joiners, Starting, Huddles
<1>1. /\ joiningKeys \in [Huddles \cup {Starting} -> {"no", "yes", "kicked"}]
      /\ kickedJoins \subseteq Joiners /\ call \in [Joiners -> CallRecord]
      /\ \A t \in Joiners : KeyOf(t) \in Huddles \cup {Starting}
  BY KeysAreKeys DEF HuddleInv, HuddleTypeOK, CallRecord
<1>2. UNCHANGED <<slackVars, sessionOf, joiner>>
  BY DEF Kick, KickSession, LeaveHuddle, tables
<1>3. \A t : KeyOf(t)' = KeyOf(t) /\ Holding(t)' = Holding(t)
  BY <1>2 DEF KeyOf, Holding
<1>4. ASSUME NEW keys \in SUBSET (Huddles \cup {Starting}),
             joiningKeys' = [k \in Huddles \cup {Starting} |->
               IF k \in keys /\ joiningKeys[k] # "no" THEN "kicked" ELSE joiningKeys[k]]
      PROVE  /\ joiningKeys' \in [Huddles \cup {Starting} -> {"no", "yes", "kicked"}]
             /\ KeysAreHeld'
             /\ \A t \in Joiners : joiningKeys[KeyOf(t)] = "kicked" => joiningKeys'[KeyOf(t)] = "kicked"
             /\ \A t \in Joiners : joiner[t].pc \in JoinUnderWay /\ KeyOf(t) \in keys => joiningKeys'[KeyOf(t)] = "kicked"
  <2>1. joiningKeys' \in [Huddles \cup {Starting} -> {"no", "yes", "kicked"}]
    BY <1>1, <1>4
  <2>2. \A t \in Joiners : joiningKeys[KeyOf(t)] = "kicked" => joiningKeys'[KeyOf(t)] = "kicked"
    BY <1>1, <1>4
  <2>3. \A t \in Joiners : joiner[t].pc \in JoinUnderWay => joiningKeys[KeyOf(t)] # "no"
    BY DEF HuddleInv, KeysAreHeld, Holding
  <2>4. \A t \in Joiners : joiner[t].pc \in JoinUnderWay /\ KeyOf(t) \in keys => joiningKeys'[KeyOf(t)] = "kicked"
    BY <1>1, <1>4, <2>3
  <2>5. KeysAreHeld'
    BY <1>1, <1>3, <1>4 DEF HuddleInv, KeysAreHeld
  <2> QED
    BY <2>1, <2>2, <2>4, <2>5
<1>5. ASSUME NEW h \in Huddles, Kick(h) PROVE HuddleInv'
  <2>1. /\ kicking = 0 /\ kicking' = h /\ call' = call /\ kickedJoins' = kickedJoins \cup JoinsUnder(h) /\ missedJoins' = missedJoins
        /\ joinPrompts' = {p \in joinPrompts : p.for # h}
        /\ joiningKeys' = [joiningKeys EXCEPT ![h] = IF @ = "no" THEN "no" ELSE "kicked"]
    BY <1>5 DEF Kick
  <2>2. joiningKeys' = [k \in Huddles \cup {Starting} |->
               IF k \in {h} /\ joiningKeys[k] # "no" THEN "kicked" ELSE joiningKeys[k]]
    BY <1>1, <2>1
  <2>3. /\ joiningKeys' \in [Huddles \cup {Starting} -> {"no", "yes", "kicked"}] /\ KeysAreHeld'
        /\ \A t \in Joiners : joiningKeys[KeyOf(t)] = "kicked" => joiningKeys'[KeyOf(t)] = "kicked"
        /\ \A t \in Joiners : joiner[t].pc \in JoinUnderWay /\ KeyOf(t) \in {h} => joiningKeys'[KeyOf(t)] = "kicked"
    <3>1. {h} \in SUBSET (Huddles \cup {Starting})
      OBVIOUS
    <3> QED
      BY <1>4, <2>2, <3>1
  <2>4. JoinsUnder(h) \subseteq Joiners /\ h \in 0..MaxHuddles /\ h # 0
    BY DEF JoinsUnder, OnTheWay, Huddles
  <2>5. HuddleTypeOK'
    BY <1>2, <2>1, <2>3, <2>4 DEF HuddleInv, HuddleTypeOK, slackVars, kickHistory
  <2>6. JoinersTyped' /\ SessionsFollowJoins' /\ SessionsAreJoined' /\ SessionsAreKnown'
    BY <1>2, <2>1 DEF HuddleInv, JoinersTyped, SessionsFollowJoins, SessionsAreJoined, SessionsAreKnown
  <2>7. ASSUME NEW t \in kickedJoins', t \notin missedJoins
        PROVE  \/ call[t].asked
               \/ kicking' # 0 /\ sessionOf[kicking'] = t
               \/ kicking' # 0 /\ joiner[t].pc = "registering" /\ joiner[t].in = kicking'
               \/ joiner[t].pc \in JoinUnderWay /\ joiningKeys'[KeyOf(t)] = "kicked"
               \/ joiner[t].pc \in {"leaving", "over"} /\ call[t].start = "none"
    <3>1. CASE t \in kickedJoins
      BY <1>1, <2>1, <2>3, <2>7, <3>1 DEF HuddleInv, KicksArrive
    <3>2. CASE t \in Joiners /\ joiner[t].pc \in JoinUnderWay /\ KeyOf(t) \in {h}
      BY <2>3, <3>2
    <3>3. CASE sessionOf[h] = t \/ (joiner[t].pc = "registering" /\ joiner[t].in = h)
      BY <2>1, <2>4, <3>3
    <3> QED
      BY <2>1, <2>7, <3>1, <3>2, <3>3 DEF JoinsUnder, OnTheWay, JoinUnderWay, JoinerAt
  <2>8. KicksArrive'
    BY <1>2, <1>3, <2>1, <2>7 DEF KicksArrive
  <2> QED
    BY <2>3, <2>5, <2>6, <2>8 DEF HuddleInv
<1>7. CASE KickSession
  <2>1. /\ kicking # 0 /\ kicking' = 0 /\ UNCHANGED <<joinPrompts, joiningKeys, kickedJoins>>
        /\ call' = [t \in Joiners |-> IF t = sessionOf[kicking] THEN [call[t] EXCEPT !.asked = TRUE] ELSE call[t]]
        /\ missedJoins' = missedJoins \cup {t \in kickedJoins : joiner[t].pc = "registering" /\ joiner[t].in = kicking
                                                                 /\ joiningKeys[KeyOf(t)] = "yes"}
    BY <1>7 DEF KickSession, StopCall, JoinerAt, tables
  <2>2. /\ call' \in [Joiners -> CallRecord]
        /\ \A t \in Joiners : /\ call'[t].start = call[t].start /\ call'[t].stop = call[t].stop
                              /\ call'[t].link = call[t].link /\ call'[t].reconnecting = call[t].reconnecting
                              /\ call[t].asked \/ sessionOf[kicking] = t => call'[t].asked
    BY <1>1, <2>1, AskedToStop
  <2>3. HuddleTypeOK'
    BY <1>2, <2>1, <2>2 DEF HuddleInv, HuddleTypeOK, slackVars, kickHistory, CallRecord
  <2>4. JoinersTyped' /\ SessionsFollowJoins' /\ SessionsAreJoined' /\ SessionsAreKnown'
    BY <1>2, <2>1, <2>2 DEF HuddleInv, JoinersTyped, SessionsFollowJoins, SessionsAreJoined, SessionsAreKnown
  <2>5. KeysAreHeld'
    BY <1>3, <2>1 DEF HuddleInv, KeysAreHeld
  <2>6. KicksArrive'
    <3>1. \A t \in Joiners : joiner[t].pc = "registering" => joiningKeys[KeyOf(t)] \in {"yes", "kicked"}
      BY <1>1 DEF HuddleInv, KeysAreHeld, Holding, JoinUnderWay
    <3>2. ASSUME NEW t \in kickedJoins, t \notin missedJoins'
          PROVE  \/ call'[t].asked
                 \/ joiner[t].pc \in JoinUnderWay /\ joiningKeys[KeyOf(t)] = "kicked"
                 \/ joiner[t].pc \in {"leaving", "over"} /\ call'[t].start = "none"
      BY <1>1, <2>1, <2>2, <3>1, <3>2 DEF HuddleInv, KicksArrive, JoinUnderWay
    <3> QED
      BY <1>2, <1>3, <2>1, <3>2 DEF KicksArrive
  <2> QED
    BY <2>3, <2>4, <2>5, <2>6 DEF HuddleInv
<1>8. CASE LeaveHuddle
  <2>1. /\ joinPrompts' = {} /\ kicking' = kicking
        /\ kickedJoins' = kickedJoins \cup OnTheWay \cup InCalls
        /\ joiningKeys' = [k \in DOMAIN joiningKeys |-> IF joiningKeys[k] = "no" THEN "no" ELSE "kicked"]
    BY <1>8 DEF LeaveHuddle
  <2>9. PICK s \in InCalls \cup {Nobody} :
          /\ call' = [t \in Joiners |-> IF t = s THEN [call[t] EXCEPT !.asked = TRUE] ELSE call[t]]
          /\ missedJoins' = missedJoins \cup {u \in InCalls \ (OnTheWay \cup {s}) : ~call[u].asked}
    BY <1>8 DEF LeaveHuddle, LeaveOne, StopCall
  <2>2. /\ call' \in [Joiners -> CallRecord]
        /\ \A t \in Joiners : /\ call'[t].start = call[t].start /\ call'[t].stop = call[t].stop
                              /\ call'[t].link = call[t].link /\ call'[t].reconnecting = call[t].reconnecting
                              /\ call[t].asked \/ t = s => call'[t].asked
    BY <1>1, <2>9, AskedToStop
  <2>3. joiningKeys' = [k \in Huddles \cup {Starting} |->
               IF k \in Huddles \cup {Starting} /\ joiningKeys[k] # "no" THEN "kicked" ELSE joiningKeys[k]]
    BY <1>1, <2>1
  <2>4. /\ joiningKeys' \in [Huddles \cup {Starting} -> {"no", "yes", "kicked"}] /\ KeysAreHeld'
        /\ \A t \in Joiners : joiningKeys[KeyOf(t)] = "kicked" => joiningKeys'[KeyOf(t)] = "kicked"
        /\ \A t \in Joiners : joiner[t].pc \in JoinUnderWay => joiningKeys'[KeyOf(t)] = "kicked"
    BY <1>1, <1>4, <2>3
  <2>5. OnTheWay \subseteq Joiners /\ InCalls \subseteq Joiners
    BY DEF OnTheWay, InCalls
  <2>6. HuddleTypeOK'
    <3>1. missedJoins' \subseteq Joiners
      BY <2>5, <2>9 DEF HuddleInv, HuddleTypeOK
    <3> QED
      BY <1>2, <2>1, <2>2, <2>4, <2>5, <3>1 DEF HuddleInv, HuddleTypeOK, slackVars, CallRecord
  <2>7. JoinersTyped' /\ SessionsFollowJoins' /\ SessionsAreJoined' /\ SessionsAreKnown'
    BY <1>2, <2>2 DEF HuddleInv, JoinersTyped, SessionsFollowJoins, SessionsAreJoined, SessionsAreKnown
  <2>8. ASSUME NEW t \in kickedJoins', t \notin missedJoins'
        PROVE  \/ call'[t].asked
               \/ kicking # 0 /\ sessionOf[kicking] = t
               \/ kicking # 0 /\ joiner[t].pc = "registering" /\ joiner[t].in = kicking
               \/ joiner[t].pc \in JoinUnderWay /\ joiningKeys'[KeyOf(t)] = "kicked"
               \/ joiner[t].pc \in {"leaving", "over"} /\ call'[t].start = "none"
    <3>1. CASE t \in kickedJoins
      BY <1>1, <2>2, <2>4, <2>8, <2>9, <3>1 DEF HuddleInv, KicksArrive
    <3>2. CASE t \in OnTheWay
      BY <2>4, <3>2 DEF OnTheWay, JoinUnderWay
    <3>3. CASE t \in InCalls /\ t \notin OnTheWay
      BY <2>2, <2>5, <2>8, <2>9, <3>3
    <3> QED
      BY <2>1, <2>8, <3>1, <3>2, <3>3
  <2>10. KicksArrive'
    BY <1>2, <1>3, <2>1, <2>8 DEF KicksArrive
  <2> QED
    BY <2>4, <2>6, <2>7, <2>10 DEF HuddleInv
<1> QED
  BY <1>5, <1>7, <1>8

(* A session's start, connection and end. *)
LEMMA CallsKeepHuddle ==
  ASSUME HuddleInv, NEW t \in Joiners, SessionStep(t)
  PROVE  HuddleInv'
<1>1. /\ joiner \in [Joiners -> JoinRecord] /\ call \in [Joiners -> CallRecord]
      /\ sessionOf \in [Huddles -> Joiners \cup {Nobody}]
      /\ call[t].link \/ call[t].reconnecting => call[t].start # "none"
      /\ call[t].stop # "no" => call[t].asked
  BY DEF HuddleInv, JoinersTyped, JoinRecord, CallRecord, HuddleTypeOK, SessionsFollowJoins
<1>2. UNCHANGED <<slackVars, joinPrompts, joiningKeys, joiner, kicking, kickHistory>>
  BY DEF SessionStep, FindModels, ConnectCall, Announce, LeaveCall, CloseSession, LeaveAlone, LoseLink, Reconnect,
         tables
<1> DEFINE c == call'[t]
<1>3. /\ call' \in [Joiners -> CallRecord] /\ \A u \in Joiners : u # t => call'[u] = call[u]
      /\ c.start = "none" <=> call[t].start = "none"
      /\ call[t].asked => c.asked
      /\ c.link \/ c.reconnecting => call[t].start # "none"
      /\ c.stop # "no" => c.asked
  <2>1. CASE FindModels(t)
    BY <1>1, <2>1 DEF FindModels, CallRecord
  <2>2. CASE ConnectCall(t)
    BY <1>1, <2>2 DEF ConnectCall, CallRecord
  <2>3. CASE Announce(t)
    BY <1>1, <2>3 DEF Announce, CallRecord
  <2>4. CASE LeaveCall(t)
    <3>1. call' = [call EXCEPT ![t].stop = "leaving", ![t].link = FALSE, ![t].reconnecting = FALSE]
      BY <2>4 DEF LeaveCall
    <3>2. /\ call' \in [Joiners -> CallRecord] /\ \A u \in Joiners : u # t => call'[u] = call[u]
      <4> DEFINE r == [call[t] EXCEPT !.stop = "leaving", !.link = FALSE, !.reconnecting = FALSE]
      <4>1. call' = [call EXCEPT ![t] = r]
        BY <3>1
      <4>2. r \in CallRecord
        BY <1>1 DEF CallRecord
      <4> HIDE DEF r
      <4> QED
        BY <1>1, <4>1, <4>2
    <3>3. c.start = call[t].start /\ c.asked = call[t].asked /\ c.link = FALSE /\ c.reconnecting = FALSE
      BY <1>1, <3>1 DEF CallRecord
    <3>4. call[t].asked
      BY <2>4 DEF LeaveCall
    <3> QED
      BY <3>2, <3>3, <3>4
  <2>5. CASE CloseSession(t)
    BY <1>1, <2>5 DEF CloseSession, CallRecord
  <2>6. CASE LeaveAlone(t)
    BY <1>1, <2>6, ZenonT(60) DEF LeaveAlone, CallRecord
  <2>7. CASE LoseLink(t)
    BY <1>1, <2>7, ZenonT(60) DEF LoseLink, CallRecord
  <2>8. CASE Reconnect(t)
    BY <1>1, <2>8 DEF Reconnect, CallRecord
  <2> QED
    BY <2>1, <2>2, <2>3, <2>4, <2>5, <2>6, <2>7, <2>8 DEF SessionStep
<1>4. /\ sessionOf' \in [Huddles -> Joiners \cup {Nobody}]
      /\ \A h \in Huddles : \/ sessionOf'[h] = sessionOf[h]
                            \/ sessionOf'[h] = Nobody /\ sessionOf[h] = t /\ call'[t].asked
  <2>1. CASE CloseSession(t)
    <3>1. sessionOf' = Forgotten(t) /\ call[t].stop = "leaving"
      BY <2>1 DEF CloseSession
    <3>2. call'[t].asked
      BY <1>1, <1>3, <3>1
    <3> QED
      BY <1>1, <3>1, <3>2 DEF Forgotten
  <2>2. CASE ~CloseSession(t)
    <3>1. sessionOf' = sessionOf
      BY <2>2 DEF SessionStep, FindModels, ConnectCall, Announce, LeaveCall, LeaveAlone, LoseLink, Reconnect, tables
    <3> QED
      BY <1>1, <3>1
  <2> QED
    BY <2>1, <2>2
<1>5. \A u \in Joiners : /\ call[u].link \/ call[u].reconnecting => call[u].start # "none"
                         /\ call[u].stop # "no" => call[u].asked
  BY DEF HuddleInv, SessionsFollowJoins
<1>6. HuddleTypeOK'
  BY <1>2, <1>3, <1>4 DEF HuddleInv, HuddleTypeOK, slackVars, kickHistory, CallRecord
<1>7. JoinersTyped' /\ SessionsFollowJoins' /\ SessionsAreJoined' /\ SessionsAreKnown' /\ KeysAreHeld' /\ KicksArrive'
  <2>1. \A u \in Joiners : /\ call'[u].start = "none" <=> call[u].start = "none"
                           /\ call[u].asked => call'[u].asked
                           /\ call'[u].link \/ call'[u].reconnecting => call[u].start # "none"
                           /\ call'[u].stop # "no" => call'[u].asked
    BY <1>3, <1>5
  <2>2. \A h \in Huddles : \/ sessionOf'[h] = sessionOf[h]
                           \/ sessionOf'[h] = Nobody /\ sessionOf[h] \in Joiners /\ call'[sessionOf[h]].asked
    BY <1>4
  <2> QED
    BY <1>2, <2>1, <2>2, CallsMove
<1> QED
  BY <1>6, <1>7 DEF HuddleInv

(* A huddle begins or ends. *)
LEMMA HuddlesComeAndGo ==
  ASSUME HuddleInv, StartHuddle \/ EndHuddle
  PROVE  HuddleInv'
<1> USE HuddleAssumption
<1>1. call \in [Joiners -> CallRecord] /\ {live, huddleCount} \subseteq 0..MaxHuddles
  BY DEF HuddleInv, CallRecord, HuddleTypeOK
<1>2. UNCHANGED <<tables, joiner, kicking, kickHistory>> /\ {live', huddleCount'} \subseteq 0..MaxHuddles
  <2>1. CASE StartHuddle
    BY <1>1, <2>1 DEF StartHuddle
  <2>2. CASE EndHuddle
    <3>1. live' = 0 /\ huddleCount' = huddleCount /\ UNCHANGED <<tables, joiner, kicking, kickHistory>>
      BY <2>2 DEF EndHuddle
    <3>2. 0 \in 0..MaxHuddles
      OBVIOUS
    <3> QED
      BY <1>1, <3>1, <3>2
  <2> QED
    BY <2>1, <2>2
<1>3. call' \in [Joiners -> CallRecord]
      /\ \A t \in Joiners : /\ call'[t].start = call[t].start /\ call'[t].stop = call[t].stop
                            /\ call'[t].reconnecting = call[t].reconnecting
                            /\ call[t].asked => call'[t].asked
                            /\ call'[t].link => call[t].link
  <2>1. CASE StartHuddle
    BY <1>1, <2>1 DEF StartHuddle
  <2>2. CASE EndHuddle
    <3>1. call' = [t \in Joiners |->
       IF call[t].link THEN [call[t] EXCEPT !.link = FALSE, !.asked = @ \/ call[t].stop = "no"] ELSE call[t]]
      BY <2>2 DEF EndHuddle
    <3>2. ASSUME NEW t \in Joiners
          PROVE  LET r == [call[t] EXCEPT !.link = FALSE, !.asked = @ \/ call[t].stop = "no"] IN
                 /\ r \in CallRecord /\ r.start = call[t].start /\ r.stop = call[t].stop
                 /\ r.reconnecting = call[t].reconnecting /\ (call[t].asked => r.asked) /\ ~r.link
      <4>1. call[t] \in CallRecord /\ (call[t].asked \/ call[t].stop = "no") \in BOOLEAN
        BY <1>1
      <4> QED
        BY <4>1 DEF CallRecord
    <3> QED
      BY <1>1, <3>1, <3>2
  <2> QED
    BY <2>1, <2>2
<1>4. \A u \in Joiners : /\ call[u].link \/ call[u].reconnecting => call[u].start # "none"
                         /\ call[u].stop # "no" => call[u].asked
  BY DEF HuddleInv, SessionsFollowJoins
<1>5. HuddleTypeOK'
  BY <1>2, <1>3 DEF HuddleInv, HuddleTypeOK, tables, kickHistory, CallRecord
<1>6. JoinersTyped' /\ SessionsFollowJoins' /\ SessionsAreJoined' /\ SessionsAreKnown' /\ KeysAreHeld' /\ KicksArrive'
  BY <1>2, <1>3, <1>4, CallsMove DEF tables
<1> QED
  BY <1>5, <1>6 DEF HuddleInv

LEMMA HuddleStep == HuddleInv /\ [HuddleNext]_huddleVars => HuddleInv'
<1> SUFFICES ASSUME HuddleInv, [HuddleNext]_huddleVars PROVE HuddleInv'
  OBVIOUS
<1>1. CASE UNCHANGED huddleVars
  BY <1>1 DEF huddleVars, kickHistory, HuddleInv, HuddleTypeOK, JoinersTyped, SessionsFollowJoins, SessionsAreJoined,
              SessionsAreKnown, KeysAreHeld, KicksArrive, Holding, KeyOf
<1>2. CASE HuddleNext
  BY <1>2, AskingKeepsHuddle, EnteringKeepsHuddle, KeysKeepHuddle, SessionsKeepHuddle, KickingKeepsHuddle,
     CallsKeepHuddle, HuddlesComeAndGo
  DEF HuddleNext, JoinStep
<1> QED
  BY <1>1, <1>2

LEMMA HuddleIsInductive == HuddleSpec => []HuddleInv
BY HuddleAtFirst, HuddleStep, PTL DEF HuddleSpec

(* agent/huddle/__init__.py, _join and _forget: a session in a call that    *)
(* nobody asked to stop is the one its huddle is known by.                  *)
THEOREM SessionsStayReachable == HuddleSpec => []SessionIsReachable
<1>1. HuddleInv => SessionIsReachable
  BY DEF HuddleInv, SessionsFollowJoins, SessionsAreKnown, SessionIsReachable
<1> QED
  BY <1>1, HuddleIsInductive, PTL

(* agent/huddle/__init__.py, kick and leave: whatever a join was doing when *)
(* coolton was told to go, the session it makes is told.                    *)
THEOREM KicksAreHeard == HuddleSpec => []KickReachesJoin
<1>1. HuddleInv => KickReachesJoin
  BY DEF HuddleInv, HuddleTypeOK, KicksArrive, KickReachesJoin, JoinerAt, JoinUnderWay
<1> QED
  BY <1>1, HuddleIsInductive, PTL

----------------------------------------------------------------------------
(* The plan of a turn: what is left of it in the thread looks over.         *)

StepNames == ToolCalls \cup Thoughts
TaskNames == StepNames \cup {ThinkingTask, ModelTask, RespondTask, ErrorTask}
TaskMaps  == UNION {[names -> {InProgress} \cup Finished] : names \in SUBSET TaskNames}

PlanBegins == {"begin", "session", "attempt", "model", "tools", "replying"}
PlanPlaces == PlanBegins \cup {"posting", "posted", "preserved", "skipped", "wrong", "saving",
                               "ending", "over"}

PlanTyped ==
  /\ showing \in [at : PlanPlaces, pending : SUBSET ToolCalls, running : SUBSET ToolCalls,
                  made : SUBSET StepNames, attempts : Nat]
  /\ block \in [ts : Nat, earlier : SUBSET Nat, tasks : TaskMaps]
  /\ plans \in Seq(TaskMaps)
  /\ session \in [status : {"active", "processing"}, kept : BOOLEAN, ticking : BOOLEAN]
  /\ stuck \in BOOLEAN

(* A turn begins without a plan, and continues the one it posts in other    *)
(* messages, each of them once.                                             *)
PlanIsPosted ==
  /\ showing.at = "begin" => block.ts = 0
  /\ block.ts \in {0} \cup DOMAIN plans /\ block.earlier \cup spoilt \subseteq DOMAIN plans
  /\ block.ts \notin block.earlier
  /\ showing.pending \cup showing.running \subseteq showing.made

LeftMessages == DOMAIN plans \ (spoilt \cup {block.ts})
EndsTooFull  == showing.at \in {"ending", "over"} /\ block.ts = 0 /\ TooFull(block.tasks)

(* The tasks of the answer and of a failure are added at the end only, the  *)
(* placeholder is never finished, and a call has no task before it runs.    *)
TasksAreSteps ==
  showing.at \in PlanBegins =>
    /\ DOMAIN block.tasks \subseteq {ThinkingTask, ModelTask} \cup (showing.made \ showing.pending)
    /\ ThinkingTask \in DOMAIN block.tasks => block.tasks[ThinkingTask] = InProgress

(* A message that was left shows steps that have ended ... *)
LeftAreFinished ==
  EndsTooFull \/ \A m \in LeftMessages : InStatus(plans[m], {InProgress}) = {}

(* ... which no other one shows, ... *)
LeftAreApart ==
  EndsTooFull \/ \A m, n \in LeftMessages :
                   m # n => DOMAIN plans[m] \cap DOMAIN plans[n] \subseteq {ModelTask}

(* ... nor the one the plan goes on in. *)
StepsAreNew ==
  showing.at \notin {"ending", "over"} \/ block.ts # 0 =>
    \A m \in LeftMessages :
      /\ DOMAIN plans[m] \subseteq {ModelTask} \cup (showing.made \ showing.pending)
      /\ DOMAIN plans[m] \cap DOMAIN block.tasks \subseteq {ModelTask}

LastIsShown ==
  showing.at \in {"saving", "ending", "over"} /\ block.ts # 0 =>
    \/ block.ts \in spoilt \/ TooFull(block.tasks)
    \/ plans[block.ts] = block.tasks /\ InStatus(block.tasks, {InProgress}) = {}

SessionIsKept ==
  /\ session.status = "processing" => session.kept \/ stuck
  /\ session.kept => showing.at \notin {"begin", "session", "over"}

PlanInv ==
  /\ PlanTyped /\ PlanIsPosted /\ TasksAreSteps /\ LeftAreFinished /\ LeftAreApart /\ StepsAreNew
  /\ LastIsShown /\ SessionIsKept

LEMMA TaskMapIs ==
  ASSUME NEW t \in TaskMaps
  PROVE  DOMAIN t \subseteq TaskNames /\ t \in [DOMAIN t -> {InProgress} \cup Finished]
<1>1. PICK names \in SUBSET TaskNames : t \in [names -> {InProgress} \cup Finished]
  BY DEF TaskMaps
<1> QED
  BY <1>1

LEMMA TaskMapOf ==
  ASSUME NEW names \in SUBSET TaskNames, NEW t \in [names -> {InProgress} \cup Finished]
  PROVE  t \in TaskMaps /\ DOMAIN t = names
BY DEF TaskMaps

LEMMA ExceptIs ==
  ASSUME NEW t \in TaskMaps, NEW ks
  PROVE  /\ Except(t, ks) \in TaskMaps /\ DOMAIN Except(t, ks) = DOMAIN t \ ks
         /\ \A k \in DOMAIN t \ ks : Except(t, ks)[k] = t[k]
<1>1. DOMAIN t \subseteq TaskNames /\ t \in [DOMAIN t -> {InProgress} \cup Finished]
  BY TaskMapIs
<1>2. Except(t, ks) \in [DOMAIN t \ ks -> {InProgress} \cup Finished]
  BY <1>1 DEF Except
<1>3. DOMAIN t \ ks \in SUBSET TaskNames
  BY <1>1
<1> QED
  BY <1>2, <1>3, TaskMapOf DEF Except

LEMMA FrozenIs ==
  ASSUME NEW t \in TaskMaps
  PROVE  /\ Frozen(t) \in TaskMaps /\ InStatus(Frozen(t), {InProgress}) = {}
         /\ DOMAIN Frozen(t) = InStatus(t, Finished)
<1>1. DOMAIN t \subseteq TaskNames /\ t \in [DOMAIN t -> {InProgress} \cup Finished]
  BY TaskMapIs
<1>2. DOMAIN t \cap InStatus(t, Finished) = InStatus(t, Finished)
  BY DEF InStatus
<1>3. Frozen(t) = [k \in InStatus(t, Finished) |-> t[k]]
  BY <1>2 DEF Frozen, Only
<1>4. Frozen(t) \in [InStatus(t, Finished) -> Finished]
  BY <1>3 DEF InStatus
<1>5. InStatus(t, Finished) \in SUBSET TaskNames /\ Frozen(t) \in [InStatus(t, Finished) -> {InProgress} \cup Finished]
  BY <1>1, <1>4 DEF InStatus
<1>6. InStatus(Frozen(t), {InProgress}) = {}
  BY <1>4 DEF InStatus, InProgress, Finished
<1> QED
  BY <1>5, <1>6, TaskMapOf

LEMMA WithIs ==
  ASSUME NEW t \in TaskMaps, NEW ks \in SUBSET TaskNames, NEW s \in {InProgress} \cup Finished
  PROVE  /\ With(t, ks, s) \in TaskMaps /\ DOMAIN With(t, ks, s) = DOMAIN t \cup ks
         /\ \A k \in DOMAIN t \ ks : With(t, ks, s)[k] = t[k]
         /\ \A k \in ks : With(t, ks, s)[k] = s
<1>1. DOMAIN t \subseteq TaskNames /\ t \in [DOMAIN t -> {InProgress} \cup Finished]
  BY TaskMapIs
<1>2. With(t, ks, s) \in [DOMAIN t \cup ks -> {InProgress} \cup Finished]
  BY <1>1 DEF With
<1>3. DOMAIN t \cup ks \in SUBSET TaskNames
  BY <1>1
<1> QED
  BY <1>2, <1>3, TaskMapOf DEF With

LEMMA AllDoneIs ==
  ASSUME NEW t \in TaskMaps
  PROVE  /\ AllDone(t) \in TaskMaps /\ DOMAIN AllDone(t) = DOMAIN t
         /\ InStatus(AllDone(t), {InProgress}) = {}
<1>1. DOMAIN t \subseteq TaskNames /\ t \in [DOMAIN t -> {InProgress} \cup Finished]
  BY TaskMapIs
<1>2. AllDone(t) \in [DOMAIN t -> Finished]
  BY <1>1 DEF AllDone, Finished
<1>3. AllDone(t) \in [DOMAIN t -> {InProgress} \cup Finished]
  BY <1>2
<1>4. InStatus(AllDone(t), {InProgress}) = {}
  BY <1>2 DEF InStatus, InProgress, Finished
<1> QED
  BY <1>1, <1>2, <1>3, <1>4, TaskMapOf

LEMMA PlainMaps == /\ Placeholder \in TaskMaps /\ DOMAIN Placeholder = {ThinkingTask}
                   /\ <<>> \in TaskMaps /\ DOMAIN <<>> = {}
<1>1. Placeholder \in [{ThinkingTask} -> {InProgress} \cup Finished]
  BY DEF Placeholder
<1>2. {ThinkingTask} \in SUBSET TaskNames
  BY DEF TaskNames
<1>3. <<>> \in [{} -> {InProgress} \cup Finished] /\ {} \in SUBSET TaskNames
  OBVIOUS
<1> QED
  BY <1>1, <1>2, <1>3, TaskMapOf

LEMMA PlanAtFirst == PlanInit => PlanInv
<1> SUFFICES ASSUME PlanInit PROVE PlanInv
  OBVIOUS
<1>1. PlanTyped
  <2>1. showing \in [at : PlanPlaces, pending : SUBSET ToolCalls, running : SUBSET ToolCalls,
                     made : SUBSET StepNames, attempts : Nat]
    BY DEF PlanInit, NoCalls, PlanPlaces, PlanBegins
  <2>2. block \in [ts : Nat, earlier : SUBSET Nat, tasks : TaskMaps]
    BY PlainMaps DEF PlanInit
  <2>3. plans \in Seq(TaskMaps)
    BY DEF PlanInit
  <2> QED
    BY <2>1, <2>2, <2>3 DEF PlanTyped, PlanInit
<1>2. DOMAIN plans = {}
  BY DEF PlanInit
<1>3. PlanIsPosted /\ LeftAreFinished /\ LeftAreApart /\ StepsAreNew
  BY <1>2 DEF PlanInit, PlanIsPosted, LeftAreFinished, LeftAreApart, StepsAreNew, LeftMessages, NoCalls
<1>4. TasksAreSteps
  BY PlainMaps DEF PlanInit, TasksAreSteps
<1>5. LastIsShown /\ SessionIsKept
  BY DEF PlanInit, LastIsShown, SessionIsKept, NoCalls
<1> QED
  BY <1>1, <1>3, <1>4, <1>5 DEF PlanInv

(* What a full plan's move to another message comes to. *)
Rolled(r, tasks) ==
  /\ r.block \in [ts : Nat, earlier : SUBSET Nat, tasks : TaskMaps] /\ r.plans \in Seq(TaskMaps)
  /\ DOMAIN plans \subseteq DOMAIN r.plans
  /\ spoilt \subseteq r.spoilt /\ r.spoilt \subseteq DOMAIN r.plans
  /\ r.block.ts \in DOMAIN r.plans /\ r.block.ts # 0
  /\ r.block.earlier \subseteq DOMAIN r.plans /\ r.block.ts \notin r.block.earlier
  /\ \A m \in DOMAIN r.plans : m \in LeftMessages \cup r.spoilt \cup {block.ts, r.block.ts}
  /\ \A m \in LeftMessages : r.plans[m] = plans[m]
  /\ \/ r.block.ts = block.ts /\ r.block.tasks = tasks
     \/ /\ r.block.ts \notin DOMAIN plans /\ r.plans[block.ts] = Frozen(tasks)
        /\ r.block.tasks = Except(tasks, InStatus(tasks, Finished))

LEMMA RollOverMoves ==
  ASSUME PlanTyped, PlanIsPosted, block.ts # 0, NEW tasks \in TaskMaps, NEW r \in RollOvers(tasks)
  PROVE  Rolled(r, tasks)
<1> DEFINE finished == InStatus(tasks, Finished)
           carried  == Except(tasks, finished)
           frozen   == [plans EXCEPT ![block.ts] = Frozen(tasks)]
           other    == IF carried = <<>> THEN Placeholder ELSE carried
           next     == Append(frozen, other)
           same     == [block EXCEPT !.tasks = tasks]
           moved    == [ts |-> Len(next), earlier |-> block.earlier \cup {block.ts}, tasks |-> carried]
<1>1. carried \in TaskMaps /\ other \in TaskMaps /\ Frozen(tasks) \in TaskMaps
  BY ExceptIs, FrozenIs, PlainMaps
<1>2. /\ plans \in Seq(TaskMaps) /\ block.ts \in DOMAIN plans /\ Len(plans) \in Nat
      /\ DOMAIN plans = 1..Len(plans)
  BY DEF PlanTyped, PlanIsPosted
<1>3. /\ frozen \in Seq(TaskMaps) /\ DOMAIN frozen = DOMAIN plans /\ Len(frozen) = Len(plans)
      /\ frozen[block.ts] = Frozen(tasks) /\ \A m \in DOMAIN plans \ {block.ts} : frozen[m] = plans[m]
  BY <1>1, <1>2
<1>4. /\ next \in Seq(TaskMaps) /\ Len(next) = Len(plans) + 1 /\ DOMAIN next = DOMAIN plans \cup {Len(next)}
      /\ Len(next) \notin DOMAIN plans /\ Len(next) \in Nat \ {0}
      /\ \A m \in DOMAIN plans : next[m] = frozen[m]
  <2> HIDE DEF frozen, other
  <2>1. next \in Seq(TaskMaps) /\ Len(next) = Len(plans) + 1 /\ \A m \in 1..Len(plans) : next[m] = frozen[m]
    BY <1>1, <1>2, <1>3
  <2>2. DOMAIN next = 1..(Len(plans) + 1)
    BY <2>1
  <2> HIDE DEF next
  <2> QED
    BY <1>2, <2>1, <2>2
<1>5. block \in [ts : Nat, earlier : SUBSET Nat, tasks : TaskMaps]
  BY DEF PlanTyped
<1>6. /\ same \in [ts : Nat, earlier : SUBSET Nat, tasks : TaskMaps] /\ same.ts = block.ts
      /\ same.earlier = block.earlier /\ same.tasks = tasks
  BY <1>5
<1>7. moved \in [ts : Nat, earlier : SUBSET Nat, tasks : TaskMaps] /\ moved.ts = Len(next)
      /\ moved.earlier = block.earlier \cup {block.ts} /\ moved.tasks = carried
  <2> HIDE DEF next, carried
  <2> QED
    BY <1>1, <1>4, <1>5
<1>8. \/ r = [block |-> same, plans |-> plans, spoilt |-> spoilt, failed |-> FALSE]
      \/ r = [block |-> moved, plans |-> next, spoilt |-> spoilt, failed |-> FALSE]
      \/ r = [block |-> same, plans |-> plans, spoilt |-> spoilt, failed |-> TRUE]
      \/ r = [block |-> same, plans |-> frozen, spoilt |-> spoilt, failed |-> TRUE]
      \/ r = [block |-> same, plans |-> next, spoilt |-> spoilt \cup {Len(next)}, failed |-> TRUE]
  BY Zenon DEF RollOvers
<1> HIDE DEF finished, carried, frozen, other, next, same, moved
<1>9. /\ block.earlier \cup spoilt \subseteq DOMAIN plans /\ block.ts \notin block.earlier
      /\ LeftMessages = DOMAIN plans \ (spoilt \cup {block.ts})
  BY DEF PlanIsPosted, LeftMessages
<1>10. CASE r.plans = plans /\ r.block = same /\ r.spoilt = spoilt
  BY <1>2, <1>6, <1>9, <1>10 DEF Rolled
<1>11. CASE r.plans = frozen /\ r.block = same /\ r.spoilt = spoilt
  BY <1>2, <1>3, <1>6, <1>9, <1>11 DEF Rolled
<1>12. CASE r.plans = next /\ r.block = same /\ r.spoilt = spoilt \cup {Len(next)}
  BY <1>2, <1>3, <1>4, <1>6, <1>9, <1>12 DEF Rolled
<1>13. CASE r.plans = next /\ r.block = moved /\ r.spoilt = spoilt
  <2>1. next[block.ts] = Frozen(tasks) /\ carried = Except(tasks, InStatus(tasks, Finished))
    BY <1>2, <1>3, <1>4 DEF carried, finished
  <2> QED
    BY <1>2, <1>3, <1>4, <1>7, <1>9, <1>13, <2>1 DEF Rolled
<1> QED
  BY <1>8, <1>10, <1>11, <1>12, <1>13

(* What an update comes to: the messages that are left stay as they are,    *)
(* and one that becomes so shows what is finished, which leaves the plan.   *)
Updated(tasks) ==
  /\ block' \in [ts : Nat, earlier : SUBSET Nat, tasks : TaskMaps] /\ plans' \in Seq(TaskMaps)
  /\ spoilt' \subseteq DOMAIN plans'
  /\ block'.ts \in DOMAIN plans'
  /\ block'.earlier \subseteq DOMAIN plans' /\ block'.ts \notin block'.earlier
  /\ DOMAIN block'.tasks \subseteq DOMAIN tasks
  /\ \A k \in DOMAIN block'.tasks : block'.tasks[k] = tasks[k]
  /\ \A m \in LeftMessages' :
       \/ m \in LeftMessages /\ plans'[m] = plans[m]
       \/ /\ m = block.ts /\ plans'[m] = Frozen(tasks)
          /\ DOMAIN block'.tasks \cap InStatus(tasks, Finished) = {}

LEMMA UpdateMoves ==
  ASSUME PlanTyped, PlanIsPosted, block.ts # 0, NEW tasks \in TaskMaps, UpdatePlanMessage(tasks)
  PROVE  Updated(tasks)
<1>1. PICK r \in RollOvers(tasks), failed \in BOOLEAN :
         LET now == IF Cardinality(DOMAIN r.block.tasks) > 1
                      THEN Except(r.block.tasks, {ThinkingTask}) ELSE r.block.tasks
         IN /\ block' = [r.block EXCEPT !.tasks = now]
            /\ plans' = IF failed THEN r.plans ELSE ShownPlan(r.plans, r.block.ts, now)
            /\ spoilt' = r.spoilt
  BY DEF UpdatePlanMessage
<1>2. Rolled(r, tasks)
  BY RollOverMoves
<1>3. PICK now \in TaskMaps :
         /\ DOMAIN now \subseteq DOMAIN r.block.tasks
         /\ \A k \in DOMAIN now : now[k] = r.block.tasks[k]
         /\ block' = [r.block EXCEPT !.tasks = now]
         /\ plans' = r.plans \/ plans' = [r.plans EXCEPT ![r.block.ts] = now]
         /\ spoilt' = r.spoilt
  <2>1. r.block.tasks \in TaskMaps
    BY <1>2 DEF Rolled
  <2> DEFINE b == r.block.tasks
             e == Except(b, {ThinkingTask})
  <2> HIDE DEF b
  <2>2. e \in TaskMaps /\ DOMAIN e = DOMAIN b \ {ThinkingTask} /\ \A k \in DOMAIN b \ {ThinkingTask} : e[k] = b[k]
    BY <2>1, ExceptIs, Zenon DEF b
  <2> HIDE DEF e
  <2>3. e \in TaskMaps /\ DOMAIN e \subseteq DOMAIN b /\ \A k \in DOMAIN e : e[k] = b[k]
    BY <2>2
  <2> QED
    BY <1>1, <2>1, <2>3 DEF ShownPlan, b, e
<1>4. /\ block' \in [ts : Nat, earlier : SUBSET Nat, tasks : TaskMaps] /\ block'.ts = r.block.ts
      /\ block'.earlier = r.block.earlier /\ block'.tasks = now
  BY <1>2, <1>3 DEF Rolled
<1>5. /\ plans' \in Seq(TaskMaps) /\ DOMAIN plans' = DOMAIN r.plans
      /\ \A m \in DOMAIN plans' \ {block'.ts} : plans'[m] = r.plans[m]
  BY <1>2, <1>3, <1>4 DEF Rolled
<1>6. ASSUME NEW m \in LeftMessages'
      PROVE  \/ m \in LeftMessages /\ plans'[m] = plans[m]
             \/ /\ m = block.ts /\ plans'[m] = Frozen(tasks)
                /\ DOMAIN block'.tasks \cap InStatus(tasks, Finished) = {}
  <2>1. m \in DOMAIN plans' /\ m \notin spoilt' /\ m # block'.ts
    BY DEF LeftMessages
  <2>2. m \in LeftMessages \cup {block.ts} /\ plans'[m] = r.plans[m]
    BY <1>2, <1>3, <1>4, <1>5, <2>1 DEF Rolled
  <2>3. CASE m \in LeftMessages
    BY <1>2, <2>2, <2>3 DEF Rolled
  <2>4. CASE m = block.ts
    <3>1. /\ r.plans[block.ts] = Frozen(tasks)
          /\ r.block.tasks = Except(tasks, InStatus(tasks, Finished))
      BY <1>2, <1>4, <2>1, <2>4 DEF Rolled
    <3>2. DOMAIN r.block.tasks \cap InStatus(tasks, Finished) = {}
      <4>1. DOMAIN Except(tasks, InStatus(tasks, Finished)) = DOMAIN tasks \ InStatus(tasks, Finished)
        BY ExceptIs, Zenon
      <4> QED
        BY <3>1, <4>1
    <3> QED
      BY <1>3, <1>4, <2>2, <2>4, <3>1, <3>2
  <2> QED
    BY <2>2, <2>3, <2>4
<1>7. DOMAIN r.block.tasks \subseteq DOMAIN tasks /\ \A k \in DOMAIN r.block.tasks : r.block.tasks[k] = tasks[k]
  <2>1. LET e == Except(tasks, InStatus(tasks, Finished)) IN
        /\ DOMAIN e = DOMAIN tasks \ InStatus(tasks, Finished)
        /\ \A k \in DOMAIN tasks \ InStatus(tasks, Finished) : e[k] = tasks[k]
    BY ExceptIs, Zenon
  <2> QED
    BY <1>2, <2>1 DEF Rolled
<1>8. DOMAIN block'.tasks \subseteq DOMAIN tasks /\ \A k \in DOMAIN block'.tasks : block'.tasks[k] = tasks[k]
  BY <1>3, <1>4, <1>7
<1>9. /\ spoilt' \subseteq DOMAIN plans' /\ block'.ts \in DOMAIN plans'
      /\ block'.earlier \subseteq DOMAIN plans' /\ block'.ts \notin block'.earlier
  BY <1>2, <1>3, <1>4, <1>5 DEF Rolled
<1> QED
  BY <1>4, <1>5, <1>6, <1>8, <1>9 DEF Updated

(* The messages, of which the session says nothing. *)
MessagesInv ==
  /\ showing \in [at : PlanPlaces, pending : SUBSET ToolCalls, running : SUBSET ToolCalls,
                  made : SUBSET StepNames, attempts : Nat]
  /\ block \in [ts : Nat, earlier : SUBSET Nat, tasks : TaskMaps] /\ plans \in Seq(TaskMaps)
  /\ PlanIsPosted /\ TasksAreSteps /\ LeftAreFinished /\ LeftAreApart /\ StepsAreNew /\ LastIsShown

SessionInv ==
  /\ SessionIsKept /\ stuck \in BOOLEAN
  /\ session \in [status : {"active", "processing"}, kept : BOOLEAN, ticking : BOOLEAN]

LEMMA PlanOfParts == ASSUME MessagesInv', SessionInv' PROVE PlanInv'
BY DEF PlanInv, MessagesInv, SessionInv, PlanTyped

LEMMA UpdateKeeps ==
  ASSUME PlanInv, NEW tasks \in TaskMaps, UpdatePlanMessage(tasks),
         showing' \in [at : PlanPlaces, pending : SUBSET ToolCalls, running : SUBSET ToolCalls,
                       made : SUBSET StepNames, attempts : Nat],
         showing.at \in PlanBegins, showing'.at \notin {"begin", "saving", "ending", "over"},
         showing.made \ showing.pending \subseteq showing'.made \ showing'.pending,
         showing'.pending \cup showing'.running \subseteq showing'.made,
         DOMAIN tasks \subseteq {ThinkingTask, ModelTask} \cup (showing'.made \ showing'.pending),
         ThinkingTask \in DOMAIN tasks => tasks[ThinkingTask] = InProgress,
         \A m \in LeftMessages : DOMAIN plans[m] \cap DOMAIN tasks \subseteq {ModelTask}
  PROVE  MessagesInv'
<1>1. CASE block.ts = 0
  <2>1. UNCHANGED <<block, plans, spoilt>>
    BY <1>1 DEF UpdatePlanMessage
  <2>2. LeftMessages' = LeftMessages /\ ~EndsTooFull
    BY <2>1 DEF LeftMessages, EndsTooFull, PlanBegins
  <2>3. PlanIsPosted' /\ LastIsShown'
    BY <2>1 DEF PlanInv, PlanIsPosted, LastIsShown
  <2>4. TasksAreSteps'
    BY <2>1 DEF PlanInv, TasksAreSteps
  <2>5. LeftAreFinished' /\ LeftAreApart'
    BY <2>1, <2>2 DEF PlanInv, LeftAreFinished, LeftAreApart
  <2>6. StepsAreNew'
    BY <2>1, <2>2 DEF PlanInv, StepsAreNew, PlanBegins
  <2> QED
    BY <2>1, <2>3, <2>4, <2>5, <2>6 DEF MessagesInv, PlanInv, PlanTyped
<1>2. CASE block.ts # 0
  <2>1. Updated(tasks)
    BY <1>2, UpdateMoves DEF PlanInv
  <2>2. ~EndsTooFull /\ ~EndsTooFull'
    BY DEF EndsTooFull, PlanBegins
  <2>3. PlanIsPosted' /\ LastIsShown'
    BY <2>1 DEF Updated, PlanIsPosted, LastIsShown
  <2>4. TasksAreSteps'
    BY <2>1 DEF Updated, TasksAreSteps
  <2>5. /\ InStatus(Frozen(tasks), {InProgress}) = {}
        /\ DOMAIN Frozen(tasks) = InStatus(tasks, Finished)
        /\ DOMAIN Frozen(tasks) \subseteq DOMAIN tasks \ {ThinkingTask}
    <3>1. /\ InStatus(Frozen(tasks), {InProgress}) = {}
          /\ DOMAIN Frozen(tasks) = InStatus(tasks, Finished)
      BY FrozenIs, Zenon
    <3> QED
      BY <3>1 DEF InStatus, Finished, InProgress
  <2>6. /\ \A m \in LeftMessages : /\ InStatus(plans[m], {InProgress}) = {}
                                   /\ DOMAIN plans[m] \subseteq {ModelTask} \cup (showing.made \ showing.pending)
        /\ \A m, n \in LeftMessages : m # n => DOMAIN plans[m] \cap DOMAIN plans[n] \subseteq {ModelTask}
    BY <2>2 DEF PlanInv, LeftAreFinished, LeftAreApart, StepsAreNew, PlanBegins
  <2>7. LeftAreFinished'
    BY <2>1, <2>5, <2>6 DEF Updated, LeftAreFinished
  <2>8. LeftAreApart'
    <3> SUFFICES ASSUME NEW m \in LeftMessages', NEW n \in LeftMessages', m # n
                 PROVE  DOMAIN plans'[m] \cap DOMAIN plans'[n] \subseteq {ModelTask}
      BY DEF LeftAreApart
    <3>1. CASE m = block.ts /\ plans'[m] = Frozen(tasks)
      BY <2>1, <2>5, <3>1 DEF Updated
    <3>2. CASE n = block.ts /\ plans'[n] = Frozen(tasks)
      BY <2>1, <2>5, <3>2 DEF Updated
    <3>3. CASE m \in LeftMessages /\ plans'[m] = plans[m] /\ n \in LeftMessages /\ plans'[n] = plans[n]
      BY <2>6, <3>3
    <3> QED
      BY <2>1, <3>1, <3>2, <3>3 DEF Updated
  <2>9. StepsAreNew'
    <3> SUFFICES ASSUME NEW m \in LeftMessages'
                 PROVE  /\ DOMAIN plans'[m] \subseteq {ModelTask} \cup (showing'.made \ showing'.pending)
                        /\ DOMAIN plans'[m] \cap DOMAIN block'.tasks \subseteq {ModelTask}
      BY DEF StepsAreNew
    <3>1. CASE m \in LeftMessages /\ plans'[m] = plans[m]
      BY <2>1, <2>6, <3>1 DEF Updated
    <3>2. CASE m = block.ts /\ plans'[m] = Frozen(tasks) /\ DOMAIN block'.tasks \cap InStatus(tasks, Finished) = {}
      BY <2>5, <3>2
    <3> QED
      BY <2>1, <3>1, <3>2 DEF Updated
  <2> QED
    BY <2>1, <2>3, <2>4, <2>7, <2>8, <2>9 DEF MessagesInv, Updated
<1> QED
  BY <1>1, <1>2

LEMMA StepsKeep ==
  ASSUME PlanInv, UNCHANGED <<block, plans, spoilt>>,
         showing' \in [at : PlanPlaces, pending : SUBSET ToolCalls, running : SUBSET ToolCalls,
                       made : SUBSET StepNames, attempts : Nat],
         showing.made \ showing.pending \subseteq showing'.made \ showing'.pending,
         showing'.pending \cup showing'.running \subseteq showing'.made,
         showing'.at \in PlanBegins => showing.at \in PlanBegins, showing'.at # "begin",
         showing'.at \in {"saving", "ending", "over"} =>
           showing.at \in {"saving", "ending", "over"} \/ block.ts = 0,
         showing.at \in {"ending", "over"} => showing'.at \in {"ending", "over"}
  PROVE  MessagesInv'
<1>1. LeftMessages' = LeftMessages /\ (EndsTooFull => EndsTooFull')
  BY DEF LeftMessages, EndsTooFull
<1>2. PlanIsPosted' /\ LastIsShown'
  BY DEF PlanInv, PlanIsPosted, LastIsShown
<1>3. TasksAreSteps'
  BY DEF PlanInv, TasksAreSteps
<1>4. LeftAreFinished' /\ LeftAreApart'
  BY <1>1 DEF PlanInv, LeftAreFinished, LeftAreApart
<1>5. StepsAreNew'
  BY <1>1 DEF PlanInv, StepsAreNew
<1> QED
  BY <1>2, <1>3, <1>4, <1>5 DEF MessagesInv, PlanInv, PlanTyped

LEMMA LastUpdateMoves ==
  ASSUME PlanTyped, PlanIsPosted, block.ts # 0, NEW tasks \in TaskMaps, LastUpdate(tasks)
  PROVE  /\ plans' \in Seq(TaskMaps) /\ DOMAIN plans' = DOMAIN plans
         /\ \A m \in DOMAIN plans \ {block.ts} : plans'[m] = plans[m]
         /\ spoilt \subseteq spoilt' /\ spoilt' \subseteq DOMAIN plans /\ spoilt' \subseteq spoilt \cup {block.ts}
         /\ block.ts \in spoilt' \/ TooFull(tasks) \/ plans'[block.ts] = tasks
<1>1. plans \in Seq(TaskMaps) /\ block.ts \in DOMAIN plans /\ spoilt \subseteq DOMAIN plans
  BY DEF PlanTyped, PlanIsPosted
<1>2. CASE plans' = ShownPlan(plans, block.ts, tasks) /\ UNCHANGED spoilt
  BY <1>1, <1>2 DEF ShownPlan
<1>3. CASE spoilt' = spoilt \cup {block.ts} /\ UNCHANGED plans
  BY <1>1, <1>3
<1> QED
  BY <1>2, <1>3 DEF LastUpdate

LEMMA LastUpdateKeeps ==
  ASSUME PlanInv, block.ts # 0, NEW tasks \in TaskMaps, LastUpdate(tasks), NEW ts \in {0, block.ts},
         block' \in [ts : Nat, earlier : SUBSET Nat, tasks : TaskMaps],
         block'.ts = ts, block'.earlier = block.earlier, block'.tasks = tasks, NEW to \in PlanPlaces \ PlanBegins,
         showing' = [showing EXCEPT !.at = to], showing.at \notin {"ending", "over"},
         DOMAIN tasks \subseteq DOMAIN block.tasks \cup {ModelTask, RespondTask, ErrorTask},
         to # "posting" => InStatus(tasks, {InProgress}) = {}, to = "ending" <=> ts = 0, to # "over"
  PROVE  MessagesInv'
<1>1. /\ plans' \in Seq(TaskMaps) /\ DOMAIN plans' = DOMAIN plans
      /\ \A m \in DOMAIN plans \ {block.ts} : plans'[m] = plans[m]
      /\ spoilt \subseteq spoilt' /\ spoilt' \subseteq DOMAIN plans /\ spoilt' \subseteq spoilt \cup {block.ts}
      /\ block.ts \in spoilt' \/ TooFull(tasks) \/ plans'[block.ts] = tasks
  BY LastUpdateMoves DEF PlanInv
<1>2. /\ block' \in [ts : Nat, earlier : SUBSET Nat, tasks : TaskMaps]
      /\ block'.ts = ts /\ block'.earlier = block.earlier /\ block'.tasks = tasks
  OBVIOUS
<1>3. /\ showing' \in [at : PlanPlaces, pending : SUBSET ToolCalls, running : SUBSET ToolCalls,
                       made : SUBSET StepNames, attempts : Nat]
      /\ showing'.at = to /\ showing'.made = showing.made
      /\ showing'.pending = showing.pending /\ showing'.running = showing.running
  BY DEF PlanInv, PlanTyped
<1>4. PlanIsPosted'
  <2>1. PlanIsPosted /\ 0 \notin block.earlier
    BY DEF PlanInv, PlanIsPosted, PlanTyped
  <2> QED
    BY <1>1, <1>2, <1>3, <2>1 DEF PlanIsPosted, PlanBegins
<1>5. TasksAreSteps'
  BY <1>3 DEF TasksAreSteps
<1>6. LeftMessages' \subseteq LeftMessages \cup {block.ts} /\ (block.ts \in LeftMessages' => ts = 0 /\ block.ts \notin spoilt')
  BY <1>1, <1>2 DEF LeftMessages
<1>7. /\ \A m \in LeftMessages :
           /\ InStatus(plans[m], {InProgress}) = {} /\ plans'[m] = plans[m]
           /\ DOMAIN plans[m] \subseteq {ModelTask} \cup (showing.made \ showing.pending)
           /\ DOMAIN plans[m] \cap DOMAIN block.tasks \subseteq {ModelTask}
      /\ \A m, n \in LeftMessages : m # n => DOMAIN plans[m] \cap DOMAIN plans[n] \subseteq {ModelTask}
  BY <1>1 DEF PlanInv, LeftAreFinished, LeftAreApart, StepsAreNew, EndsTooFull, LeftMessages
<1>8. RespondTask \notin StepNames /\ ErrorTask \notin StepNames
  BY PlanAssumption DEF StepNames
<1>9. \A m \in LeftMessages : DOMAIN plans[m] \cap DOMAIN tasks \subseteq {ModelTask}
  BY <1>7, <1>8, PlanAssumption DEF PlanInv, PlanTyped
<1>10. block.ts \in LeftMessages' => /\ plans'[block.ts] = tasks \/ EndsTooFull'
                                     /\ InStatus(tasks, {InProgress}) = {}
  BY <1>1, <1>2, <1>3, <1>6 DEF EndsTooFull
<1>11. LeftAreFinished'
  BY <1>6, <1>7, <1>10 DEF LeftAreFinished
<1>12. LeftAreApart'
  BY <1>6, <1>7, <1>9, <1>10 DEF LeftAreApart
<1>13. StepsAreNew'
  BY <1>2, <1>3, <1>6, <1>7, <1>9 DEF StepsAreNew
<1>14. LastIsShown'
  BY <1>1, <1>2, <1>3 DEF LastIsShown
<1> QED
  BY <1>1, <1>2, <1>3, <1>4, <1>5, <1>11, <1>12, <1>13, <1>14 DEF MessagesInv

LEMMA SessionStays ==
  ASSUME PlanInv, UNCHANGED <<session, stuck>>,
         showing.at \notin {"begin", "session", "over"} => showing'.at \notin {"begin", "session", "over"}
  PROVE  SessionInv'
BY DEF PlanInv, PlanTyped, SessionIsKept, SessionInv

----------------------------------------------------------------------------
LEMMA SendKeeps == PlanInv /\ SendPlanMessage => PlanInv'
<1> SUFFICES ASSUME PlanInv, SendPlanMessage PROVE PlanInv'
  OBVIOUS
<1>1. /\ showing.at = "begin" /\ showing'.at = "session" /\ showing'.made = showing.made
      /\ showing'.pending = showing.pending /\ showing'.running = showing.running
      /\ showing' \in [at : PlanPlaces, pending : SUBSET ToolCalls, running : SUBSET ToolCalls,
                       made : SUBSET StepNames, attempts : Nat]
  BY DEF SendPlanMessage, Goes, PlanInv, PlanTyped, PlanPlaces, PlanBegins
<1>2. PICK ts \in {0, Len(plans')} :
         /\ block' = [ts |-> ts, earlier |-> {}, tasks |-> Placeholder]
         /\ \/ ts = 0 /\ UNCHANGED <<plans, spoilt>>
            \/ /\ plans' = Append(plans, Placeholder)
               /\ (ts = Len(plans') /\ spoilt' = spoilt) \/ (ts = 0 /\ spoilt' = spoilt \cup {Len(plans')})
  <2>1. CASE UNCHANGED <<plans, spoilt>> /\ block' = [ts |-> 0, earlier |-> {}, tasks |-> Placeholder]
    BY <2>1
  <2>2. CASE /\ plans' = Append(plans, Placeholder) /\ spoilt' = spoilt
             /\ block' = [ts |-> Len(plans'), earlier |-> {}, tasks |-> Placeholder]
    BY <2>2
  <2>3. CASE /\ plans' = Append(plans, Placeholder) /\ spoilt' = spoilt \cup {Len(plans')}
             /\ block' = [ts |-> 0, earlier |-> {}, tasks |-> Placeholder]
    BY <2>3
  <2> QED
    BY <2>1, <2>2, <2>3 DEF SendPlanMessage
<1>3. plans \in Seq(TaskMaps) /\ DOMAIN plans = 1..Len(plans) /\ Len(plans) \in Nat
  BY DEF PlanInv, PlanTyped
<1>4. /\ plans' \in Seq(TaskMaps) /\ Len(plans') \in Nat /\ DOMAIN plans' \subseteq DOMAIN plans \cup {Len(plans')}
      /\ \A m \in DOMAIN plans : m \in DOMAIN plans' /\ plans'[m] = plans[m]
      /\ ts \in {0} \cup DOMAIN plans' /\ spoilt' \subseteq DOMAIN plans' /\ spoilt \subseteq spoilt'
      /\ DOMAIN plans' \subseteq DOMAIN plans \cup spoilt' \cup {ts}
      /\ ts = 0 \/ ts \notin DOMAIN plans
  <2>1. CASE ts = 0 /\ UNCHANGED <<plans, spoilt>>
    BY <1>3, <2>1 DEF PlanInv, PlanIsPosted
  <2>2. CASE /\ plans' = Append(plans, Placeholder)
             /\ (ts = Len(plans') /\ spoilt' = spoilt) \/ (ts = 0 /\ spoilt' = spoilt \cup {Len(plans')})
    <3>1. /\ plans' \in Seq(TaskMaps) /\ Len(plans') = Len(plans) + 1
          /\ \A m \in 1..Len(plans) : plans'[m] = plans[m]
      BY <1>3, <2>2, PlainMaps
    <3>2. DOMAIN plans' = DOMAIN plans \cup {Len(plans')} /\ Len(plans') \notin DOMAIN plans
      BY <1>3, <3>1
    <3> QED
      <4>1. spoilt \subseteq DOMAIN plans
        BY DEF PlanInv, PlanIsPosted
      <4>2. \A m \in DOMAIN plans : m \in DOMAIN plans' /\ plans'[m] = plans[m]
        BY <1>3, <3>1, <3>2
      <4>3. Len(plans') \in Nat
        BY <1>3, <3>1
      <4>4. /\ ts \in {0} \cup DOMAIN plans' /\ spoilt' \subseteq DOMAIN plans' /\ spoilt \subseteq spoilt'
            /\ DOMAIN plans' \subseteq DOMAIN plans \cup spoilt' \cup {ts}
            /\ ts = 0 \/ ts \notin DOMAIN plans
        BY <1>2, <2>2, <3>2, <4>1
      <4> QED
        BY <3>1, <3>2, <4>2, <4>3, <4>4
  <2> QED
    BY <1>2, <2>1, <2>2
<1>5. LeftMessages' \subseteq LeftMessages /\ ~EndsTooFull /\ ~EndsTooFull'
  BY <1>1, <1>2, <1>4 DEF LeftMessages, EndsTooFull, PlanInv, PlanIsPosted
<1>6. /\ block' \in [ts : Nat, earlier : SUBSET Nat, tasks : TaskMaps]
      /\ block'.ts = ts /\ block'.earlier = {} /\ block'.tasks = Placeholder
  BY <1>2, <1>4, PlainMaps
<1>7. PlanIsPosted'
  <2>1. PlanIsPosted
    BY DEF PlanInv
  <2> QED
    BY <1>1, <1>4, <1>6, <2>1 DEF PlanIsPosted
<1>8. TasksAreSteps' /\ LastIsShown'
  BY <1>1, <1>6, PlainMaps DEF TasksAreSteps, LastIsShown, Placeholder
<1>9. LeftAreFinished' /\ LeftAreApart'
  <2>1. \A m \in LeftMessages' : m \in LeftMessages /\ plans'[m] = plans[m]
    BY <1>4, <1>5 DEF LeftMessages
  <2>2. LeftAreFinished'
    BY <1>5, <2>1 DEF PlanInv, LeftAreFinished
  <2>3. LeftAreApart'
    BY <1>5, <2>1 DEF PlanInv, LeftAreApart
  <2> QED
    BY <2>2, <2>3
<1>10. StepsAreNew'
  <2>1. \A m \in LeftMessages : DOMAIN plans[m] \subseteq {ModelTask} \cup (showing.made \ showing.pending)
    BY <1>1 DEF PlanInv, StepsAreNew
  <2>2. showing.made \subseteq StepNames /\ ThinkingTask \notin StepNames
    BY PlanAssumption DEF PlanInv, PlanTyped, StepNames
  <2>3. DOMAIN block'.tasks = {ThinkingTask}
    BY <1>6, PlainMaps
  <2> QED
    BY <1>1, <1>4, <1>5, <2>1, <2>2, <2>3, PlanAssumption DEF StepsAreNew, LeftMessages
<1>11. MessagesInv'
  BY <1>1, <1>4, <1>6, <1>7, <1>8, <1>9, <1>10 DEF MessagesInv
<1>12. UNCHANGED <<session, stuck>>
  BY DEF SendPlanMessage
<1> QED
  BY <1>1, <1>11, <1>12, SessionStays, PlanOfParts

Showings == [at : PlanPlaces, pending : SUBSET ToolCalls, running : SUBSET ToolCalls,
             made : SUBSET StepNames, attempts : Nat]

LEMMA GoingOn ==
  ASSUME PlanInv, NEW from, NEW to \in PlanPlaces, Goes(from, to)
  PROVE  /\ showing' \in Showings /\ showing.at = from /\ showing'.at = to
         /\ showing'.pending = showing.pending /\ showing'.running = showing.running
         /\ showing'.made = showing.made
         /\ showing'.pending \cup showing'.running \subseteq showing'.made
BY DEF Goes, PlanInv, PlanTyped, PlanIsPosted, Showings

(* A place, and the calls, of a turn that goes on. *)
LEMMA ShowingAt ==
  ASSUME NEW r \in Showings, NEW x \in PlanPlaces
  PROVE  LET s == [r EXCEPT !.at = x] IN
         /\ s \in Showings /\ s.at = x /\ s.pending = r.pending /\ s.running = r.running
         /\ s.made = r.made /\ s.attempts = r.attempts
BY DEF Showings

LEMMA ShowingPending ==
  ASSUME NEW r \in Showings, NEW x \in SUBSET ToolCalls
  PROVE  LET s == [r EXCEPT !.pending = x] IN
         /\ s \in Showings /\ s.pending = x /\ s.at = r.at /\ s.running = r.running
         /\ s.made = r.made /\ s.attempts = r.attempts
BY DEF Showings

LEMMA ShowingRunning ==
  ASSUME NEW r \in Showings, NEW x \in SUBSET ToolCalls
  PROVE  LET s == [r EXCEPT !.running = x] IN
         /\ s \in Showings /\ s.running = x /\ s.at = r.at /\ s.pending = r.pending
         /\ s.made = r.made /\ s.attempts = r.attempts
BY DEF Showings

LEMMA ModelTaskKeeps == PlanInv /\ SetModelTask => PlanInv'
<1> SUFFICES ASSUME PlanInv, SetModelTask PROVE PlanInv'
  OBVIOUS
<1> DEFINE tasks == With(block.tasks, {ModelTask}, "complete")
<1>1. /\ showing' \in Showings /\ showing.at = "attempt" /\ showing'.at = "model"
      /\ showing'.pending = showing.pending /\ showing'.running = showing.running
      /\ showing'.made = showing.made
  <2>1. showing' = [[showing EXCEPT !.at = "model"] EXCEPT !.attempts = showing.attempts + 1]
    BY DEF SetModelTask
  <2> QED
    <3> DEFINE one == [showing EXCEPT !.at = "model"]
    <3>1. showing \in Showings /\ "model" \in PlanPlaces /\ showing.at = "attempt"
      BY DEF SetModelTask, PlanInv, PlanTyped, Showings, PlanPlaces, PlanBegins
    <3>2. /\ one \in Showings /\ one.at = "model" /\ one.pending = showing.pending
          /\ one.running = showing.running /\ one.made = showing.made
      BY <3>1, ShowingAt, Zenon
    <3>3. showing' = [one EXCEPT !.attempts = showing.attempts + 1] /\ showing.attempts + 1 \in Nat
      BY <2>1, <3>1 DEF Showings
    <3> HIDE DEF one
    <3> QED
      BY <3>1, <3>2, <3>3 DEF Showings
<1>2. /\ tasks \in TaskMaps /\ DOMAIN tasks = DOMAIN block.tasks \cup {ModelTask}
      /\ \A k \in DOMAIN block.tasks \ {ModelTask} : tasks[k] = block.tasks[k]
  <2>1. block.tasks \in TaskMaps /\ {ModelTask} \in SUBSET TaskNames /\ "complete" \in {InProgress} \cup Finished
    BY DEF PlanInv, PlanTyped, TaskNames, Finished
  <2> QED
    BY <2>1, WithIs
<1>3. /\ showing.pending \cup showing.running \subseteq showing.made /\ ThinkingTask # ModelTask
      /\ DOMAIN block.tasks \subseteq {ThinkingTask, ModelTask} \cup (showing.made \ showing.pending)
      /\ ThinkingTask \in DOMAIN block.tasks => block.tasks[ThinkingTask] = InProgress
      /\ \A m \in LeftMessages : DOMAIN plans[m] \cap DOMAIN block.tasks \subseteq {ModelTask}
  BY <1>1, PlanAssumption DEF PlanInv, PlanIsPosted, TasksAreSteps, StepsAreNew, PlanBegins
<1>4. UpdatePlanMessage(tasks)
  BY DEF SetModelTask
<1> HIDE DEF tasks
<1>5. MessagesInv'
  BY <1>1, <1>2, <1>3, <1>4, UpdateKeeps DEF Showings, PlanBegins
<1>6. UNCHANGED <<session, stuck>>
  BY DEF SetModelTask
<1> QED
  BY <1>1, <1>5, <1>6, SessionStays, PlanOfParts

LEMMA AfterModelKeeps ==
  ASSUME PlanInv, NEW calls \in SUBSET ToolCalls, NEW thoughts \in SUBSET Thoughts, AfterModel(calls, thoughts)
  PROVE  PlanInv'
<1> DEFINE shown == Except(block.tasks, {ThinkingTask})
           tasks == With(shown, thoughts, "complete")
<1>1. /\ showing' \in Showings /\ showing.at = "model" /\ showing'.at \in {"replying", "tools"}
      /\ showing'.pending = calls /\ showing'.running = showing.running
      /\ showing'.made = showing.made \cup calls \cup thoughts
  <2> DEFINE to == IF calls = {} THEN "replying" ELSE "tools"
  <2>1. showing' = [[[showing EXCEPT !.at = to] EXCEPT !.pending = calls]
                      EXCEPT !.made = showing.made \cup calls \cup thoughts]
    BY DEF AfterModel
  <2>2. to \in {"replying", "tools"} /\ calls \cup thoughts \subseteq StepNames
    BY DEF StepNames
  <2> HIDE DEF to
  <2> QED
    <3> DEFINE one == [showing EXCEPT !.at = to]
               two == [one EXCEPT !.pending = calls]
    <3>1. showing \in Showings /\ to \in PlanPlaces /\ showing.at = "model"
      BY <2>2 DEF AfterModel, PlanInv, PlanTyped, Showings, PlanPlaces, PlanBegins
    <3>2. /\ one \in Showings /\ one.at = to /\ one.pending = showing.pending
          /\ one.running = showing.running /\ one.made = showing.made
      BY <3>1, ShowingAt, Zenon
    <3> HIDE DEF one
    <3>3. /\ two \in Showings /\ two.at = to /\ two.pending = calls
          /\ two.running = showing.running /\ two.made = showing.made
      BY <3>2, ShowingPending, Zenon
    <3>4. showing' = [two EXCEPT !.made = showing.made \cup calls \cup thoughts]
      BY <2>1 DEF one
    <3> HIDE DEF two
    <3> QED
      BY <2>2, <3>1, <3>3, <3>4 DEF Showings
<1>2. /\ showing.pending \cup showing.running \subseteq showing.made
      /\ (calls \cup thoughts) \cap showing.made = {} /\ calls \cap thoughts = {}
      /\ DOMAIN block.tasks \subseteq {ThinkingTask, ModelTask} \cup (showing.made \ showing.pending)
      /\ \A m \in LeftMessages :
           /\ DOMAIN plans[m] \cap DOMAIN block.tasks \subseteq {ModelTask}
           /\ DOMAIN plans[m] \subseteq {ModelTask} \cup (showing.made \ showing.pending)
  BY <1>1, PlanAssumption DEF PlanInv, PlanIsPosted, TasksAreSteps, StepsAreNew, PlanBegins, AfterModel
<1>3. CASE thoughts = {}
  <2>1. UNCHANGED <<block, plans, spoilt>>
    BY <1>3 DEF AfterModel
  <2>2. MessagesInv'
    BY <1>1, <1>2, <2>1, StepsKeep DEF Showings, PlanBegins
  <2> QED
    BY <1>1, <2>2, SessionStays, PlanOfParts DEF AfterModel
<1>4. CASE thoughts # {}
  <2>1. thoughts \subseteq TaskNames /\ ThinkingTask \notin thoughts /\ ModelTask \notin thoughts
    BY PlanAssumption DEF TaskNames, StepNames
  <2>2. shown \in TaskMaps /\ DOMAIN shown = DOMAIN block.tasks \ {ThinkingTask}
    BY ExceptIs DEF PlanInv, PlanTyped
  <2> HIDE DEF shown
  <2>3. tasks \in TaskMaps /\ DOMAIN tasks = DOMAIN shown \cup thoughts
    BY <2>1, <2>2, WithIs DEF Finished
  <2>4. UpdatePlanMessage(tasks)
    BY <1>4 DEF AfterModel, shown
  <2> HIDE DEF tasks
  <2>5. MessagesInv'
    BY <1>1, <1>2, <2>1, <2>2, <2>3, <2>4, UpdateKeeps DEF Showings, PlanBegins
  <2> QED
    BY <1>1, <2>5, SessionStays, PlanOfParts DEF AfterModel
<1> QED
  BY <1>3, <1>4

LEMMA ShowCallKeeps ==
  ASSUME PlanInv, NEW c \in ToolCalls, NEW isPreload \in BOOLEAN, ShowCall(c, isPreload)
  PROVE  PlanInv'
<1> DEFINE shown == Except(block.tasks, {ThinkingTask})
           tasks == With(shown, {c}, InProgress)
<1>1. /\ showing' \in Showings /\ showing.at = "tools" /\ showing'.at = "tools"
      /\ showing'.pending = showing.pending \ {c} /\ showing'.running = showing.running \cup {c}
      /\ showing'.made = showing.made
  <2>1. showing' = [[showing EXCEPT !.pending = showing.pending \ {c}] EXCEPT !.running = showing.running \cup {c}]
    BY DEF ShowCall
  <2> QED
    <3> DEFINE one == [showing EXCEPT !.pending = showing.pending \ {c}]
    <3>1. /\ showing \in Showings /\ showing.at = "tools" /\ showing.pending \ {c} \in SUBSET ToolCalls
          /\ showing.running \cup {c} \in SUBSET ToolCalls
      BY DEF ShowCall, PlanInv, PlanTyped, Showings
    <3>2. /\ one \in Showings /\ one.pending = showing.pending \ {c} /\ one.at = showing.at
          /\ one.running = showing.running /\ one.made = showing.made
      BY <3>1, ShowingPending, Zenon
    <3> HIDE DEF one
    <3>3. /\ showing' \in Showings /\ showing'.pending = one.pending /\ showing'.at = one.at
          /\ showing'.running = showing.running \cup {c} /\ showing'.made = one.made
      BY <2>1, <3>1, <3>2, ShowingRunning, Zenon DEF one
    <3> QED
      BY <3>1, <3>2, <3>3
<1>2. /\ showing.pending \cup showing.running \subseteq showing.made /\ c \in showing.pending
      /\ DOMAIN block.tasks \subseteq {ThinkingTask, ModelTask} \cup (showing.made \ showing.pending)
      /\ \A m \in LeftMessages :
           /\ DOMAIN plans[m] \cap DOMAIN block.tasks \subseteq {ModelTask}
           /\ DOMAIN plans[m] \subseteq {ModelTask} \cup (showing.made \ showing.pending)
  BY <1>1 DEF PlanInv, PlanIsPosted, TasksAreSteps, StepsAreNew, PlanBegins, ShowCall
<1>3. CASE isPreload
  <2>1. UNCHANGED <<block, plans, spoilt>>
    BY <1>3 DEF ShowCall
  <2>2. MessagesInv'
    BY <1>1, <1>2, <2>1, StepsKeep DEF Showings, PlanBegins
  <2> QED
    BY <1>1, <2>2, SessionStays, PlanOfParts DEF ShowCall
<1>4. CASE ~isPreload
  <2>1. {c} \subseteq TaskNames /\ c \notin {ThinkingTask, ModelTask}
    BY PlanAssumption DEF TaskNames, StepNames
  <2>2. shown \in TaskMaps /\ DOMAIN shown = DOMAIN block.tasks \ {ThinkingTask}
    BY ExceptIs DEF PlanInv, PlanTyped
  <2> HIDE DEF shown
  <2>3. tasks \in TaskMaps /\ DOMAIN tasks = DOMAIN shown \cup {c}
    BY <2>1, <2>2, WithIs
  <2>4. UpdatePlanMessage(tasks)
    BY <1>4 DEF ShowCall, shown
  <2> HIDE DEF tasks
  <2>5. MessagesInv'
    BY <1>1, <1>2, <2>1, <2>2, <2>3, <2>4, UpdateKeeps DEF Showings, PlanBegins
  <2> QED
    BY <1>1, <2>5, SessionStays, PlanOfParts DEF ShowCall
<1> QED
  BY <1>3, <1>4

(* A call that ends, in one way or another. *)
LEMMA ShowEndKeeps ==
  ASSUME PlanInv, NEW c \in ToolCalls, NEW status \in Finished, ShowEnd(c, status),
         showing' \in Showings, showing.at = "tools",
         showing'.at \in {"model", "tools", "attempt", "skipped", "preserved"},
         showing'.made = showing.made, showing'.pending \subseteq showing.pending,
         showing'.running \subseteq showing.running
  PROVE  MessagesInv'
<1> DEFINE tasks == With(block.tasks, {c}, status)
<1>1. /\ showing.pending \cup showing.running \subseteq showing.made
      /\ DOMAIN block.tasks \subseteq {ThinkingTask, ModelTask} \cup (showing.made \ showing.pending)
      /\ ThinkingTask \in DOMAIN block.tasks => block.tasks[ThinkingTask] = InProgress
      /\ \A m \in LeftMessages : DOMAIN plans[m] \cap DOMAIN block.tasks \subseteq {ModelTask}
  BY DEF PlanInv, PlanIsPosted, TasksAreSteps, StepsAreNew, PlanBegins
<1>2. CASE c \notin DOMAIN block.tasks
  <2>1. UNCHANGED <<block, plans, spoilt>>
    BY <1>2 DEF ShowEnd
  <2> QED
    BY <1>1, <2>1, StepsKeep DEF Showings, PlanBegins
<1>3. CASE c \in DOMAIN block.tasks
  <2>1. {c} \in SUBSET TaskNames /\ c # ThinkingTask
    BY PlanAssumption DEF TaskNames, StepNames
  <2>2. /\ tasks \in TaskMaps /\ DOMAIN tasks = DOMAIN block.tasks \cup {c}
        /\ \A k \in DOMAIN block.tasks \ {c} : tasks[k] = block.tasks[k]
    <3>1. block.tasks \in TaskMaps /\ status \in {InProgress} \cup Finished
      BY DEF PlanInv, PlanTyped
    <3>2. tasks \in TaskMaps
      BY <2>1, <3>1, WithIs, Zenon
    <3>3. DOMAIN tasks = DOMAIN block.tasks \cup {c}
      BY DEF With
    <3>4. \A k \in DOMAIN block.tasks \ {c} : tasks[k] = block.tasks[k]
      BY DEF With
    <3> QED
      BY <3>2, <3>3, <3>4
  <2>3. UpdatePlanMessage(tasks)
    BY <1>3 DEF ShowEnd
  <2> HIDE DEF tasks
  <2>4. DOMAIN tasks = DOMAIN block.tasks /\ (ThinkingTask \in DOMAIN tasks => tasks[ThinkingTask] = InProgress)
    BY <1>1, <1>3, <2>1, <2>2
  <2> QED
    BY <1>1, <2>2, <2>3, <2>4, UpdateKeeps DEF Showings, PlanBegins
<1> QED
  BY <1>2, <1>3

LEMMA ToolEndKeeps ==
  ASSUME PlanInv, NEW c \in ToolCalls,
         ShowResult(c) \/ \E to \in {"attempt", "skipped", "preserved"} : OnToolError(c, to)
  PROVE  PlanInv'
<1>1. CASE ShowResult(c)
  <2> DEFINE left == showing.running \ {c}
             to   == IF left \cup showing.pending = {} THEN "model" ELSE "tools"
  <2>1. showing' = [[showing EXCEPT !.running = left] EXCEPT !.at = to]
    BY <1>1 DEF ShowResult
  <2>2. to \in {"model", "tools"}
    OBVIOUS
  <2> HIDE DEF to
  <2>3. /\ showing' \in Showings /\ showing.at = "tools" /\ showing'.at \in {"model", "tools"}
        /\ showing'.made = showing.made /\ showing'.pending = showing.pending
        /\ showing'.running \subseteq showing.running
    <3> DEFINE one == [showing EXCEPT !.running = left]
    <3>1. showing \in Showings /\ showing.at = "tools" /\ left \in SUBSET ToolCalls /\ to \in PlanPlaces
      BY <1>1, <2>2 DEF ShowResult, PlanInv, PlanTyped, Showings, PlanPlaces, PlanBegins
    <3>2. /\ one \in Showings /\ one.pending = showing.pending
          /\ one.running = left /\ one.made = showing.made
      BY <3>1, ShowingRunning, Zenon
    <3>3. showing' = [one EXCEPT !.at = to]
      BY <2>1
    <3> HIDE DEF one
    <3>4. /\ showing' \in Showings /\ showing'.at = to /\ showing'.pending = one.pending
          /\ showing'.running = one.running /\ showing'.made = one.made
      BY <3>1, <3>2, <3>3, ShowingAt, Zenon
    <3> QED
      BY <2>2, <3>1, <3>2, <3>4
  <2>4. ShowEnd(c, "complete") /\ UNCHANGED <<session, stuck>>
    BY <1>1 DEF ShowResult
  <2>5. MessagesInv'
    BY <2>3, <2>4, ShowEndKeeps DEF Finished
  <2> QED
    BY <2>3, <2>4, <2>5, SessionStays, PlanOfParts
<1>2. ASSUME NEW to \in {"attempt", "skipped", "preserved"}, OnToolError(c, to)
      PROVE  PlanInv'
  <2>1. showing' = [[[showing EXCEPT !.at = to] EXCEPT !.pending = {}] EXCEPT !.running = {}]
    BY <1>2 DEF OnToolError
  <2>2. /\ showing' \in Showings /\ showing.at = "tools" /\ showing'.at = to
        /\ showing'.made = showing.made /\ showing'.pending = {} /\ showing'.running = {}
    BY <1>2, <2>1 DEF OnToolError, PlanInv, PlanTyped, Showings, PlanPlaces, PlanBegins
  <2>3. PICK status \in Finished : ShowEnd(c, status)
    BY <1>2 DEF OnToolError, Finished
  <2>4. UNCHANGED <<session, stuck>>
    BY <1>2 DEF OnToolError
  <2>5. MessagesInv'
    BY <2>2, <2>3, ShowEndKeeps
  <2> QED
    BY <2>2, <2>4, <2>5, SessionStays, PlanOfParts
<1> QED
  BY <1>1, <1>2

----------------------------------------------------------------------------
LEMMA TasksMove ==
  ASSUME NEW b \in [ts : Nat, earlier : SUBSET Nat, tasks : TaskMaps], NEW t \in TaskMaps
  PROVE  LET c == [b EXCEPT !.tasks = t] IN
         /\ c \in [ts : Nat, earlier : SUBSET Nat, tasks : TaskMaps]
         /\ c.ts = b.ts /\ c.earlier = b.earlier /\ c.tasks = t
OBVIOUS

LEMMA FinalizeKeeps == PlanInv /\ FinalizePlan => PlanInv'
<1> SUFFICES ASSUME PlanInv, FinalizePlan PROVE PlanInv'
  OBVIOUS
<1>1. /\ showing' \in Showings /\ showing.at = "replying" /\ showing'.at = "posting"
      /\ showing'.pending = showing.pending /\ showing'.running = showing.running
      /\ showing'.made = showing.made /\ showing'.pending \cup showing'.running \subseteq showing'.made
  BY GoingOn DEF FinalizePlan, PlanPlaces
<1>2. UNCHANGED <<session, stuck>>
  BY DEF FinalizePlan
<1>3. MessagesInv'
  <2>1. CASE block.ts = 0
    <3>1. UNCHANGED <<block, plans, spoilt>>
      BY <2>1 DEF FinalizePlan
    <3> QED
      BY <1>1, <3>1, StepsKeep DEF Showings, PlanBegins
  <2>2. CASE block.ts # 0
    <3> DEFINE done   == AllDone(block.tasks)
               listed == With(done, {ModelTask}, "complete")
               tasks  == With(listed, {RespondTask}, InProgress)
    <3>1. block \in [ts : Nat, earlier : SUBSET Nat, tasks : TaskMaps] /\ block.tasks \in TaskMaps
      BY DEF PlanInv, PlanTyped
    <3>2. done \in TaskMaps /\ DOMAIN done = DOMAIN block.tasks
      BY <3>1, AllDoneIs, Zenon
    <3>3. {ModelTask} \in SUBSET TaskNames /\ {RespondTask} \in SUBSET TaskNames /\ "complete" \in {InProgress} \cup Finished
      BY DEF TaskNames, Finished
    <3> HIDE DEF done
    <3>4. listed \in TaskMaps
      BY <3>2, <3>3, WithIs, Zenon
    <3>5. DOMAIN listed = DOMAIN done \cup {ModelTask}
      BY DEF With
    <3> HIDE DEF listed
    <3>6. tasks \in TaskMaps
      BY <3>3, <3>4, WithIs, Zenon
    <3>7. DOMAIN tasks = DOMAIN listed \cup {RespondTask}
      BY DEF With
    <3>8. block' = [block EXCEPT !.tasks = tasks] /\ LastUpdate(tasks)
      BY <2>2 DEF FinalizePlan, listed, done
    <3>9. showing' = [showing EXCEPT !.at = "posting"]
      BY DEF FinalizePlan, Goes
    <3> HIDE DEF tasks
    <3>10. /\ block' \in [ts : Nat, earlier : SUBSET Nat, tasks : TaskMaps]
           /\ block'.ts = block.ts /\ block'.earlier = block.earlier /\ block'.tasks = tasks
      BY <3>1, <3>6, <3>8, TasksMove, Zenon
    <3> QED
      BY <1>1, <2>2, <3>2, <3>5, <3>6, <3>7, <3>8, <3>9, <3>10, LastUpdateKeeps DEF PlanPlaces, PlanBegins
  <2> QED
    BY <2>1, <2>2
<1> QED
  BY <1>1, <1>2, <1>3, SessionStays, PlanOfParts

LEMMA CompleteKeeps == PlanInv /\ CompletePlan => PlanInv'
<1> SUFFICES ASSUME PlanInv, CompletePlan PROVE PlanInv'
  OBVIOUS
<1>1. /\ showing' \in Showings /\ showing.at \in {"posted", "preserved"} /\ showing'.at = "saving"
      /\ showing'.pending = showing.pending /\ showing'.running = showing.running
      /\ showing'.made = showing.made /\ showing'.pending \cup showing'.running \subseteq showing'.made
  BY GoingOn DEF CompletePlan, PlanPlaces
<1>2. UNCHANGED <<session, stuck>>
  BY DEF CompletePlan
<1>3. MessagesInv'
  <2>1. CASE block.ts = 0
    <3>1. UNCHANGED <<block, plans, spoilt>>
      BY <2>1 DEF CompletePlan
    <3> QED
      BY <1>1, <2>1, <3>1, StepsKeep DEF Showings, PlanBegins
  <2>2. CASE block.ts # 0
    <3> DEFINE tasks == AllDone(block.tasks)
    <3>1. block \in [ts : Nat, earlier : SUBSET Nat, tasks : TaskMaps] /\ block.tasks \in TaskMaps
      BY DEF PlanInv, PlanTyped
    <3>2. tasks \in TaskMaps /\ DOMAIN tasks = DOMAIN block.tasks /\ InStatus(tasks, {InProgress}) = {}
      BY <3>1, AllDoneIs, Zenon
    <3>3. block' = [block EXCEPT !.tasks = tasks] /\ LastUpdate(tasks)
      BY <2>2 DEF CompletePlan
    <3>4. showing' = [showing EXCEPT !.at = "saving"]
      BY DEF CompletePlan, Goes
    <3> HIDE DEF tasks
    <3>5. /\ block' \in [ts : Nat, earlier : SUBSET Nat, tasks : TaskMaps]
          /\ block'.ts = block.ts /\ block'.earlier = block.earlier /\ block'.tasks = tasks
      BY <3>1, <3>2, <3>3, TasksMove, Zenon
    <3> QED
      BY <1>1, <2>2, <3>2, <3>3, <3>4, <3>5, LastUpdateKeeps DEF PlanPlaces, PlanBegins
  <2> QED
    BY <2>1, <2>2
<1> QED
  BY <1>1, <1>2, <1>3, SessionStays, PlanOfParts

LEMMA ErrorKeeps == PlanInv /\ SetPlanError => PlanInv'
<1> SUFFICES ASSUME PlanInv, SetPlanError PROVE PlanInv'
  OBVIOUS
<1>1. /\ showing' \in Showings /\ showing.at = "wrong" /\ showing'.at = "ending"
      /\ showing'.pending = showing.pending /\ showing'.running = showing.running
      /\ showing'.made = showing.made /\ showing'.pending \cup showing'.running \subseteq showing'.made
  BY GoingOn DEF SetPlanError, PlanPlaces
<1>2. UNCHANGED <<session, stuck>>
  BY DEF SetPlanError
<1>3. MessagesInv'
  <2>1. CASE block.ts = 0
    <3>1. UNCHANGED <<block, plans, spoilt>>
      BY <2>1 DEF SetPlanError
    <3> QED
      BY <1>1, <2>1, <3>1, StepsKeep DEF Showings, PlanBegins
  <2>2. CASE block.ts # 0
    <3> DEFINE done  == AllDone(block.tasks)
               tasks == With(done, {ErrorTask}, "error")
    <3>1. block \in [ts : Nat, earlier : SUBSET Nat, tasks : TaskMaps] /\ block.tasks \in TaskMaps
      BY DEF PlanInv, PlanTyped
    <3>2. done \in TaskMaps /\ DOMAIN done = DOMAIN block.tasks /\ InStatus(done, {InProgress}) = {}
      BY <3>1, AllDoneIs, Zenon
    <3>3. {ErrorTask} \in SUBSET TaskNames /\ "error" \in {InProgress} \cup Finished
      BY DEF TaskNames, Finished
    <3>4. block' = [block EXCEPT !.tasks = tasks, !.ts = 0] /\ LastUpdate(tasks)
      BY <2>2 DEF SetPlanError
    <3> HIDE DEF done
    <3>5. tasks \in TaskMaps
      BY <3>2, <3>3, WithIs, Zenon
    <3>6. DOMAIN tasks = DOMAIN done \cup {ErrorTask} /\ InStatus(tasks, {InProgress}) = {}
      BY <3>2 DEF With, InStatus, InProgress
    <3>7. showing' = [showing EXCEPT !.at = "ending"]
      BY DEF SetPlanError, Goes
    <3> HIDE DEF tasks
    <3>8. /\ block' \in [ts : Nat, earlier : SUBSET Nat, tasks : TaskMaps]
          /\ block'.ts = 0 /\ block'.earlier = block.earlier /\ block'.tasks = tasks
      <4> DEFINE moved == [block EXCEPT !.tasks = tasks]
      <4>1. /\ moved \in [ts : Nat, earlier : SUBSET Nat, tasks : TaskMaps]
            /\ moved.earlier = block.earlier /\ moved.tasks = tasks
        BY <3>1, <3>5, TasksMove, Zenon
      <4>2. block' = [moved EXCEPT !.ts = 0]
        BY <3>4
      <4> HIDE DEF moved
      <4> QED
        BY <4>1, <4>2
    <3> QED
      BY <1>1, <2>2, <3>2, <3>4, <3>5, <3>6, <3>7, <3>8, LastUpdateKeeps DEF PlanPlaces, PlanBegins
  <2> QED
    BY <2>1, <2>2
<1> QED
  BY <1>1, <1>2, <1>3, SessionStays, PlanOfParts

LEMMA DeleteKeeps == PlanInv /\ DeletePlan => PlanInv'
<1> SUFFICES ASSUME PlanInv, DeletePlan PROVE PlanInv'
  OBVIOUS
<1>1. /\ showing' \in Showings /\ showing.at = "skipped" /\ showing'.at = "saving"
      /\ showing'.pending = showing.pending /\ showing'.running = showing.running
      /\ showing'.made = showing.made /\ showing'.pending \cup showing'.running \subseteq showing'.made
  BY GoingOn DEF DeletePlan, PlanPlaces
<1>2. UNCHANGED <<session, stuck>>
  BY DEF DeletePlan
<1>3. MessagesInv'
  <2>1. CASE block.ts = 0
    <3>1. UNCHANGED <<block, plans, spoilt>>
      BY <2>1 DEF DeletePlan
    <3> QED
      BY <1>1, <2>1, <3>1, StepsKeep DEF Showings, PlanBegins
  <2>2. CASE block.ts # 0
    <3> DEFINE all == block.earlier \cup {block.ts}
    <3>1. /\ block' = [block EXCEPT !.ts = 0, !.earlier = {}]
          /\ spoilt' = spoilt \/ \E m \in all : spoilt' = spoilt \cup {m}
          /\ plans' = [m \in DOMAIN plans |-> IF m \in all \ spoilt' THEN Deleted ELSE plans[m]]
      BY <2>2 DEF DeletePlan
    <3>2. /\ block' \in [ts : Nat, earlier : SUBSET Nat, tasks : TaskMaps]
          /\ block'.ts = 0 /\ block'.earlier = {}
      <4> DEFINE moved == [block EXCEPT !.ts = 0]
      <4>1. moved \in [ts : Nat, earlier : SUBSET Nat, tasks : TaskMaps] /\ moved.ts = 0
        BY DEF PlanInv, PlanTyped
      <4>2. block' = [moved EXCEPT !.earlier = {}]
        BY <3>1
      <4> HIDE DEF moved
      <4> QED
        BY <4>1, <4>2
    <3>3. /\ plans \in Seq(TaskMaps) /\ DOMAIN plans = 1..Len(plans) /\ Len(plans) \in Nat
          /\ block.ts \in DOMAIN plans /\ block.earlier \cup spoilt \subseteq DOMAIN plans
      BY <2>2 DEF PlanInv, PlanTyped, PlanIsPosted
    <3>4. /\ plans' \in Seq(TaskMaps) /\ DOMAIN plans' = DOMAIN plans
          /\ \A m \in DOMAIN plans : plans'[m] = Deleted \/ (m \notin all \ spoilt' /\ plans'[m] = plans[m])
      <4>1. Deleted \in TaskMaps /\ \A m \in 1..Len(plans) : plans[m] \in TaskMaps
        BY <3>3, PlainMaps DEF Deleted
      <4>2. plans' = [m \in 1..Len(plans) |-> IF m \in all \ spoilt' THEN Deleted ELSE plans[m]]
        BY <3>1, <3>3
      <4>3. plans' \in [1..Len(plans) -> TaskMaps]
        BY <4>1, <4>2
      <4>4. plans' \in Seq(TaskMaps)
        BY <3>3, <4>3
      <4> QED
        BY <3>1, <4>4
    <3>5. DOMAIN Deleted = {} /\ InStatus(Deleted, {InProgress}) = {}
      BY PlainMaps DEF Deleted, InStatus
    <3>6. PlanIsPosted' /\ TasksAreSteps' /\ LastIsShown'
      <4>1. spoilt' \subseteq DOMAIN plans'
        BY <3>1, <3>3, <3>4
      <4>2. DOMAIN plans' = DOMAIN plans
        BY <3>4
      <4> HIDE <3>1, <3>3, <3>4
      <4> QED
        BY <1>1, <3>2, <4>1 DEF PlanIsPosted, TasksAreSteps, LastIsShown, PlanBegins
    <3>7. ASSUME NEW m \in LeftMessages'
          PROVE  plans'[m] = Deleted \/ (m \in LeftMessages /\ plans'[m] = plans[m])
      <4>1. m \in DOMAIN plans /\ m \notin spoilt'
        BY <3>4 DEF LeftMessages
      <4> QED
        BY <3>1, <3>4, <4>1 DEF LeftMessages
    <3>8. ~EndsTooFull /\ LeftAreFinished /\ LeftAreApart /\ StepsAreNew
      BY <1>1 DEF PlanInv, EndsTooFull
    <3>9. LeftAreFinished'
      BY <3>5, <3>7, <3>8 DEF LeftAreFinished
    <3>10. LeftAreApart'
      BY <3>5, <3>7, <3>8 DEF LeftAreApart
    <3>11. block'.tasks = block.tasks
      BY <3>1 DEF PlanInv, PlanTyped
    <3>12. StepsAreNew'
      BY <1>1, <3>5, <3>7, <3>8, <3>11 DEF StepsAreNew
    <3> QED
      BY <1>1, <3>2, <3>4, <3>6, <3>9, <3>10, <3>12 DEF MessagesInv, Showings
  <2> QED
    BY <2>1, <2>2
<1> QED
  BY <1>1, <1>2, <1>3, SessionStays, PlanOfParts

LEMMA CalmKeeps == PlanInv /\ (StopHalts \/ AttemptEnds \/ PostAnswer \/ SaveTurn) => PlanInv'
<1> SUFFICES ASSUME PlanInv, StopHalts \/ AttemptEnds \/ PostAnswer \/ SaveTurn PROVE PlanInv'
  OBVIOUS
<1>1. UNCHANGED <<block, plans, session, spoilt, stuck>>
  BY DEF StopHalts, AttemptEnds, PostAnswer, SaveTurn
<1>2. PICK from, to \in PlanPlaces :
        /\ Goes(from, to) /\ from \in {"tools", "model", "attempt", "posting", "saving"}
        /\ to \in {"wrong", "posted"} \/ (from = "model" /\ to = "attempt") \/ (from = "saving" /\ to = "ending")
  BY DEF StopHalts, AttemptEnds, PostAnswer, SaveTurn, PlanPlaces, PlanBegins
<1>3. /\ showing' \in Showings /\ showing.at = from /\ showing'.at = to
      /\ showing'.pending = showing.pending /\ showing'.running = showing.running
      /\ showing'.made = showing.made /\ showing'.pending \cup showing'.running \subseteq showing'.made
  BY <1>2, GoingOn
<1>4. MessagesInv'
  BY <1>1, <1>2, <1>3, StepsKeep DEF Showings, PlanBegins
<1> QED
  BY <1>1, <1>2, <1>3, <1>4, SessionStays, PlanOfParts

LEMMA StartKeeps ==
  ASSUME PlanInv, NEW hasReply \in BOOLEAN, StartSession(hasReply)
  PROVE  PlanInv'
<1>1. /\ showing' \in Showings /\ showing.at = "session" /\ showing'.at = "attempt"
      /\ showing'.pending = showing.pending /\ showing'.running = showing.running
      /\ showing'.made = showing.made /\ showing'.pending \cup showing'.running \subseteq showing'.made
  BY GoingOn DEF StartSession, PlanPlaces, PlanBegins
<1>2. UNCHANGED <<block, plans, spoilt>>
  BY DEF StartSession
<1>3. MessagesInv'
  BY <1>1, <1>2, StepsKeep DEF Showings, PlanBegins
<1>4. SessionInv'
  <2>1. /\ session \in [status : {"active", "processing"}, kept : BOOLEAN, ticking : BOOLEAN]
        /\ session.status = "processing" => session.kept \/ stuck
        /\ stuck \in BOOLEAN
    BY DEF PlanInv, PlanTyped, SessionIsKept
  <2>2. CASE UNCHANGED <<session, stuck>>
    BY <1>1, <2>1, <2>2 DEF SessionInv, SessionIsKept
  <2>3. CASE stuck' = FALSE /\ session' = [session EXCEPT !.kept = TRUE]
    BY <1>1, <2>1, <2>3 DEF SessionInv, SessionIsKept
  <2>4. CASE stuck' = FALSE /\ session' = [session EXCEPT !.kept = TRUE, !.status = "processing"]
    <3> DEFINE one == [session EXCEPT !.kept = TRUE]
    <3>1. one \in [status : {"active", "processing"}, kept : BOOLEAN, ticking : BOOLEAN] /\ one.kept = TRUE
      BY <2>1
    <3>2. session' = [one EXCEPT !.status = "processing"]
      BY <2>4
    <3> HIDE DEF one
    <3> QED
      BY <1>1, <2>4, <3>1, <3>2 DEF SessionInv, SessionIsKept
  <2> QED
    BY <2>2, <2>3, <2>4 DEF StartSession
<1> QED
  BY <1>3, <1>4, PlanOfParts

LEMMA StopSessionKeeps == PlanInv /\ StopSession => PlanInv'
<1> SUFFICES ASSUME PlanInv, StopSession PROVE PlanInv'
  OBVIOUS
<1>1. /\ showing' \in Showings /\ showing.at = "ending" /\ showing'.at = "over"
      /\ showing'.pending = showing.pending /\ showing'.running = showing.running
      /\ showing'.made = showing.made /\ showing'.pending \cup showing'.running \subseteq showing'.made
  BY GoingOn DEF StopSession, PlanPlaces
<1>2. UNCHANGED <<block, plans, spoilt>>
  BY DEF StopSession
<1>3. MessagesInv'
  BY <1>1, <1>2, StepsKeep DEF Showings, PlanBegins
<1>4. SessionInv'
  <2>1. /\ session \in [status : {"active", "processing"}, kept : BOOLEAN, ticking : BOOLEAN]
        /\ session.status = "processing" => session.kept \/ stuck
        /\ stuck \in BOOLEAN
    BY DEF PlanInv, PlanTyped, SessionIsKept
  <2>2. CASE ~session.kept /\ UNCHANGED <<session, stuck>>
    BY <2>1, <2>2 DEF SessionInv, SessionIsKept
  <2>3. CASE stuck' = TRUE /\ session' = [session EXCEPT !.kept = FALSE]
    BY <2>1, <2>3 DEF SessionInv, SessionIsKept
  <2>4. CASE stuck' = stuck /\ session' = [session EXCEPT !.kept = FALSE, !.status = "active"]
    <3> DEFINE one == [session EXCEPT !.kept = FALSE]
    <3>1. one \in [status : {"active", "processing"}, kept : BOOLEAN, ticking : BOOLEAN] /\ one.kept = FALSE
      BY <2>1
    <3>2. session' = [one EXCEPT !.status = "active"]
      BY <2>4
    <3> HIDE DEF one
    <3> QED
      BY <2>1, <2>4, <3>1, <3>2 DEF SessionInv, SessionIsKept
  <2> QED
    BY <2>2, <2>3, <2>4 DEF StopSession
<1> QED
  BY <1>3, <1>4, PlanOfParts

LEMMA SessionStepKeeps == PlanInv /\ (Tick \/ TickCalls \/ EndSessionNow) => PlanInv'
<1> SUFFICES ASSUME PlanInv, Tick \/ TickCalls \/ EndSessionNow PROVE PlanInv'
  OBVIOUS
<1>1. UNCHANGED <<showing, block, plans, spoilt>>
  BY DEF Tick, TickCalls, EndSessionNow
<1>2. MessagesInv'
  <2>1. LeftMessages' = LeftMessages /\ EndsTooFull' = EndsTooFull
    BY <1>1 DEF LeftMessages, EndsTooFull
  <2>2. PlanIsPosted' /\ TasksAreSteps' /\ LastIsShown'
    BY <1>1 DEF PlanInv, PlanIsPosted, TasksAreSteps, LastIsShown
  <2>3. LeftAreFinished' /\ LeftAreApart' /\ StepsAreNew'
    BY <1>1, <2>1 DEF PlanInv, LeftAreFinished, LeftAreApart, StepsAreNew
  <2> QED
    BY <1>1, <2>2, <2>3 DEF MessagesInv, PlanInv, PlanTyped
<1>3. SessionInv'
  <2>1. /\ session \in [status : {"active", "processing"}, kept : BOOLEAN, ticking : BOOLEAN]
        /\ session.status = "processing" => session.kept \/ stuck
        /\ session.kept => showing.at \notin {"begin", "session", "over"}
        /\ stuck \in BOOLEAN
    BY DEF PlanInv, PlanTyped, SessionIsKept
  <2>2. CASE Tick
    BY <1>1, <2>1, <2>2 DEF Tick, SessionInv, SessionIsKept
  <2>3. CASE EndSessionNow
    BY <1>1, <2>1, <2>3 DEF EndSessionNow, SessionInv, SessionIsKept
  <2>4. CASE TickCalls
    <3> DEFINE one == [session EXCEPT !.ticking = FALSE]
    <3>1. one \in [status : {"active", "processing"}, kept : BOOLEAN, ticking : BOOLEAN] /\ one.kept = session.kept
      BY <2>1
    <3>2. session' = [one EXCEPT !.status = "processing"] /\ stuck' = (stuck \/ ~session.kept)
      BY <2>4 DEF TickCalls
    <3> HIDE DEF one
    <3>3. /\ session' \in [status : {"active", "processing"}, kept : BOOLEAN, ticking : BOOLEAN]
          /\ session'.kept = session.kept
      BY <3>1, <3>2
    <3>4. stuck' \in BOOLEAN /\ (session.kept \/ stuck')
      BY <2>1, <3>2
    <3> QED
      BY <1>1, <2>1, <3>3, <3>4 DEF SessionInv, SessionIsKept
  <2> QED
    BY <2>2, <2>3, <2>4
<1> QED
  BY <1>2, <1>3, PlanOfParts

LEMMA PlanDeathKeeps == PlanInv /\ PlanDeath => PlanInv'
<1> SUFFICES ASSUME PlanInv, PlanDeath PROVE PlanInv'
  OBVIOUS
<1>1. /\ showing' \in Showings /\ showing'.at = "begin" /\ showing'.pending = {}
      /\ showing'.running = {} /\ showing'.made = showing.made
  <2> DEFINE one == [NoCalls EXCEPT !.made = showing.made]
  <2>1. /\ showing.made \in SUBSET StepNames /\ showing.attempts \in Nat
        /\ NoCalls \in Showings /\ NoCalls.at = "begin" /\ NoCalls.pending = {} /\ NoCalls.running = {}
    BY DEF PlanInv, PlanTyped, NoCalls, Showings, PlanPlaces, PlanBegins
  <2>2. /\ one \in Showings /\ one.at = "begin" /\ one.pending = {} /\ one.running = {}
        /\ one.made = showing.made
    BY <2>1 DEF Showings
  <2>3. showing' = [one EXCEPT !.attempts = showing.attempts]
    BY DEF PlanDeath
  <2> HIDE DEF one
  <2> QED
    BY <2>1, <2>2, <2>3 DEF Showings
<1>2. /\ block' = [ts |-> 0, earlier |-> {}, tasks |-> <<>>] /\ spoilt' = DOMAIN plans /\ UNCHANGED plans
      /\ <<>> \in TaskMaps /\ DOMAIN <<>> = {}
  BY PlainMaps DEF PlanDeath
<1>3. block' \in [ts : Nat, earlier : SUBSET Nat, tasks : TaskMaps] /\ block'.tasks = <<>>
  BY <1>2
<1>4. LeftMessages' = {}
  BY <1>2 DEF LeftMessages
<1>5. PlanIsPosted' /\ TasksAreSteps' /\ LastIsShown'
  BY <1>1, <1>2, <1>3 DEF PlanIsPosted, TasksAreSteps, LastIsShown
<1>6. LeftAreFinished' /\ LeftAreApart' /\ StepsAreNew'
  BY <1>4 DEF LeftAreFinished, LeftAreApart, StepsAreNew
<1>7. MessagesInv'
  BY <1>1, <1>2, <1>3, <1>5, <1>6 DEF MessagesInv, PlanInv, PlanTyped, Showings
<1>8. SessionInv'
  <2> DEFINE one == [session EXCEPT !.kept = FALSE]
  <2>1. /\ one \in [status : {"active", "processing"}, kept : BOOLEAN, ticking : BOOLEAN]
        /\ one.kept = FALSE /\ one.status = session.status
    BY DEF PlanInv, PlanTyped
  <2>2. session' = [one EXCEPT !.ticking = FALSE] /\ stuck' = (session.status = "processing")
    BY DEF PlanDeath
  <2> HIDE DEF one
  <2>3. /\ session' \in [status : {"active", "processing"}, kept : BOOLEAN, ticking : BOOLEAN]
        /\ session'.kept = FALSE /\ session'.status = session.status
    BY <2>1, <2>2
  <2> QED
    BY <1>1, <2>2, <2>3 DEF SessionInv, SessionIsKept
<1> QED
  BY <1>7, <1>8, PlanOfParts

LEMMA PlanInvStep == PlanInv /\ [PlanNext]_planVars => PlanInv'
<1> SUFFICES ASSUME PlanInv, [PlanNext]_planVars PROVE PlanInv'
  OBVIOUS
<1>1. CASE SendPlanMessage \/ SetModelTask
  BY <1>1, SendKeeps, ModelTaskKeeps
<1>2. CASE StopHalts \/ AttemptEnds \/ PostAnswer \/ SaveTurn
  BY <1>2, CalmKeeps
<1>3. CASE FinalizePlan \/ CompletePlan \/ SetPlanError \/ DeletePlan
  BY <1>3, FinalizeKeeps, CompleteKeeps, ErrorKeeps, DeleteKeeps
<1>4. CASE StopSession \/ Tick \/ TickCalls \/ EndSessionNow \/ PlanDeath
  BY <1>4, StopSessionKeeps, SessionStepKeeps, PlanDeathKeeps
<1>5. CASE \E b \in BOOLEAN : StartSession(b)
  BY <1>5, StartKeeps
<1>6. CASE \E cs \in SUBSET ToolCalls, ts \in SUBSET Thoughts : AfterModel(cs, ts)
  BY <1>6, AfterModelKeeps
<1>7. ASSUME NEW c \in ToolCalls, NEW b \in BOOLEAN, ShowCall(c, b)
      PROVE  PlanInv'
  BY <1>7, ShowCallKeeps
<1>8. ASSUME NEW c \in ToolCalls,
             ShowResult(c) \/ \E to \in {"attempt", "skipped", "preserved"} : OnToolError(c, to)
      PROVE  PlanInv'
  BY <1>8, ToolEndKeeps
<1>9. CASE UNCHANGED planVars
  <2>1. UNCHANGED <<showing, block, plans, spoilt, session, stuck>>
    BY <1>9 DEF planVars
  <2>2. LeftMessages' = LeftMessages /\ EndsTooFull' = EndsTooFull
    BY <2>1 DEF LeftMessages, EndsTooFull
  <2>3. PlanTyped' /\ PlanIsPosted' /\ TasksAreSteps' /\ LastIsShown' /\ SessionIsKept'
    BY <2>1 DEF PlanInv, PlanTyped, PlanIsPosted, TasksAreSteps, LastIsShown, SessionIsKept
  <2>4. LeftAreFinished' /\ LeftAreApart' /\ StepsAreNew'
    BY <2>1, <2>2 DEF PlanInv, LeftAreFinished, LeftAreApart, StepsAreNew
  <2> QED
    BY <2>3, <2>4 DEF PlanInv
<1> QED
  BY <1>1, <1>2, <1>3, <1>4, <1>5, <1>6, <1>7, <1>8, <1>9 DEF PlanNext

LEMMA PlanIsInductive == PlanSpec => []PlanInv
BY PlanAtFirst, PlanInvStep, PTL DEF PlanSpec

(* A turn that is over looks over in its thread (plan_block.py), however it *)
(* ended, unless its last plan was one Slack refuses.                       *)
THEOREM ATurnThatIsOverLooksOver == PlanSpec => []EndsAreShown
<1>1. PlanInv => EndsAreShown
  <2> SUFFICES ASSUME PlanInv, ~TooFull(block.tasks), showing.at = "over"
               PROVE  /\ \A m \in DOMAIN plans \ spoilt :
                           /\ InStatus(plans[m], {InProgress}) = {}
                           /\ \A n \in DOMAIN plans \ (spoilt \cup {m}) :
                                DOMAIN plans[m] \cap DOMAIN plans[n] \subseteq {ModelTask}
                      /\ session.status = "processing" => stuck
    BY DEF EndsAreShown
  <2>1. session.status = "processing" => stuck
    BY DEF PlanInv, SessionIsKept
  <2>2. DOMAIN plans \ spoilt \subseteq LeftMessages \cup {block.ts}
    BY DEF LeftMessages
  <2>3. /\ \A m \in LeftMessages : InStatus(plans[m], {InProgress}) = {}
        /\ \A m, n \in LeftMessages : m # n => DOMAIN plans[m] \cap DOMAIN plans[n] \subseteq {ModelTask}
    BY DEF PlanInv, LeftAreFinished, LeftAreApart, EndsTooFull
  <2>4. 0 \notin DOMAIN plans
    BY DEF PlanInv, PlanTyped
  <2>5. block.ts \in DOMAIN plans \ spoilt =>
          /\ InStatus(plans[block.ts], {InProgress}) = {}
          /\ \A m \in LeftMessages : DOMAIN plans[m] \cap DOMAIN plans[block.ts] \subseteq {ModelTask}
    BY <2>4 DEF PlanInv, LastIsShown, StepsAreNew
  <2> QED
    BY <2>1, <2>2, <2>3, <2>5
<1> QED
  BY <1>1, PlanIsInductive, PTL

----------------------------------------------------------------------------
(* A conversation of the web UI: its log, the turns it shows, and the tabs  *)
(* that follow it.                                                          *)

LogEvents    == [seq : Nat, type : EventTypes]
WriterPlaces == {"idle", "posted", "done", "refused", "naming", "named", "steering", "queued", "waking",
                 "woke", "submitted", "started", "running", "failed", "finished", "draining",
                 "resuming", "repairing"}
AtWork       == {"resuming", "submitted", "started", "running", "failed"}
TabRecord    == [pc : {"off", "replaying", "replayed", "live"}, inbox : Seq(Nat), got : SUBSET Nat, mark : Nat]

WebTyped ==
  /\ eventLog \in Seq(LogEvents) /\ lastSeq \in Nat
  /\ untold \in SUBSET [seq : Nat, by : Writers]
  /\ writer \in [Writers -> WriterPlaces]
  /\ stream \in [Streams -> TabRecord]

(* An event's number is above those before it. *)
NumbersRise ==
  /\ \A i, j \in DOMAIN eventLog : i < j => eventLog[i].seq < eventLog[j].seq
  /\ lastSeq # 0 => \A i \in DOMAIN eventLog : eventLog[i].seq <= lastSeq

(* A log that shows a turn at work has one, unless the process is starting  *)
(* and the repair has not read the log yet.                                 *)
HasTurn    == \E w \in WebWorkers : writer[w] \in AtWork
TurnsShown == bootStage = "up" \/ resuming => (Open(eventLog) => HasTurn)

Told(n) == n \in Seqs(eventLog) /\ \A o \in untold : o.seq # n

UntoldAreLogged ==
  /\ \A u \in untold : u.seq \in Seqs(eventLog)
  /\ \A u, v \in untold : u.seq = v.seq => u = v

(* What a tab's queue holds was told of, in the order of the log but for    *)
(* what was overtaken.                                                      *)
InboxIsTold(s) ==
  /\ \A i \in DOMAIN stream[s].inbox : Told(stream[s].inbox[i])
  /\ \A i, j \in DOMAIN stream[s].inbox :
       i < j /\ stream[s].inbox[j] < stream[s].inbox[i] => stream[s].inbox[j] \in overtaken

(* Up to its mark a tab has what it will ever have: the rest was overtaken, *)
(* or is about to be.                                                       *)
MarkIsBehind(s) ==
  /\ stream[s].mark = 0 \/ stream[s].mark \in Seqs(eventLog)
  /\ \A n \in Seqs(eventLog) : n <= stream[s].mark =>
       \/ n \in stream[s].got \cup overtaken
       \/ ~Told(n) /\ \E v \in Seqs(eventLog) : v > n /\ Told(v)

(* Beyond its mark, what a tab that has replayed needs is on its way. *)
RestIsComing(s) ==
  stream[s].pc \in {"replayed", "live"} =>
    \A n \in Seqs(eventLog) : n > stream[s].mark =>
      \/ n \in overtaken \/ ~Told(n)
      \/ \E i \in DOMAIN stream[s].inbox : stream[s].inbox[i] = n

TabsFollow ==
  deleting = "idle" =>
    UntoldAreLogged /\ \A s \in Streams : InboxIsTold(s) /\ MarkIsBehind(s) /\ RestIsComing(s)

WebInv == WebTyped /\ NumbersRise /\ TurnsShown /\ TabsFollow

LEMMA WebAtFirst == WebInit => WebInv
<1> SUFFICES ASSUME WebInit PROVE WebInv
  OBVIOUS
<1>1. eventLog = <<>> /\ DOMAIN eventLog = {} /\ lastSeq = 0 /\ untold = {}
  BY DEF WebInit
<1>2. NewStream \in TabRecord /\ NewStream.pc = "off" /\ NewStream.mark = 0 /\ NewStream.inbox = <<>>
  BY DEF NewStream, TabRecord
<1>3. WebTyped
  BY <1>1, <1>2 DEF WebInit, WebTyped, WriterPlaces
<1>4. NumbersRise
  BY <1>1 DEF NumbersRise
<1>5. TurnsShown
  BY <1>1 DEF TurnsShown, Open
<1>6. Seqs(eventLog) = {}
  BY <1>1 DEF Seqs
<1>7. TabsFollow
  BY <1>1, <1>2, <1>6 DEF WebInit, TabsFollow, UntoldAreLogged, InboxIsTold, MarkIsBehind, RestIsComing
<1> QED
  BY <1>3, <1>4, <1>5, <1>7 DEF WebInv

----------------------------------------------------------------------------
(* An event more in the log. *)
LEMMA AppendMoves ==
  ASSUME WebInv, NEW t \in Writers, NEW x \in EventTypes, AppendEvent(t, x)
  PROVE  /\ LastSeqFor \in Nat /\ \A n \in Seqs(eventLog) : n \in Nat /\ n <= LastSeqFor
         /\ eventLog' \in Seq(LogEvents) /\ lastSeq' \in Nat
         /\ untold' = untold \cup {[seq |-> LastSeqFor + 1, by |-> t]}
         /\ Seqs(eventLog') = Seqs(eventLog) \cup {LastSeqFor + 1}
         /\ NumbersRise'
         /\ x = "end" => ~Open(eventLog')
         /\ x \in {"message", "other"} => (Open(eventLog') => Open(eventLog))
<1> DEFINE n == Len(eventLog)
<1>1. /\ eventLog \in Seq(LogEvents) /\ n \in Nat /\ DOMAIN eventLog = 1..n /\ lastSeq \in Nat
      /\ \A i \in 1..n : eventLog[i] \in LogEvents /\ eventLog[i].seq \in Nat
  <2>1. eventLog \in Seq(LogEvents) /\ lastSeq \in Nat
    BY DEF WebInv, WebTyped
  <2>2. n \in Nat /\ DOMAIN eventLog = 1..n /\ \A i \in 1..n : eventLog[i] \in LogEvents
    BY <2>1
  <2> QED
    BY <2>1, <2>2 DEF LogEvents
<1>2. LastSeqFor \in Nat /\ \A i \in 1..n : eventLog[i].seq <= LastSeqFor
  <2>1. CASE lastSeq # 0
    BY <1>1, <2>1 DEF LastSeqFor, WebInv, NumbersRise
  <2>2. CASE lastSeq = 0 /\ eventLog = <<>>
    <3>1. n = 0
      BY <2>2
    <3> QED
      BY <1>1, <2>2, <3>1 DEF LastSeqFor
  <2>3. CASE lastSeq = 0 /\ eventLog # <<>>
    <3>1. n \in 1..n /\ LastSeqFor = eventLog[n].seq
      BY <1>1, <2>3 DEF LastSeqFor, Last
    <3> QED
      BY <1>1, <3>1 DEF WebInv, NumbersRise
  <2> QED
    BY <2>1, <2>2, <2>3
<1> DEFINE e == Event(LastSeqFor + 1, x)
<1>3. e \in LogEvents /\ e.seq = LastSeqFor + 1 /\ e.type = x
  BY <1>2 DEF Event, LogEvents
<1>4. eventLog' = Append(eventLog, e) /\ lastSeq' = LastSeqFor + 1
  BY DEF AppendEvent
<1> HIDE DEF e
<1>5. /\ eventLog' \in Seq(LogEvents) /\ Len(eventLog') = n + 1 /\ eventLog'[n + 1] = e
      /\ \A i \in 1..n : eventLog'[i] = eventLog[i]
  BY <1>1, <1>3, <1>4
<1>6. DOMAIN eventLog' = 1..n+1 /\ n + 1 \in DOMAIN eventLog' /\ \A i \in DOMAIN eventLog' : i \in 1..n \/ i = n + 1
  BY <1>1, <1>5
<1> HIDE DEF n
<1>7. Seqs(eventLog') = Seqs(eventLog) \cup {LastSeqFor + 1}
  BY <1>1, <1>3, <1>5, <1>6 DEF Seqs
<1>8. NumbersRise'
  <2>1. \A i, j \in DOMAIN eventLog' : i < j => eventLog'[i].seq < eventLog'[j].seq
    <3> SUFFICES ASSUME NEW i \in DOMAIN eventLog', NEW j \in DOMAIN eventLog', i < j
                 PROVE  eventLog'[i].seq < eventLog'[j].seq
      OBVIOUS
    <3>1. i \in 1..n /\ (j \in 1..n \/ j = n + 1)
      BY <1>1, <1>6
    <3>2. CASE j \in 1..n
      BY <1>1, <1>5, <3>1, <3>2 DEF WebInv, NumbersRise
    <3>3. CASE j = n + 1
      BY <1>1, <1>2, <1>3, <1>5, <3>1, <3>3
    <3> QED
      BY <3>1, <3>2, <3>3
  <2>2. \A i \in DOMAIN eventLog' : eventLog'[i].seq <= LastSeqFor + 1
    <3> SUFFICES ASSUME NEW i \in DOMAIN eventLog' PROVE eventLog'[i].seq <= LastSeqFor + 1
      OBVIOUS
    <3>1. CASE i \in 1..n
      BY <1>1, <1>2, <1>5, <3>1
    <3>2. CASE i = n + 1
      BY <1>2, <1>3, <1>5, <3>2
    <3> QED
      BY <1>6, <3>1, <3>2
  <2> QED
    BY <1>4, <2>1, <2>2 DEF NumbersRise
<1>9. ASSUME x = "end" PROVE ~Open(eventLog')
  <2> SUFFICES ASSUME NEW i \in DOMAIN eventLog', eventLog'[i].type = "start"
               PROVE  \E j \in i+1..Len(eventLog') : eventLog'[j].type = "end"
    BY DEF Open
  <2>1. i # n + 1
    BY <1>3, <1>5, <1>9
  <2>2. i \in 1..n
    BY <1>6, <2>1
  <2>3. n + 1 \in i+1..Len(eventLog')
    BY <1>1, <1>5, <2>2
  <2> QED
    BY <1>3, <1>5, <1>9, <2>3
<1>10. ASSUME x \in {"message", "other"}, Open(eventLog') PROVE Open(eventLog)
  <2>1. PICK i \in DOMAIN eventLog' :
          eventLog'[i].type = "start" /\ \A j \in i+1..Len(eventLog') : eventLog'[j].type # "end"
    BY <1>10 DEF Open
  <2>2. i \in 1..n /\ eventLog[i].type = "start"
    BY <1>3, <1>5, <1>6, <1>10, <2>1
  <2>3. \A j \in i+1..n : eventLog[j].type # "end"
    <3> SUFFICES ASSUME NEW j \in i+1..n PROVE eventLog[j].type # "end"
      OBVIOUS
    <3>1. j \in i+1..Len(eventLog') /\ j \in 1..n
      BY <1>1, <1>5, <2>2
    <3> QED
      BY <1>5, <2>1, <3>1
  <2>4. Len(eventLog) = n
    BY DEF n
  <2> QED
    BY <1>1, <2>2, <2>3, <2>4 DEF Open
<1>11. \A k \in Seqs(eventLog) : k \in Nat /\ k <= LastSeqFor
  BY <1>1, <1>2 DEF Seqs
<1>12. lastSeq' \in Nat
  BY <1>2, <1>4
<1> QED
  BY <1>2, <1>5, <1>7, <1>8, <1>9, <1>10, <1>11, <1>12 DEF AppendEvent

(* It is above every mark, and nobody was told of it. *)
LEMMA AppendTabs ==
  ASSUME WebInv, NEW t \in Writers, NEW x \in EventTypes, AppendEvent(t, x),
         UNCHANGED <<deleting, stream, overtaken>>
  PROVE  TabsFollow'
<1> SUFFICES ASSUME deleting = "idle"
             PROVE  /\ UntoldAreLogged'
                    /\ \A s \in Streams : InboxIsTold(s)' /\ MarkIsBehind(s)' /\ RestIsComing(s)'
  BY DEF TabsFollow
<1> DEFINE log == Seqs(eventLog)
<1>0. PICK new \in Nat : new = LastSeqFor + 1
  BY AppendMoves
<1>1. /\ LastSeqFor \in Nat /\ \A n \in log : n \in Nat /\ n <= LastSeqFor
      /\ untold' = untold \cup {[seq |-> new, by |-> t]} /\ Seqs(eventLog') = log \cup {new}
  BY <1>0, AppendMoves
<1>2. new \in Nat /\ new # 0 /\ \A n \in log : n < new /\ n # new
  BY <1>0, <1>1
<1>3. UntoldAreLogged /\ \A s \in Streams : InboxIsTold(s) /\ MarkIsBehind(s) /\ RestIsComing(s)
  BY DEF WebInv, TabsFollow
<1>4. UntoldAreLogged'
  BY <1>1, <1>2, <1>3 DEF UntoldAreLogged
<1>5. ~Told(new)' /\ \A n \in log : Told(n)' <=> Told(n)
  <2>1. ~Told(new)'
    <3>1. [seq |-> new, by |-> t] \in untold' /\ [seq |-> new, by |-> t].seq = new
      BY <1>1
    <3> QED
      BY <3>1 DEF Told
  <2>2. ASSUME NEW n \in log PROVE Told(n)' <=> Told(n)
    <3>1. n # new /\ n \in Seqs(eventLog')
      BY <1>1, <1>2
    <3>2. (\A o \in untold' : o.seq # n) <=> (\A o \in untold : o.seq # n)
      BY <1>1, <3>1
    <3> QED
      BY <3>1, <3>2 DEF Told
  <2> QED
    BY <2>1, <2>2
<1>6. ASSUME NEW s \in Streams PROVE InboxIsTold(s)' /\ MarkIsBehind(s)' /\ RestIsComing(s)'
  <2>1. stream'[s] = stream[s] /\ overtaken' = overtaken /\ stream[s].mark \in Nat
    BY DEF WebInv, WebTyped, TabRecord
  <2>2. stream[s].mark < new
    <3>1. stream[s].mark = 0 \/ stream[s].mark \in log
      BY <1>3 DEF MarkIsBehind
    <3> QED
      BY <1>2, <2>1, <3>1
  <2>3. InboxIsTold(s)'
    <3>1. \A i \in DOMAIN stream[s].inbox : stream[s].inbox[i] \in log /\ Told(stream[s].inbox[i])
      BY <1>3 DEF InboxIsTold, Told
    <3>2. \A i \in DOMAIN stream[s].inbox : Told(stream[s].inbox[i])'
      BY <1>1, <1>2, <2>1, <3>1 DEF Told
    <3> QED
      BY <1>3, <2>1, <3>2 DEF InboxIsTold
  <2>4. MarkIsBehind(s)'
    <3>1. \A n \in log : n <= stream[s].mark =>
            \/ n \in stream[s].got \cup overtaken
            \/ ~Told(n)' /\ \E v \in log : v > n /\ Told(v)'
      BY <1>3, <1>5 DEF MarkIsBehind
    <3>2. ~(new <= stream[s].mark)
      BY <1>2, <2>1, <2>2
    <3> QED
      BY <1>1, <1>3, <2>1, <3>1, <3>2 DEF MarkIsBehind
  <2>5. RestIsComing(s)'
    <3>1. stream[s].pc \in {"replayed", "live"} =>
            \A n \in log : n > stream[s].mark =>
              n \in overtaken \/ ~Told(n)' \/ \E i \in DOMAIN stream[s].inbox : stream[s].inbox[i] = n
      BY <1>3, <1>5 DEF RestIsComing
    <3>2. stream[s].pc \in {"replayed", "live"} =>
            \A n \in log \cup {new} : n > stream[s].mark =>
              n \in overtaken \/ ~Told(n)' \/ \E i \in DOMAIN stream[s].inbox : stream[s].inbox[i] = n
      BY <1>5, <3>1
    <3> QED
      BY <1>1, <2>1, <3>2 DEF RestIsComing, Told
  <2> QED
    BY <2>3, <2>4, <2>5
<1> QED
  BY <1>4, <1>6

LEMMA SeqsAreNumbers == ASSUME WebInv PROVE \A n \in Seqs(eventLog) : n \in Nat
<1>1. \A i \in DOMAIN eventLog : eventLog[i] \in LogEvents
  BY DEF WebInv, WebTyped
<1> QED
  BY <1>1 DEF Seqs, LogEvents

LEMMA TellKeeps == ASSUME WebInv, NEW t \in Writers, Tell(t) PROVE WebInv'
<1>1. PICK u \in untold :
        /\ stream' = [s \in Streams |->
             IF s \in Subscribed THEN [stream[s] EXCEPT !.inbox = Append(@, u.seq)] ELSE stream[s]]
        /\ overtaken' = IF Overtaken(u) THEN overtaken \cup {u.seq} ELSE overtaken
        /\ untold' = untold \ {u}
        /\ UNCHANGED <<eventLog, lastSeq, storeVars, writer, turnVars, webSpent>>
  BY DEF Tell
<1>2. UNCHANGED <<eventLog, lastSeq, listing, deleting, resuming, bootStage, writer>>
  BY <1>1 DEF storeVars
<1>3. /\ untold \in SUBSET [seq : Nat, by : Writers] /\ u.seq \in Nat /\ stream \in [Streams -> TabRecord]
      /\ eventLog \in Seq(LogEvents) /\ lastSeq \in Nat /\ writer \in [Writers -> WriterPlaces]
  BY DEF WebInv, WebTyped
<1>4. ASSUME NEW s \in Streams
      PROVE  /\ stream'[s] \in TabRecord /\ stream'[s].pc = stream[s].pc /\ stream'[s].got = stream[s].got
             /\ stream'[s].mark = stream[s].mark
             /\ \/ stream'[s].inbox = stream[s].inbox /\ stream[s].pc = "off"
                \/ stream'[s].inbox = Append(stream[s].inbox, u.seq)
  <2> DEFINE r == stream[s]
  <2>1. r \in TabRecord /\ Append(r.inbox, u.seq) \in Seq(Nat)
    BY <1>3 DEF TabRecord
  <2>2. (stream'[s] = r /\ r.pc = "off") \/ stream'[s] = [r EXCEPT !.inbox = Append(r.inbox, u.seq)]
    BY <1>1 DEF Subscribed
  <2> HIDE DEF r
  <2>3. CASE stream'[s] = r /\ r.pc = "off"
    BY <2>1, <2>3 DEF r
  <2>4. CASE stream'[s] = [r EXCEPT !.inbox = Append(r.inbox, u.seq)]
    <3> DEFINE q == Append(r.inbox, u.seq)
    <3> HIDE DEF q
    <3>1. q \in Seq(Nat) /\ stream'[s] = [r EXCEPT !.inbox = q]
      BY <2>1, <2>4 DEF q
    <3>2. /\ stream'[s] \in TabRecord /\ stream'[s].pc = r.pc /\ stream'[s].got = r.got
          /\ stream'[s].mark = r.mark /\ stream'[s].inbox = q
      BY <2>1, <3>1 DEF TabRecord
    <3> QED
      BY <3>2 DEF q, r
  <2> QED
    BY <2>2, <2>3, <2>4
<1>5. WebTyped'
  <2>1. stream' \in [Streams -> TabRecord]
    BY <1>1, <1>4
  <2> QED
    BY <1>1, <1>2, <1>3, <2>1 DEF WebTyped
<1>6. NumbersRise' /\ TurnsShown'
  BY <1>2 DEF WebInv, NumbersRise, TurnsShown, HasTurn, Open
<1>7. ASSUME deleting = "idle"
      PROVE  /\ UntoldAreLogged'
             /\ \A s \in Streams : InboxIsTold(s)' /\ MarkIsBehind(s)' /\ RestIsComing(s)'
  <2> DEFINE log == Seqs(eventLog)
  <2>1. UntoldAreLogged /\ \A s \in Streams : InboxIsTold(s) /\ MarkIsBehind(s) /\ RestIsComing(s)
    BY <1>7 DEF WebInv, TabsFollow
  <2>2. Seqs(eventLog') = log /\ u.seq \in log /\ \A v \in untold' : v.seq # u.seq
    BY <1>1, <1>2, <2>1 DEF UntoldAreLogged
  <2>3. UntoldAreLogged'
    BY <1>1, <2>1, <2>2 DEF UntoldAreLogged
  <2>4. /\ Told(u.seq)' /\ ~Told(u.seq)
        /\ \A n \in log : n # u.seq => (Told(n)' <=> Told(n))
        /\ \A n \in log : Told(n) => Told(n)'
    <3>1. PICK k \in Nat : k = u.seq
      BY <1>3
    <3>2. Told(k)' /\ ~Told(k)
      BY <2>2, <3>1 DEF Told
    <3>3. \A n \in log : n # k => ((\A o \in untold' : o.seq # n) <=> (\A o \in untold : o.seq # n))
      BY <1>1, <3>1
    <3> QED
      BY <2>2, <3>1, <3>2, <3>3 DEF Told
  <2>5. overtaken \subseteq overtaken' /\ (u.seq \in overtaken' \/ \A v \in log : Told(v) => v <= u.seq)
    <3>1. ASSUME NEW v \in log, Told(v), ~(v <= u.seq) PROVE Overtaken(u)
      <4>1. v \in Nat
        BY SeqsAreNumbers, <3>1
      <4> QED
        BY <1>3, <3>1, <4>1 DEF Overtaken, Told
    <3> QED
      BY <1>1, <3>1
  <2>6. ASSUME NEW s \in Streams PROVE InboxIsTold(s)' /\ MarkIsBehind(s)' /\ RestIsComing(s)'
    <3>0. stream[s].inbox \in Seq(Nat) /\ stream[s].mark \in Nat
      BY <1>3 DEF TabRecord
    <3>1. InboxIsTold(s)'
      <4>1. CASE stream'[s].inbox = stream[s].inbox
        <5>1. \A i \in DOMAIN stream[s].inbox : stream[s].inbox[i] \in log /\ Told(stream[s].inbox[i])
          BY <2>1 DEF InboxIsTold, Told
        <5>2. \A i \in DOMAIN stream'[s].inbox : Told(stream[s].inbox[i])'
          BY <1>1, <2>2, <4>1, <5>1 DEF Told
        <5> QED
          BY <2>1, <2>5, <4>1, <5>2 DEF InboxIsTold
      <4>2. CASE stream'[s].inbox = Append(stream[s].inbox, u.seq)
        <5> DEFINE q == stream[s].inbox
                   m == Len(q)
        <5>1. /\ m \in Nat /\ DOMAIN q = 1..m /\ DOMAIN stream'[s].inbox = 1..m+1
              /\ stream'[s].inbox[m+1] = u.seq /\ \A i \in 1..m : stream'[s].inbox[i] = q[i] /\ q[i] \in Nat
          BY <3>0, <4>2, <1>3
        <5>2. \A i \in 1..m : q[i] \in log /\ Told(q[i])
          BY <2>1, <5>1 DEF InboxIsTold, Told
        <5>3. \A i \in 1..m+1 : i \in 1..m \/ i = m+1
          BY <5>1
        <5> HIDE DEF q, m
        <5>4. \A i \in 1..m+1 : Told(stream[s].inbox[i])'
          <6> SUFFICES ASSUME NEW i \in 1..m+1 PROVE Told(stream[s].inbox[i])'
            OBVIOUS
          <6>1. PICK k \in Nat : k = stream'[s].inbox[i] /\ k \in log /\ (k = u.seq \/ Told(k))
            BY <1>3, <2>2, <5>1, <5>2, <5>3
          <6>2. \A o \in untold' : o.seq # k
            BY <1>1, <2>2, <6>1 DEF Told
          <6> QED
            BY <2>2, <6>1, <6>2 DEF Told
        <5>5. ASSUME NEW i \in 1..m+1, NEW j \in 1..m+1, i < j, stream'[s].inbox[j] < stream'[s].inbox[i]
              PROVE  stream'[s].inbox[j] \in overtaken'
          <6>1. i \in 1..m
            BY <5>1, <5>5
          <6>2. CASE j \in 1..m
            BY <2>1, <2>5, <5>1, <5>5, <6>1, <6>2 DEF InboxIsTold, q
          <6>3. CASE j = m+1
            <7>1. ~(q[i] <= u.seq) /\ q[i] \in log /\ Told(q[i])
              BY <1>3, <5>1, <5>2, <5>5, <6>1, <6>3
            <7> QED
              BY <2>5, <5>1, <6>3, <7>1
          <6> QED
            BY <5>3, <6>2, <6>3
        <5> QED
          BY <5>1, <5>4, <5>5 DEF InboxIsTold
      <4> QED
        BY <1>4, <4>1, <4>2
    <3>2. MarkIsBehind(s)'
      <4>1. \A n \in log : n <= stream[s].mark =>
              \/ n \in stream[s].got \cup overtaken'
              \/ ~Told(n)' /\ \E v \in log : v > n /\ Told(v)'
        <5> SUFFICES ASSUME NEW n \in log, n <= stream[s].mark, n \notin stream[s].got \cup overtaken'
                     PROVE  ~Told(n)' /\ \E v \in log : v > n /\ Told(v)'
          OBVIOUS
        <5>1. ~Told(n) /\ \E v \in log : v > n /\ Told(v)
          BY <2>1, <2>5 DEF MarkIsBehind
        <5>2. n # u.seq
          <6>1. PICK v \in log : v > n /\ Told(v)
            BY <5>1
          <6>2. n \in Nat /\ v \in Nat
            BY SeqsAreNumbers
          <6>3. ~(v <= n)
            BY <6>1, <6>2
          <6>4. n = u.seq => n \in overtaken'
            BY <2>5, <6>1, <6>3, Zenon
          <6> QED
            BY <6>4, Zenon
        <5> QED
          BY <2>4, <5>1, <5>2
      <4> QED
        BY <1>4, <2>1, <2>2, <4>1 DEF MarkIsBehind, Told
    <3>3. RestIsComing(s)'
      <4>1. stream[s].pc \in {"replayed", "live"} =>
              \A n \in log : n > stream[s].mark =>
                n \in overtaken' \/ ~Told(n)' \/ \E i \in DOMAIN stream'[s].inbox : stream'[s].inbox[i] = n
        <5> SUFFICES ASSUME stream[s].pc \in {"replayed", "live"}, NEW n \in log, n > stream[s].mark,
                            n \notin overtaken', Told(n)'
                     PROVE  \E i \in DOMAIN stream'[s].inbox : stream'[s].inbox[i] = n
          OBVIOUS
        <5> DEFINE q == stream[s].inbox
                   m == Len(q)
        <5>1. /\ stream'[s].inbox = Append(q, u.seq) /\ m \in Nat /\ DOMAIN q = 1..m
              /\ DOMAIN stream'[s].inbox = 1..m+1 /\ stream'[s].inbox[m+1] = u.seq
              /\ \A i \in 1..m : stream'[s].inbox[i] = q[i] /\ i \in 1..m+1
          <6>1. stream'[s].inbox = Append(q, u.seq)
            BY <1>4
          <6> HIDE DEF q
          <6>2. q \in Seq(Nat) /\ u.seq \in Nat
            BY <1>3, <3>0 DEF q
          <6> QED
            BY <6>1, <6>2
        <5> HIDE DEF m
        <5>2. CASE n = u.seq
          BY <5>1, <5>2
        <5>3. CASE n # u.seq
          <6>1. PICK i \in DOMAIN stream[s].inbox : stream[s].inbox[i] = n
            BY <2>1, <2>4, <2>5, <5>3 DEF RestIsComing
          <6> QED
            BY <5>1, <6>1
        <5> QED
          BY <5>2, <5>3
      <4> QED
        BY <1>4, <2>2, <4>1 DEF RestIsComing, Told
    <3> QED
      BY <3>1, <3>2, <3>3
  <2> QED
    BY <2>3, <2>6
<1> QED
  BY <1>2, <1>5, <1>6, <1>7 DEF WebInv, TabsFollow

LEMMA TabPc ==
  ASSUME NEW r \in TabRecord, NEW x \in {"off", "replaying", "replayed", "live"}
  PROVE  LET q == [r EXCEPT !.pc = x] IN
         q \in TabRecord /\ q.pc = x /\ q.inbox = r.inbox /\ q.got = r.got /\ q.mark = r.mark
BY DEF TabRecord

LEMMA TabInbox ==
  ASSUME NEW r \in TabRecord, NEW x \in Seq(Nat)
  PROVE  LET q == [r EXCEPT !.inbox = x] IN
         q \in TabRecord /\ q.pc = r.pc /\ q.inbox = x /\ q.got = r.got /\ q.mark = r.mark
BY DEF TabRecord

LEMMA TabGot ==
  ASSUME NEW r \in TabRecord, NEW x \in SUBSET Nat
  PROVE  LET q == [r EXCEPT !.got = x] IN
         q \in TabRecord /\ q.pc = r.pc /\ q.inbox = r.inbox /\ q.got = x /\ q.mark = r.mark
BY DEF TabRecord

LEMMA TabMark ==
  ASSUME NEW r \in TabRecord, NEW x \in Nat
  PROVE  LET q == [r EXCEPT !.mark = x] IN
         q \in TabRecord /\ q.pc = r.pc /\ q.inbox = r.inbox /\ q.got = r.got /\ q.mark = x
BY DEF TabRecord

LEMMA OneTabMoves ==
  ASSUME WebInv, NEW s \in Streams, NEW r \in TabRecord, stream' = [stream EXCEPT ![s] = r],
         UNCHANGED <<eventLog, lastSeq, untold, storeVars, writer, turnVars, overtaken>>,
         deleting = "idle" => InboxIsTold(s)' /\ MarkIsBehind(s)' /\ RestIsComing(s)'
  PROVE  WebInv'
<1>1. UNCHANGED <<eventLog, lastSeq, untold, listing, deleting, resuming, bootStage, writer, overtaken>>
  BY DEF storeVars
<1>2. WebTyped'
  BY <1>1 DEF WebInv, WebTyped
<1>3. NumbersRise' /\ TurnsShown'
  BY <1>1 DEF WebInv, NumbersRise, TurnsShown, HasTurn, Open
<1>4. ASSUME deleting = "idle" PROVE UntoldAreLogged' /\ \A o \in Streams : InboxIsTold(o)' /\ MarkIsBehind(o)' /\ RestIsComing(o)'
  <2>1. UntoldAreLogged'
    BY <1>1, <1>4 DEF WebInv, TabsFollow, UntoldAreLogged, Seqs
  <2>2. ASSUME NEW o \in Streams PROVE InboxIsTold(o)' /\ MarkIsBehind(o)' /\ RestIsComing(o)'
    <3>1. CASE o = s
      BY <1>4, <3>1
    <3>2. CASE o # s
      <4>1. stream'[o] = stream[o] /\ Seqs(eventLog') = Seqs(eventLog)
        BY <1>1, <3>2 DEF WebInv, WebTyped
      <4>2. InboxIsTold(o) /\ MarkIsBehind(o) /\ RestIsComing(o)
        BY <1>4 DEF WebInv, TabsFollow
      <4>3. InboxIsTold(o)'
        BY <1>1, <4>1, <4>2 DEF InboxIsTold, Told
      <4>4. MarkIsBehind(o)'
        BY <1>1, <4>1, <4>2 DEF MarkIsBehind, Told
      <4>5. RestIsComing(o)'
        BY <1>1, <4>1, <4>2 DEF RestIsComing, Told
      <4> QED
        BY <4>3, <4>4, <4>5
    <3> QED
      BY <3>1, <3>2
  <2> QED
    BY <2>1, <2>2
<1> QED
  BY <1>1, <1>2, <1>3, <1>4 DEF WebInv, TabsFollow

(* A tab that comes or goes keeps what it had. *)
LEMMA ConnectKeeps == ASSUME WebInv, NEW s \in Streams, Connect(s) \/ Disconnect(s) \/ GoLive(s) PROVE WebInv'
<1> DEFINE r == stream[s]
<1>1. r \in TabRecord /\ stream \in [Streams -> TabRecord]
  BY DEF WebInv, WebTyped
<1>2. PICK q \in TabRecord :
        /\ stream' = [stream EXCEPT ![s] = q] /\ q.got = r.got /\ q.mark = r.mark
        /\ \/ q.inbox = <<>> /\ q.pc \in {"off", "replaying"}
           \/ q.inbox = r.inbox /\ r.pc = "replayed" /\ q.pc = "live"
  <2>1. ASSUME NEW pc \in {"off", "replaying"}, stream' = [stream EXCEPT ![s].pc = pc, ![s].inbox = <<>>]
        PROVE  \E q \in TabRecord : /\ stream' = [stream EXCEPT ![s] = q] /\ q.got = r.got /\ q.mark = r.mark
                                    /\ q.inbox = <<>> /\ q.pc = pc
    <3> DEFINE one == [r EXCEPT !.pc = pc]
               two == [one EXCEPT !.inbox = <<>>]
    <3>1. one \in TabRecord /\ one.pc = pc /\ one.got = r.got /\ one.mark = r.mark
      <4>1. pc \in {"off", "replaying", "replayed", "live"}
        OBVIOUS
      <4> QED
        BY <1>1, <4>1, TabPc
    <3>2. <<>> \in Seq(Nat)
      OBVIOUS
    <3>3. stream' = [stream EXCEPT ![s] = two]
      BY <1>1, <2>1
    <3> HIDE DEF one
    <3>4. two \in TabRecord /\ two.pc = pc /\ two.got = r.got /\ two.mark = r.mark /\ two.inbox = <<>>
      BY <3>1, <3>2, TabInbox, Zenon
    <3> HIDE DEF two
    <3> QED
      BY <3>3, <3>4
  <2>2. CASE GoLive(s)
    <3> DEFINE one == [r EXCEPT !.pc = "live"]
    <3>1. one \in TabRecord /\ one.pc = "live" /\ one.got = r.got /\ one.mark = r.mark /\ one.inbox = r.inbox
      BY <1>1, TabPc
    <3>2. stream' = [stream EXCEPT ![s] = one] /\ r.pc = "replayed"
      BY <1>1, <2>2 DEF GoLive
    <3> HIDE DEF one
    <3> QED
      BY <3>1, <3>2
  <2> QED
    BY <2>1, <2>2 DEF Connect, Disconnect
<1>3. UNCHANGED <<eventLog, lastSeq, untold, storeVars, writer, turnVars, overtaken>>
  BY DEF Connect, Disconnect, GoLive
<1>4. ASSUME deleting = "idle" PROVE InboxIsTold(s)' /\ MarkIsBehind(s)' /\ RestIsComing(s)'
  <2>1. stream'[s] = q /\ Seqs(eventLog') = Seqs(eventLog) /\ untold' = untold /\ overtaken' = overtaken
    BY <1>1, <1>2, <1>3
  <2>2. InboxIsTold(s) /\ MarkIsBehind(s) /\ RestIsComing(s)
    BY <1>4 DEF WebInv, TabsFollow
  <2>3. MarkIsBehind(s)'
    BY <1>2, <2>1, <2>2 DEF MarkIsBehind, Told
  <2>4. CASE q.inbox = <<>> /\ q.pc \in {"off", "replaying"}
    <3>1. DOMAIN stream'[s].inbox = {}
      BY <2>1, <2>4
    <3>2. InboxIsTold(s)'
      BY <3>1 DEF InboxIsTold
    <3>3. RestIsComing(s)'
      BY <2>1, <2>4 DEF RestIsComing
    <3> QED
      BY <2>3, <3>2, <3>3
  <2>5. CASE q.inbox = r.inbox /\ r.pc = "replayed" /\ q.pc = "live"
    <3>1. InboxIsTold(s)'
      BY <2>1, <2>2, <2>5 DEF InboxIsTold, Told
    <3>2. RestIsComing(s)'
      BY <1>2, <2>1, <2>2, <2>5 DEF RestIsComing, Told
    <3> QED
      BY <2>3, <3>1, <3>2
  <2> QED
    BY <1>2, <2>4, <2>5
<1> QED
  BY <1>2, <1>3, <1>4, OneTabMoves

LEMMA LogHasLast ==
  ASSUME WebInv, Seqs(eventLog) # {}
  PROVE  \E n \in Seqs(eventLog) : \A o \in Seqs(eventLog) : o <= n
<1> DEFINE k == Len(eventLog)
<1>1. /\ eventLog \in Seq(LogEvents) /\ k \in Nat /\ DOMAIN eventLog = 1..k
      /\ \A i \in 1..k : eventLog[i].seq \in Nat
  <2>1. eventLog \in Seq(LogEvents)
    BY DEF WebInv, WebTyped
  <2>2. k \in Nat /\ DOMAIN eventLog = 1..k /\ \A i \in 1..k : eventLog[i] \in LogEvents
    BY <2>1
  <2> QED
    BY <2>1, <2>2 DEF LogEvents
<1>2. k \in 1..k
  <2>1. PICK i \in DOMAIN eventLog : TRUE
    BY DEF Seqs
  <2> QED
    BY <1>1, <2>1
<1>3. \A i \in 1..k : eventLog[i].seq <= eventLog[k].seq
  BY <1>1, <1>2 DEF WebInv, NumbersRise
<1> QED
  BY <1>1, <1>2, <1>3 DEF Seqs

LEMMA ReplayKeeps == ASSUME WebInv, NEW s \in Streams, Replay(s) PROVE WebInv'
<1> DEFINE r   == stream[s]
           log == Seqs(eventLog)
           new == {n \in log : n > r.mark}
           top == IF new = {} THEN r.mark ELSE CHOOSE n \in new : \A o \in new : o <= n
<1>1. r \in TabRecord /\ stream \in [Streams -> TabRecord] /\ r.mark \in Nat /\ r.got \in SUBSET Nat
      /\ \A n \in log : n \in Nat
  BY SeqsAreNumbers DEF WebInv, WebTyped, TabRecord
<1>2. /\ top \in Nat /\ r.mark <= top /\ (top = r.mark \/ top \in log)
      /\ \A n \in log : n <= top
  <2>1. CASE new = {}
    <3>1. \A n \in log : ~(n > r.mark)
      BY <2>1
    <3> QED
      BY <1>1, <2>1, <3>1
  <2>2. CASE new # {}
    <3>1. \E n \in log : \A o \in log : o <= n
      BY <2>2, LogHasLast
    <3>2. PICK n \in log : \A o \in log : o <= n
      BY <3>1
    <3>3. n \in new /\ \A o \in new : o <= n
      BY <1>1, <2>2, <3>2
    <3>4. top \in new /\ \A o \in new : o <= top
      <4>1. \E m \in new : \A o \in new : o <= m
        BY <3>3
      <4> QED
        BY <2>2, <4>1
    <3> HIDE DEF top
    <3>5. n <= top
      BY <3>3, <3>4
    <3> QED
      BY <1>1, <3>2, <3>4, <3>5
  <2> QED
    BY <2>1, <2>2
<1> DEFINE one   == [r EXCEPT !.pc = "replayed"]
           two   == [one EXCEPT !.got = r.got \cup new]
           three == [two EXCEPT !.mark = top]
<1>3. stream' = [stream EXCEPT ![s] = three] /\ r.pc = "replaying"
  <2> DEFINE got == r.got \cup new
  <2>1. stream' = [stream EXCEPT ![s].pc = "replayed", ![s].got = got, ![s].mark = top]
    BY DEF Replay
  <2>2. r.pc = "replaying"
    BY DEF Replay
  <2> HIDE DEF got, top
  <2>3. stream' = [stream EXCEPT ![s] = [[[r EXCEPT !.pc = "replayed"] EXCEPT !.got = got] EXCEPT !.mark = top]]
    BY <1>1, <2>1
  <2> QED
    BY <2>2, <2>3 DEF got
<1> HIDE DEF top
<1>4. /\ three \in TabRecord /\ three.pc = "replayed" /\ three.inbox = r.inbox
      /\ three.got = r.got \cup new /\ three.mark = top
  <2>1. /\ one \in TabRecord /\ one.pc = "replayed" /\ one.inbox = r.inbox
    BY <1>1, TabPc
  <2>2. r.got \cup new \in SUBSET Nat
    BY <1>1
  <2> HIDE DEF one, new
  <2>3. two \in TabRecord /\ two.pc = "replayed" /\ two.inbox = r.inbox /\ two.got = r.got \cup new
    BY <2>1, <2>2, TabGot, Zenon
  <2> HIDE DEF two
  <2> QED
    BY <1>2, <2>3, TabMark, Zenon
<1> HIDE DEF three
<1>5. UNCHANGED <<eventLog, lastSeq, untold, storeVars, writer, turnVars, overtaken>>
  BY DEF Replay
<1>6. ASSUME deleting = "idle" PROVE InboxIsTold(s)' /\ MarkIsBehind(s)' /\ RestIsComing(s)'
  <2>1. stream'[s] = three /\ Seqs(eventLog') = log /\ untold' = untold /\ overtaken' = overtaken
    BY <1>1, <1>3, <1>5
  <2>2. InboxIsTold(s) /\ MarkIsBehind(s)
    BY <1>6 DEF WebInv, TabsFollow
  <2>3. InboxIsTold(s)'
    BY <1>4, <2>1, <2>2 DEF InboxIsTold, Told
  <2>4. MarkIsBehind(s)'
    <3>1. \A n \in log : n <= r.mark \/ n \in new
      BY <1>1
    <3>2. top = 0 \/ top \in log
      BY <1>2, <2>2 DEF MarkIsBehind
    <3>3. \A n \in log : n \in r.got \cup new \cup overtaken
                         \/ (~Told(n) /\ \E v \in log : v > n /\ Told(v))
      BY <2>2, <3>1 DEF MarkIsBehind
    <3> QED
      BY <1>4, <2>1, <3>2, <3>3 DEF MarkIsBehind, Told
  <2>5. RestIsComing(s)'
    <3>1. \A n \in log : ~(n > top)
      BY <1>1, <1>2
    <3> QED
      BY <1>4, <2>1, <3>1 DEF RestIsComing
  <2> QED
    BY <2>3, <2>4, <2>5
<1> QED
  BY <1>3, <1>4, <1>5, <1>6, OneTabMoves

LEMMA PassOnKeeps == ASSUME WebInv, NEW s \in Streams, PassOn(s) PROVE WebInv'
<1> DEFINE r    == stream[s]
           log  == Seqs(eventLog)
           h    == Head(r.inbox)
           rest == Tail(r.inbox)
           got  == IF h <= r.mark THEN r.got ELSE r.got \cup {h}
           mark == IF h <= r.mark THEN r.mark ELSE h
           k    == Len(r.inbox)
<1>1. /\ r \in TabRecord /\ stream \in [Streams -> TabRecord] /\ r.mark \in Nat /\ r.got \in SUBSET Nat
      /\ r.inbox \in Seq(Nat) /\ \A n \in log : n \in Nat
  BY SeqsAreNumbers DEF WebInv, WebTyped, TabRecord
<1>2. /\ k \in Nat /\ k # 0 /\ rest \in Seq(Nat) /\ h \in Nat /\ h = r.inbox[1]
      /\ DOMAIN r.inbox = 1..k /\ DOMAIN rest = 1..k-1 /\ \A i \in 1..k-1 : rest[i] = r.inbox[i+1]
  <2> DEFINE q == r.inbox
  <2>1. q \in Seq(Nat) /\ q # <<>>
    BY <1>1 DEF PassOn
  <2> HIDE DEF q
  <2>2. /\ Len(q) \in Nat /\ Len(q) # 0 /\ Tail(q) \in Seq(Nat) /\ Head(q) \in Nat /\ Head(q) = q[1]
        /\ DOMAIN q = 1..Len(q) /\ DOMAIN Tail(q) = 1..Len(q)-1 /\ \A i \in 1..Len(q)-1 : Tail(q)[i] = q[i+1]
    BY <2>1
  <2> QED
    BY <2>2 DEF q
<1>3. got \in SUBSET Nat /\ mark \in Nat
  BY <1>1, <1>2
<1> DEFINE one   == [r EXCEPT !.inbox = rest]
           two   == [one EXCEPT !.got = got]
           three == [two EXCEPT !.mark = mark]
<1>4. stream' = [stream EXCEPT ![s] = three] /\ r.pc = "live"
  <2>1. stream' = [stream EXCEPT ![s].inbox = rest, ![s].got = got, ![s].mark = mark]
    BY DEF PassOn
  <2>2. r.pc = "live"
    BY DEF PassOn
  <2> HIDE DEF rest, got, mark
  <2> QED
    BY <1>1, <2>1, <2>2
<1> HIDE DEF h, rest, got, mark
<1>5. three \in TabRecord /\ three.pc = r.pc /\ three.inbox = rest /\ three.got = got /\ three.mark = mark
  <2>1. one \in TabRecord /\ one.pc = r.pc /\ one.inbox = rest
    BY <1>1, <1>2, TabInbox
  <2> HIDE DEF one
  <2>2. two \in TabRecord /\ two.pc = r.pc /\ two.inbox = rest /\ two.got = got
    BY <1>3, <2>1, TabGot
  <2> HIDE DEF two
  <2> QED
    BY <1>3, <2>2, TabMark
<1> HIDE DEF three
<1>6. UNCHANGED <<eventLog, lastSeq, untold, storeVars, writer, turnVars, overtaken>>
  BY DEF PassOn
<1>7. ASSUME deleting = "idle" PROVE InboxIsTold(s)' /\ MarkIsBehind(s)' /\ RestIsComing(s)'
  <2>1. stream'[s] = three /\ Seqs(eventLog') = log /\ untold' = untold /\ overtaken' = overtaken
    BY <1>1, <1>4, <1>6
  <2>2. InboxIsTold(s) /\ MarkIsBehind(s) /\ RestIsComing(s)
    BY <1>7 DEF WebInv, TabsFollow
  <2>3. Told(h) /\ h \in log /\ 1 \in 1..k
    BY <1>2, <2>2 DEF InboxIsTold, Told
  <2>4. \A i \in 1..k-1 : i+1 \in 1..k /\ 1 < i+1 /\ rest[i] \in Nat
    BY <1>1, <1>2, SMTT(60)
  <2>5. InboxIsTold(s)'
    <3>1. \A i \in 1..k-1 : Told(rest[i])
      BY <1>2, <2>2, <2>4 DEF InboxIsTold
    <3>2. \A i, j \in 1..k-1 : i < j /\ rest[j] < rest[i] => rest[j] \in overtaken
      <4> SUFFICES ASSUME NEW i \in 1..k-1, NEW j \in 1..k-1, i < j, rest[j] < rest[i] PROVE rest[j] \in overtaken
        OBVIOUS
      <4>1. rest[i] = r.inbox[i+1] /\ rest[j] = r.inbox[j+1]
        BY <1>2, Zenon
      <4>2. i + 1 < j + 1
        BY <1>2
      <4> QED
        BY <1>2, <2>2, <2>4, <4>1, <4>2 DEF InboxIsTold
    <3> QED
      BY <1>2, <1>5, <2>1, <3>1, <3>2 DEF InboxIsTold, Told
  <2>6. \A i \in 1..k-1 : rest[i] < h => rest[i] \in overtaken
    BY <1>2, <2>2, <2>3, <2>4 DEF InboxIsTold
  <2>7. MarkIsBehind(s)'
    <3>1. mark = 0 \/ mark \in log
      BY <2>2, <2>3 DEF MarkIsBehind, mark
    <3>2. ASSUME NEW n \in log, n <= mark, n \notin got \cup overtaken
          PROVE  ~Told(n) /\ \E v \in log : v > n /\ Told(v)
      <4>1. CASE n <= r.mark
        BY <2>2, <3>2, <4>1 DEF MarkIsBehind, got
      <4>2. CASE ~(n <= r.mark)
        <5>1. ~(h <= r.mark) /\ n < h /\ n > r.mark
          BY <1>1, <1>2, <3>2, <4>2 DEF mark, got
        <5>2. ASSUME NEW i \in 1..k, r.inbox[i] = n PROVE FALSE
          <6>1. i # 1
            BY <1>2, <5>1, <5>2
          <6>2. i-1 \in 1..k-1 /\ rest[i-1] = n
            BY <1>2, <5>2, <6>1
          <6> QED
            BY <2>6, <3>2, <5>1, <6>2
        <5>3. ~Told(n)
          BY <1>2, <1>4, <2>2, <3>2, <5>1, <5>2 DEF RestIsComing
        <5> QED
          BY <1>1, <2>3, <5>1, <5>3
      <4> QED
        BY <4>1, <4>2
    <3> QED
      BY <1>5, <2>1, <3>1, <3>2 DEF MarkIsBehind, Told
  <2>8. RestIsComing(s)'
    <3>1. ASSUME NEW n \in log, n > mark, n \notin overtaken, Told(n)
          PROVE  \E i \in 1..k-1 : rest[i] = n
      <4>1. n > r.mark /\ n # h
        BY <1>1, <1>2, <3>1 DEF mark
      <4>2. PICK i \in 1..k : r.inbox[i] = n
        BY <1>2, <1>4, <2>2, <3>1, <4>1 DEF RestIsComing
      <4>3. i # 1
        BY <1>2, <4>1, <4>2
      <4>4. i-1 \in 1..k-1 /\ rest[i-1] = r.inbox[(i-1)+1] /\ (i-1)+1 = i
        BY <1>2, <4>3
      <4> QED
        BY <4>2, <4>4
    <3> QED
      BY <1>2, <1>5, <2>1, <3>1 DEF RestIsComing, Told
  <2> QED
    BY <2>5, <2>7, <2>8
<1> QED
  BY <1>4, <1>5, <1>6, <1>7, OneTabMoves

LEMMA WebDiesKeeps == WebInv /\ WebDies => WebInv'
<1> SUFFICES ASSUME WebInv, WebDies PROVE WebInv'
  OBVIOUS
<1> DEFINE log == Seqs(eventLog)
<1>1. /\ lastSeq' = 0 /\ untold' = {} /\ eventLog' = eventLog /\ bootStage' = "starting" /\ resuming' = FALSE
      /\ overtaken' = overtaken \cup {u.seq : u \in {v \in untold : Overtaken(v)}}
      /\ writer' = [t \in Writers |-> IF t \in WebMessages /\ writer[t] # "idle" THEN "done" ELSE "idle"]
      /\ stream' = [s \in Streams |-> [stream[s] EXCEPT !.pc = "off", !.inbox = <<>>]]
      /\ deleting' = IF deleting = "idle" THEN "idle" ELSE "done"
  BY DEF WebDies
<1>2. stream \in [Streams -> TabRecord] /\ untold \in SUBSET [seq : Nat, by : Writers]
  BY DEF WebInv, WebTyped
<1>3. ASSUME NEW s \in Streams
      PROVE  /\ stream'[s] \in TabRecord /\ stream'[s].pc = "off" /\ stream'[s].inbox = <<>>
             /\ stream'[s].got = stream[s].got /\ stream'[s].mark = stream[s].mark
  <2> DEFINE r   == stream[s]
             one == [r EXCEPT !.pc = "off"]
             two == [one EXCEPT !.inbox = <<>>]
  <2>1. one \in TabRecord /\ one.pc = "off" /\ one.got = r.got /\ one.mark = r.mark
    BY <1>2, TabPc
  <2>2. stream'[s] = two /\ <<>> \in Seq(Nat)
    <3>1. stream'[s] = [r EXCEPT !.pc = "off", !.inbox = <<>>]
      BY <1>1
    <3>2. [r EXCEPT !.pc = "off", !.inbox = <<>>] = two
      OBVIOUS
    <3> QED
      BY <3>1, <3>2
  <2> HIDE DEF one
  <2>3. two \in TabRecord /\ two.pc = "off" /\ two.got = r.got /\ two.mark = r.mark /\ two.inbox = <<>>
    BY <2>1, <2>2, TabInbox
  <2> QED
    BY <2>2, <2>3
<1>4. WebTyped'
  <2>1. writer' \in [Writers -> WriterPlaces]
    BY <1>1 DEF WriterPlaces
  <2>2. stream' \in [Streams -> TabRecord]
    BY <1>1, <1>3
  <2> QED
    BY <1>1, <2>1, <2>2 DEF WebInv, WebTyped
<1>5. NumbersRise' /\ TurnsShown'
  BY <1>1 DEF WebInv, NumbersRise, TurnsShown
<1>6. ASSUME deleting = "idle"
      PROVE  UntoldAreLogged' /\ \A s \in Streams : InboxIsTold(s)' /\ MarkIsBehind(s)' /\ RestIsComing(s)'
  <2>1. UntoldAreLogged'
    BY <1>1 DEF UntoldAreLogged
  <2>2. ASSUME NEW s \in Streams PROVE InboxIsTold(s)' /\ MarkIsBehind(s)' /\ RestIsComing(s)'
    <3>1. MarkIsBehind(s)
      BY <1>6 DEF WebInv, TabsFollow
    <3>2. \A n \in log : n <= stream[s].mark => n \in stream[s].got \cup overtaken'
      <4> SUFFICES ASSUME NEW n \in log, n <= stream[s].mark, n \notin stream[s].got \cup overtaken
                   PROVE  n \in overtaken'
        BY <1>1
      <4>1. ~Told(n) /\ \E v \in log : v > n /\ Told(v)
        BY <3>1 DEF MarkIsBehind
      <4>2. PICK u \in untold : u.seq = n
        BY <4>1 DEF Told
      <4>3. Overtaken(u)
        BY <4>1, <4>2 DEF Overtaken, Told
      <4> QED
        BY <1>1, <4>2, <4>3
    <3>3. Seqs(eventLog') = log
      BY <1>1
    <3>4. MarkIsBehind(s)'
      BY <1>3, <3>1, <3>2, <3>3 DEF MarkIsBehind
    <3>5. DOMAIN stream'[s].inbox = {}
      BY <1>3
    <3>6. InboxIsTold(s)' /\ RestIsComing(s)'
      BY <1>3, <3>5 DEF InboxIsTold, RestIsComing
    <3> QED
      BY <3>4, <3>6
  <2> QED
    BY <2>1, <2>2
<1> QED
  BY <1>1, <1>4, <1>5, <1>6 DEF WebInv, TabsFollow

----------------------------------------------------------------------------
LEMMA QuietKeeps ==
  ASSUME WebInv, UNCHANGED <<eventLog, lastSeq, untold, stream, overtaken>>,
         deleting' = deleting \/ deleting' # "idle", writer' \in [Writers -> WriterPlaces], TurnsShown'
  PROVE  WebInv'
<1>1. WebTyped' /\ NumbersRise'
  BY DEF WebInv, WebTyped, NumbersRise
<1>2. ASSUME deleting' = "idle"
      PROVE  UntoldAreLogged' /\ \A s \in Streams : InboxIsTold(s)' /\ MarkIsBehind(s)' /\ RestIsComing(s)'
  <2>1. UntoldAreLogged /\ \A s \in Streams : InboxIsTold(s) /\ MarkIsBehind(s) /\ RestIsComing(s)
    BY <1>2 DEF WebInv, TabsFollow
  <2>2. UntoldAreLogged'
    BY <2>1 DEF UntoldAreLogged, Seqs
  <2>3. ASSUME NEW s \in Streams PROVE InboxIsTold(s)' /\ MarkIsBehind(s)' /\ RestIsComing(s)'
    <3>1. InboxIsTold(s)'
      BY <2>1 DEF InboxIsTold, Told, Seqs
    <3>2. Seqs(eventLog') = Seqs(eventLog)
      OBVIOUS
    <3>3. MarkIsBehind(s)'
      BY <2>1, <3>2 DEF MarkIsBehind, Told
    <3>4. RestIsComing(s)'
      BY <2>1, <3>2 DEF RestIsComing, Told
    <3> QED
      BY <3>1, <3>3, <3>4
  <2> QED
    BY <2>2, <2>3
<1> QED
  BY <1>1, <1>2 DEF WebInv, TabsFollow

LEMMA LogAppendKeeps ==
  ASSUME WebInv, NEW t \in Writers, NEW x \in EventTypes, AppendEvent(t, x),
         UNCHANGED <<deleting, stream, overtaken>>, writer' \in [Writers -> WriterPlaces], TurnsShown'
  PROVE  WebInv'
<1>1. /\ LastSeqFor \in Nat /\ eventLog' \in Seq(LogEvents) /\ lastSeq' \in Nat
      /\ untold' = untold \cup {[seq |-> LastSeqFor + 1, by |-> t]} /\ NumbersRise'
  BY AppendMoves
<1>2. TabsFollow'
  BY AppendTabs
<1>3. untold' \in SUBSET [seq : Nat, by : Writers]
  BY <1>1 DEF WebInv, WebTyped
<1> QED
  BY <1>1, <1>2, <1>3 DEF WebInv, WebTyped

LEMMA TurnsStayShown ==
  ASSUME WebInv, UNCHANGED <<bootStage, resuming>>, Open(eventLog') => Open(eventLog), HasTurn => HasTurn'
  PROVE  TurnsShown'
BY DEF WebInv, TurnsShown

LEMMA ClosedIsShown == ASSUME ~Open(eventLog') PROVE TurnsShown'
BY DEF TurnsShown

(* A worker at work stays so, unless its turn's end is in the log. *)
LEMMA WorkGoesOn ==
  ASSUME WebInv, NEW t \in Writers, NEW pc \in WriterPlaces, To(t, pc),
         t \notin WebWorkers \/ pc \in AtWork \/ writer[t] \notin AtWork
  PROVE  (HasTurn => HasTurn') /\ writer' \in [Writers -> WriterPlaces]
         /\ (t \in WebWorkers /\ pc \in AtWork => HasTurn')
BY DEF WebInv, WebTyped, To, HasTurn, Writers

LEMMA MessageKeeps == ASSUME WebInv, NEW m \in WebMessages, Message(m) PROVE WebInv'
<1>1. m \in Writers /\ m \notin WebWorkers /\ {"message", "end", "other"} \subseteq EventTypes
  BY WebAssumption DEF Writers, EventTypes
<1>2. CASE \E x \in {"message", "other"}, pc \in WriterPlaces :
             /\ AppendEvent(m, x) /\ To(m, pc) /\ UNCHANGED <<storeVars, stream, overtaken>>
  <2>1. PICK x \in {"message", "other"}, pc \in WriterPlaces :
             /\ AppendEvent(m, x) /\ To(m, pc) /\ UNCHANGED <<storeVars, stream, overtaken>>
    BY <1>2
  <2>2. Open(eventLog') => Open(eventLog)
    BY <1>1, <2>1, AppendMoves
  <2>3. (HasTurn => HasTurn') /\ writer' \in [Writers -> WriterPlaces]
    BY <1>1, <2>1, WorkGoesOn
  <2>4. TurnsShown'
    BY <2>1, <2>2, <2>3, TurnsStayShown DEF storeVars
  <2> QED
    BY <1>1, <2>1, <2>3, <2>4, LogAppendKeeps DEF storeVars
<1>3. CASE \E pc \in WriterPlaces : AppendEvent(m, "end") /\ To(m, pc) /\ UNCHANGED <<storeVars, stream, overtaken>>
  <2>1. PICK pc \in WriterPlaces : AppendEvent(m, "end") /\ To(m, pc) /\ UNCHANGED <<storeVars, stream, overtaken>>
    BY <1>3
  <2>2. ~Open(eventLog')
    BY <1>1, <2>1, AppendMoves
  <2>3. writer' \in [Writers -> WriterPlaces]
    BY <1>1, <2>1, WorkGoesOn
  <2>4. TurnsShown'
    BY <2>2, ClosedIsShown
  <2> QED
    BY <1>1, <2>1, <2>3, <2>4, LogAppendKeeps DEF storeVars
<1>4. CASE \E pc \in WriterPlaces :
             To(m, pc) /\ UNCHANGED <<eventLog, lastSeq, untold, stream, overtaken, deleting, bootStage, resuming>>
  <2>1. PICK pc \in WriterPlaces :
             To(m, pc) /\ UNCHANGED <<eventLog, lastSeq, untold, stream, overtaken, deleting, bootStage, resuming>>
    BY <1>4
  <2>2. (HasTurn => HasTurn') /\ writer' \in [Writers -> WriterPlaces]
    BY <1>1, <2>1, WorkGoesOn
  <2>3. Open(eventLog') => Open(eventLog)
    BY <2>1
  <2>4. TurnsShown'
    BY <2>1, <2>2, <2>3, TurnsStayShown
  <2> QED
    BY <2>1, <2>2, <2>4, QuietKeeps
<1>5. ASSUME NEW w \in WebWorkers, SubmitTurn(m, w) PROVE WebInv'
  <2>1. /\ writer' = [writer EXCEPT ![m] = "done", ![w] = "submitted"] /\ w \in Writers
        /\ UNCHANGED <<eventLog, lastSeq, untold, stream, overtaken, deleting, bootStage, resuming>>
    BY <1>5 DEF SubmitTurn, SubmitRun, storeVars, Writers
  <2>2. writer' \in [Writers -> WriterPlaces] /\ writer'[w] = "submitted"
    BY <1>1, <2>1 DEF WebInv, WebTyped, WriterPlaces
  <2>3. HasTurn'
    BY <2>2 DEF HasTurn, AtWork
  <2>4. TurnsShown'
    BY <2>3 DEF TurnsShown
  <2> QED
    BY <2>1, <2>2, <2>4, QuietKeeps
<1>6. PostMessage(m) \/ CheckMark(m) => \E x \in {"message", "other"}, pc \in WriterPlaces :
             /\ AppendEvent(m, x) /\ To(m, pc) /\ UNCHANGED <<storeVars, stream, overtaken>>
  BY DEF PostMessage, CheckMark, WriterPlaces
<1>7. RefuseMessage(m) =>
        \/ \E x \in {"message", "other"}, pc \in WriterPlaces :
             /\ AppendEvent(m, x) /\ To(m, pc) /\ UNCHANGED <<storeVars, stream, overtaken>>
        \/ \E pc \in WriterPlaces : AppendEvent(m, "end") /\ To(m, pc) /\ UNCHANGED <<storeVars, stream, overtaken>>
  BY DEF RefuseMessage, WriterPlaces
<1>8. EndRefused(m) => \E pc \in WriterPlaces :
         AppendEvent(m, "end") /\ To(m, pc) /\ UNCHANGED <<storeVars, stream, overtaken>>
  BY DEF EndRefused, WriterPlaces
<1>9. SeeTitle(m) \/ NameIt(m) \/ SeeRun(m) \/ SteerMessage(m) => \E pc \in WriterPlaces :
         To(m, pc) /\ UNCHANGED <<eventLog, lastSeq, untold, stream, overtaken, deleting, bootStage, resuming>>
  BY DEF SeeTitle, NameIt, SeeRun, SteerMessage, storeVars, WriterPlaces
<1> QED
  BY <1>2, <1>3, <1>4, <1>5, <1>6, <1>7, <1>8, <1>9 DEF Message

LEMMA WakerKeeps ==
  ASSUME WebInv, SeeNoRun \/ WakeConversation \/ \E w \in WebWorkers : SubmitWoken(w)
  PROVE  WebInv'
<1>1. WebWaker \in Writers /\ WebWaker \notin WebWorkers /\ "other" \in EventTypes
  BY WebAssumption DEF Writers, EventTypes
<1>2. CASE SeeNoRun
  <2>1. /\ To(WebWaker, "waking") /\ "waking" \in WriterPlaces
        /\ UNCHANGED <<eventLog, lastSeq, untold, stream, overtaken, deleting, bootStage, resuming>>
    BY <1>2 DEF SeeNoRun, storeVars, WriterPlaces
  <2>2. (HasTurn => HasTurn') /\ writer' \in [Writers -> WriterPlaces]
    BY <1>1, <2>1, WorkGoesOn
  <2>3. Open(eventLog') => Open(eventLog)
    BY <2>1
  <2>4. TurnsShown'
    BY <2>1, <2>2, <2>3, TurnsStayShown
  <2> QED
    BY <2>1, <2>2, <2>4, QuietKeeps
<1>3. CASE WakeConversation
  <2>1. /\ AppendEvent(WebWaker, "other") /\ To(WebWaker, "woke") /\ "woke" \in WriterPlaces
        /\ UNCHANGED <<storeVars, stream, overtaken>>
    BY <1>3 DEF WakeConversation, WriterPlaces
  <2>2. Open(eventLog') => Open(eventLog)
    BY <1>1, <2>1, AppendMoves
  <2>3. (HasTurn => HasTurn') /\ writer' \in [Writers -> WriterPlaces]
    BY <1>1, <2>1, WorkGoesOn
  <2>4. TurnsShown'
    BY <2>1, <2>2, <2>3, TurnsStayShown DEF storeVars
  <2> QED
    BY <1>1, <2>1, <2>3, <2>4, LogAppendKeeps DEF storeVars
<1>4. ASSUME NEW w \in WebWorkers, SubmitWoken(w) PROVE WebInv'
  <2>1. /\ writer' = [writer EXCEPT ![WebWaker] = "idle", ![w] = "submitted"] /\ w \in Writers
        /\ UNCHANGED <<eventLog, lastSeq, untold, stream, overtaken, deleting, bootStage, resuming>>
    BY <1>4 DEF SubmitWoken, SubmitRun, storeVars, Writers
  <2>2. writer' \in [Writers -> WriterPlaces] /\ writer'[w] = "submitted"
    BY <1>1, <2>1 DEF WebInv, WebTyped, WriterPlaces
  <2>3. HasTurn'
    BY <2>2 DEF HasTurn, AtWork
  <2>4. TurnsShown'
    BY <2>3 DEF TurnsShown
  <2> QED
    BY <2>1, <2>2, <2>4, QuietKeeps
<1> QED
  BY <1>2, <1>3, <1>4

(* A worker's turn: it starts, goes on or fails, and its end is written. *)
LEMMA WorkerKeeps ==
  ASSUME WebInv, NEW w \in WebWorkers,
         ShowStart(w) \/ EnterTurn(w) \/ ReportFailure(w) \/ ShowStep(w) \/ FinishTurn(w) \/ LeaveRun(w)
           \/ DrainQueue(w) \/ NoteRestart(w)
  PROVE  WebInv'
<1>1. w \in Writers /\ {"start", "end", "other"} \subseteq EventTypes /\ writer \in [Writers -> WriterPlaces]
  BY DEF Writers, EventTypes, WebInv, WebTyped
<1>2. CASE \E x \in {"start", "other"}, pc \in AtWork :
             AppendEvent(w, x) /\ writer' = [writer EXCEPT ![w] = pc] /\ UNCHANGED <<storeVars, stream, overtaken>>
  <2>1. PICK x \in {"start", "other"}, pc \in AtWork :
             AppendEvent(w, x) /\ writer' = [writer EXCEPT ![w] = pc] /\ UNCHANGED <<storeVars, stream, overtaken>>
    BY <1>2
  <2>2. writer' \in [Writers -> WriterPlaces] /\ writer'[w] = pc
    BY <1>1, <2>1 DEF AtWork, WriterPlaces
  <2>3. HasTurn'
    BY <2>2 DEF HasTurn
  <2>4. TurnsShown'
    BY <2>3 DEF TurnsShown
  <2> QED
    BY <1>1, <2>1, <2>2, <2>4, LogAppendKeeps DEF storeVars
<1>3. CASE \E pc \in WriterPlaces : AppendEvent(w, "end") /\ To(w, pc) /\ UNCHANGED <<storeVars, stream, overtaken>>
  <2>1. PICK pc \in WriterPlaces : AppendEvent(w, "end") /\ To(w, pc) /\ UNCHANGED <<storeVars, stream, overtaken>>
    BY <1>3
  <2>2. ~Open(eventLog')
    BY <1>1, <2>1, AppendMoves
  <2>3. writer' \in [Writers -> WriterPlaces]
    BY <1>1, <2>1 DEF To
  <2>4. TurnsShown'
    BY <2>2, ClosedIsShown
  <2> QED
    BY <1>1, <2>1, <2>3, <2>4, LogAppendKeeps DEF storeVars
<1>4. CASE \E pc \in WriterPlaces :
             /\ To(w, pc) /\ UNCHANGED <<eventLog, lastSeq, untold, storeVars, stream, overtaken>>
             /\ pc \in AtWork \/ writer[w] \notin AtWork
  <2>1. PICK pc \in WriterPlaces :
             /\ To(w, pc) /\ UNCHANGED <<eventLog, lastSeq, untold, storeVars, stream, overtaken>>
             /\ pc \in AtWork \/ writer[w] \notin AtWork
    BY <1>4
  <2>2. (HasTurn => HasTurn') /\ writer' \in [Writers -> WriterPlaces]
    BY <1>1, <2>1, WorkGoesOn
  <2>3. Open(eventLog') => Open(eventLog)
    BY <2>1
  <2>4. TurnsShown'
    BY <2>1, <2>2, <2>3, TurnsStayShown DEF storeVars
  <2> QED
    BY <2>1, <2>2, <2>4, QuietKeeps DEF storeVars
<1>5. ShowStart(w) \/ ShowStep(w) \/ NoteRestart(w) => \E x \in {"start", "other"}, pc \in AtWork :
        AppendEvent(w, x) /\ writer' = [writer EXCEPT ![w] = pc] /\ UNCHANGED <<storeVars, stream, overtaken>>
  <2>1. ASSUME ShowStep(w) PROVE writer' = [writer EXCEPT ![w] = "running"]
    BY <1>1, <2>1 DEF ShowStep, Is
  <2>2. {"running", "started", "submitted"} \subseteq AtWork
    BY DEF AtWork
  <2> QED
    BY <2>1, <2>2 DEF ShowStart, ShowStep, NoteRestart, To
<1>6. FinishTurn(w) \/ ReportFailure(w) => \E pc \in WriterPlaces :
        AppendEvent(w, "end") /\ To(w, pc) /\ UNCHANGED <<storeVars, stream, overtaken>>
  BY DEF FinishTurn, ReportFailure, WriterPlaces
<1>7. EnterTurn(w) \/ LeaveRun(w) \/ DrainQueue(w) => \E pc \in WriterPlaces :
        /\ To(w, pc) /\ UNCHANGED <<eventLog, lastSeq, untold, storeVars, stream, overtaken>>
        /\ pc \in AtWork \/ writer[w] \notin AtWork
  BY DEF EnterTurn, LeaveRun, DrainQueue, Is, AtWork, WriterPlaces
<1> QED
  BY <1>2, <1>3, <1>4, <1>5, <1>6, <1>7

LEMMA StartUpKeeps ==
  ASSUME WebInv, ReadForRepair \/ EndOrphan \/ \E w \in WebWorkers : ResumeOrphan(w)
  PROVE  WebInv'
<1>1. Repairer \in Writers /\ Repairer \notin WebWorkers /\ "end" \in EventTypes
      /\ writer \in [Writers -> WriterPlaces] /\ WebWorkers \subseteq Writers
  BY WebAssumption DEF Writers, EventTypes, WebInv, WebTyped
<1>2. CASE ReadForRepair
  <2>1. UNCHANGED <<eventLog, lastSeq, untold, stream, overtaken, deleting, resuming>> /\ bootStage = "resumed"
    BY <1>2 DEF ReadForRepair
  <2>2. CASE Open(eventLog) /\ ~resuming /\ To(Repairer, "repairing") /\ UNCHANGED bootStage
    <3>1. writer' \in [Writers -> WriterPlaces]
      BY <1>1, <2>2 DEF To, WriterPlaces
    <3>2. TurnsShown'
      BY <2>1, <2>2 DEF TurnsShown
    <3> QED
      BY <2>1, <3>1, <3>2, QuietKeeps
  <2>3. CASE ~(Open(eventLog) /\ ~resuming) /\ bootStage' = "up" /\ UNCHANGED writer
    <3>1. TurnsShown'
      BY <2>1, <2>3 DEF TurnsShown, WebInv, HasTurn
    <3> QED
      BY <1>1, <2>1, <2>3, <3>1, QuietKeeps
  <2> QED
    BY <1>2, <2>2, <2>3 DEF ReadForRepair
<1>3. CASE EndOrphan
  <2>1. /\ AppendEvent(Repairer, "end") /\ To(Repairer, "idle") /\ UNCHANGED <<deleting, stream, overtaken>>
    BY <1>3 DEF EndOrphan
  <2>2. ~Open(eventLog')
    BY <1>1, <2>1, AppendMoves
  <2>3. writer' \in [Writers -> WriterPlaces]
    BY <1>1, <2>1 DEF To, WriterPlaces
  <2>4. TurnsShown'
    BY <2>2, ClosedIsShown
  <2> QED
    BY <1>1, <2>1, <2>3, <2>4, LogAppendKeeps
<1>4. ASSUME NEW w \in WebWorkers, ResumeOrphan(w) PROVE WebInv'
  <2>1. UNCHANGED <<eventLog, lastSeq, untold, stream, overtaken, deleting>> /\ bootStage = "starting" /\ bootStage' = "resumed"
    BY <1>4 DEF ResumeOrphan
  <2>2. CASE To(w, "resuming")
    <3>1. writer' \in [Writers -> WriterPlaces] /\ writer'[w] = "resuming"
      BY <1>1, <2>2 DEF To, WriterPlaces
    <3>2. HasTurn'
      BY <3>1 DEF HasTurn, AtWork
    <3>3. TurnsShown'
      BY <3>2 DEF TurnsShown
    <3> QED
      BY <2>1, <3>1, <3>3, QuietKeeps
  <2>3. CASE UNCHANGED <<writer, resuming>>
    <3>1. TurnsShown'
      BY <2>1, <2>3 DEF TurnsShown, WebInv, HasTurn
    <3> QED
      BY <1>1, <2>1, <2>3, <3>1, QuietKeeps
  <2> QED
    BY <1>4, <2>2, <2>3 DEF ResumeOrphan
<1> QED
  BY <1>2, <1>3, <1>4

(* A renaming, and the steps of a deletion. *)
LEMMA DeletionKeeps == ASSUME WebInv, Rename \/ Unlist \/ RemoveLog \/ ForgetConversation PROVE WebInv'
<1>1. /\ writer \in [Writers -> WriterPlaces] /\ stream \in [Streams -> TabRecord]
      /\ eventLog \in Seq(LogEvents) /\ untold \in SUBSET [seq : Nat, by : Writers]
  BY DEF WebInv, WebTyped
<1>2. CASE Rename \/ Unlist
  <2>1. /\ UNCHANGED <<eventLog, lastSeq, untold, stream, overtaken, bootStage, resuming, writer>>
        /\ deleting' = deleting \/ deleting' # "idle"
    BY <1>2 DEF Rename, Unlist
  <2>2. TurnsShown'
    BY <2>1 DEF WebInv, TurnsShown, HasTurn
  <2> QED
    BY <1>1, <2>1, <2>2, QuietKeeps
<1>3. CASE RemoveLog
  <2>1. /\ UNCHANGED <<lastSeq, untold, stream, writer>> /\ eventLog' = <<>> /\ deleting' = "removed"
    BY <1>3 DEF RemoveLog
  <2>2. DOMAIN eventLog' = {} /\ eventLog' \in Seq(LogEvents)
    BY <2>1
  <2>3. NumbersRise' /\ TurnsShown'
    BY <2>2 DEF NumbersRise, TurnsShown, Open
  <2>4. WebTyped'
    BY <2>1, <2>2 DEF WebInv, WebTyped
  <2> QED
    BY <2>1, <2>3, <2>4 DEF WebInv, TabsFollow
<1>4. CASE ForgetConversation
  <2>1. /\ UNCHANGED <<eventLog, untold, resuming, bootStage, writer>> /\ lastSeq' = 0 /\ deleting' = "done"
        /\ stream' = [s \in Streams |-> [stream[s] EXCEPT !.pc = "off"]]
    BY <1>4 DEF ForgetConversation
  <2>2. stream' \in [Streams -> TabRecord]
    <3>1. ASSUME NEW s \in Streams PROVE [stream[s] EXCEPT !.pc = "off"] \in TabRecord
      BY <1>1, TabPc
    <3> QED
      BY <2>1, <3>1
  <2>3. NumbersRise' /\ TurnsShown'
    BY <2>1 DEF WebInv, NumbersRise, TurnsShown, HasTurn
  <2>4. WebTyped'
    BY <2>1, <2>2 DEF WebInv, WebTyped
  <2> QED
    BY <2>1, <2>3, <2>4 DEF WebInv, TabsFollow
<1> QED
  BY <1>2, <1>3, <1>4

LEMMA WebInvStep == WebInv /\ [WebNext]_webVars => WebInv'
<1> SUFFICES ASSUME WebInv, [WebNext]_webVars PROVE WebInv'
  OBVIOUS
<1>1. ASSUME NEW w \in WebWorkers, WorkerStep(w) PROVE WebInv'
  BY <1>1, WakerKeeps, WorkerKeeps, StartUpKeeps DEF WorkerStep
<1>2. ASSUME NEW s \in Streams, Connect(s) \/ Replay(s) \/ GoLive(s) \/ PassOn(s) \/ Disconnect(s) PROVE WebInv'
  BY <1>2, ConnectKeeps, ReplayKeeps, PassOnKeeps
<1>3. CASE UNCHANGED webVars
  <2>1. UNCHANGED <<eventLog, lastSeq, untold, stream, overtaken, deleting, bootStage, resuming, writer>>
    BY <1>3 DEF webVars
  <2>2. TurnsShown' /\ writer' \in [Writers -> WriterPlaces]
    BY <2>1 DEF WebInv, WebTyped, TurnsShown, HasTurn
  <2> QED
    BY <2>1, <2>2, QuietKeeps
<1> QED
  BY <1>1, <1>2, <1>3, MessageKeeps, TellKeeps, WakerKeeps, StartUpKeeps, DeletionKeeps, WebDiesKeeps
     DEF WebNext

LEMMA WebIsInductive == WebSpec => []WebInv
BY WebInvStep, WebAtFirst, PTL DEF WebSpec

(* When the web server answers, a conversation whose last turn is shown as  *)
(* at work has a thread that works on it, or is about to: a turn that       *)
(* failed, was refused or died with the process has its turn_end.           *)
THEOREM AnOpenConversationHasATurn == WebSpec => []OpenHasTurn
<1>1. WebInv => OpenHasTurn
  BY DEF WebInv, TurnsShown, OpenHasTurn, HasTurn, AtWork
<1> QED
  BY <1>1, WebIsInductive, PTL

(* A tab that is connected, with nothing on its way, has every event of its *)
(* conversation but those told of after a later one, or never, whatever its *)
(* replay raced and however often it or the process came back.              *)
THEOREM TabsCatchUp == WebSpec => []StreamsCatchUp
<1>1. WebInv => StreamsCatchUp
  <2> SUFFICES ASSUME WebInv, NEW s \in Streams, NEW n \in Seqs(eventLog), n \notin overtaken,
                      stream[s].pc = "live", stream[s].inbox = <<>>, untold = {}, deleting = "idle"
               PROVE  n \in stream[s].got
    BY DEF StreamsCatchUp
  <2>1. MarkIsBehind(s) /\ RestIsComing(s) /\ Told(n) /\ DOMAIN stream[s].inbox = {}
    BY DEF WebInv, TabsFollow, Told
  <2>2. n \in Nat /\ stream[s].mark \in Nat
    BY SeqsAreNumbers DEF WebInv, WebTyped, TabRecord
  <2>3. n <= stream[s].mark
    BY <2>1, <2>2 DEF RestIsComing
  <2> QED
    BY <2>1, <2>3 DEF MarkIsBehind
<1> QED
  BY <1>1, WebIsInductive, PTL
============================================================================
