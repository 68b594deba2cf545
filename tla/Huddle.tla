------------------------------- MODULE Huddle -------------------------------
(***************************************************************************)
(* coolton joining and leaving the huddles of one channel: the requests,   *)
(* approvals, kicks and joins of agent/huddle/__init__.py, the start and   *)
(* the end of a session (agent/huddle/session.py) and its connection to    *)
(* the call (agent/huddle/chime.py).  What is said in a call is            *)
(* HuddleTalk's.                                                           *)
(*                                                                         *)
(* Requests, clicks and messages run on their own threads, every session   *)
(* on one event loop; the module's lock guards _sessions, _joining and     *)
(* _pending, and is never held over a call to Slack.                       *)
(***************************************************************************)
EXTENDS Naturals, FiniteSets

CONSTANTS
  JoinAsks,        (* calls of request_join                                  *)
  JoinClicks,      (* presses of a prompt's buttons                          *)
  Nobody,          (* no session                                             *)
  MaxHuddles,      (* bound: huddles in the channel                          *)
  MaxHuddleEvents  (* bound: kicks, calls of leave, huddles that end,        *)
                   (* connections lost and joins that time out, together     *)

ASSUME HuddleAssumption ==
  /\ JoinAsks \cap JoinClicks = {} /\ Nobody \notin JoinAsks \cup JoinClicks
  /\ MaxHuddles \in Nat \ {0} /\ MaxHuddleEvents \in Nat

Joiners == JoinAsks \cup JoinClicks
Huddles == 1..MaxHuddles          (* a huddle's thread; 0 stands for none    *)
Starting == 0                     (* the key of a join that starts a huddle  *)

VARIABLES
  live,        (* Slack: the channel's huddle                                *)
  huddleCount, (* Slack: huddles so far                                      *)
  joinPrompts, (* _pending: the requests a click can approve                 *)
  joiningKeys, (* _joining: no, yes or kicked, by key                        *)
  sessionOf,   (* _sessions: whose join made the huddle's session            *)
  joiner,      (* where each request or click stands, and for which huddle   *)
  call,        (* the session each join made: its start, end and connection  *)
  kicking,     (* a kick between its two looks: the huddle, 0 when there is  *)
               (* none                                                       *)
  kickedJoins, (* history: joins under way, or in a call, at a kick or leave *)
  missedJoins, (* history: those of them it misses                           *)
  huddleSpent  (* history: the bounded events so far                         *)

huddleVars == <<live, huddleCount, joinPrompts, joiningKeys, sessionOf, joiner, call, kicking, kickedJoins,
                missedJoins, huddleSpent>>
kickHistory == <<kickedJoins, missedJoins>>
slackVars  == <<live, huddleCount>>
tables     == <<joinPrompts, joiningKeys, sessionOf>>

HuddleEvent == huddleSpent < MaxHuddleEvents /\ huddleSpent' = huddleSpent + 1
JoinerAt(t, pc)  == joiner[t].pc = pc
JoinerTo(t, pc)  == joiner' = [joiner EXCEPT ![t].pc = pc]
KeyOf(t)    == IF joiner[t].for = 0 THEN Starting ELSE joiner[t].for

HuddleInit ==
  /\ live \in {0, 1} /\ huddleCount = live
  /\ joinPrompts = {}
  /\ joiningKeys = [k \in Huddles \cup {Starting} |-> "no"]
  /\ sessionOf = [h \in Huddles |-> Nobody]
  /\ joiner = [t \in Joiners |-> [pc |-> "idle", for |-> 0, in |-> 0]]
  /\ call = [t \in Joiners |-> [start |-> "none", asked |-> FALSE, stop |-> "no", link |-> FALSE,
                                reconnecting |-> FALSE]]
  /\ kicking = 0 /\ kickedJoins = {} /\ missedJoins = {} /\ huddleSpent = 0

----------------------------------------------------------------------------
(* request_join: with no huddle going it starts one (or refuses); it gives  *)
(* up when coolton is in the huddle or on its way, or was asked already, ...*)
AskToJoin(q) ==
  /\ JoinerAt(q, "idle")
  /\ IF live = 0
       THEN \E pc \in {"deciding", "over"} : JoinerTo(q, pc)
       ELSE joiner' = [joiner EXCEPT
              ![q].pc = IF sessionOf[live] # Nobody \/ joiningKeys[live] # "no"
                             \/ \E p \in joinPrompts : p.for = live
                          THEN "over" ELSE "prompting",
              ![q].for = live]
  /\ UNCHANGED <<slackVars, tables, call, kicking, kickHistory, huddleSpent>>

(* ... and else posts the prompt and then remembers the request. *)
RememberAsk(q) ==
  /\ JoinerAt(q, "prompting")
  /\ \/ joinPrompts' = joinPrompts \cup {[id |-> q, for |-> joiner[q].for]}
     \/ UNCHANGED joinPrompts                       (* the prompt was not posted *)
  /\ JoinerTo(q, "over")
  /\ UNCHANGED <<slackVars, joiningKeys, sessionOf, call, kicking, kickHistory, huddleSpent>>

(* _expire_pending *)
ExpirePrompt(p) ==
  /\ joinPrompts' = joinPrompts \ {p}
  /\ UNCHANGED <<slackVars, joiningKeys, sessionOf, joiner, call, kicking, kickHistory, huddleSpent>>

(* approve takes the request and the huddle's others; their prompts are     *)
(* edited before it goes on to join.                                        *)
ApproveJoin(b, p) ==
  /\ JoinerAt(b, "idle")
  /\ joinPrompts' = {o \in joinPrompts : o.for # p.for}
  /\ joiner' = [joiner EXCEPT ![b] = [@ EXCEPT !.pc = "deciding", !.for = p.for]]
  /\ UNCHANGED <<slackVars, joiningKeys, sessionOf, call, kicking, kickHistory, huddleSpent>>

DeclineJoin(b, p) ==
  /\ JoinerAt(b, "idle")
  /\ joinPrompts' = joinPrompts \ {p}
  /\ JoinerTo(b, "over")
  /\ UNCHANGED <<slackVars, joiningKeys, sessionOf, call, kicking, kickHistory, huddleSpent>>

(* _join: one at a time per huddle. *)
DecideJoin(t) ==
  /\ JoinerAt(t, "deciding")
  /\ IF joiningKeys[KeyOf(t)] # "no" \/ (joiner[t].for # 0 /\ sessionOf[joiner[t].for] # Nobody)
       THEN JoinerTo(t, "over") /\ UNCHANGED joiningKeys
       ELSE JoinerTo(t, "checking") /\ joiningKeys' = [joiningKeys EXCEPT ![KeyOf(t)] = "yes"]
  /\ UNCHANGED <<slackVars, joinPrompts, sessionOf, call, kicking, kickHistory, huddleSpent>>

(* _connect looks whether the huddle is still (or still not) going ... *)
CheckLive(t) ==
  /\ JoinerAt(t, "checking")
  /\ JoinerTo(t, IF live = joiner[t].for THEN "entering" ELSE "leaving")
  /\ UNCHANGED <<slackVars, tables, call, kicking, kickHistory, huddleSpent>>

(* ... and rooms.join takes the channel's huddle, or starts one. *)
JoinRoom(t) ==
  /\ JoinerAt(t, "entering")
  /\ \/ /\ IF live # 0 THEN UNCHANGED slackVars
                       ELSE huddleCount < MaxHuddles /\ huddleCount' = huddleCount + 1 /\ live' = huddleCount'
        /\ joiner' = [joiner EXCEPT ![t].pc = "registering", ![t].in = live']
     \/ UNCHANGED slackVars /\ JoinerTo(t, "leaving")
  /\ UNCHANGED <<tables, call, kicking, kickHistory, huddleSpent>>

(* Mutant of Register: a join replaces the session that got there first. *)
RegisterOver(t) ==
  /\ JoinerAt(t, "registering")
  /\ sessionOf' = [sessionOf EXCEPT ![joiner[t].in] = t]
  /\ call' = [call EXCEPT ![t].start = "models"]
  /\ JoinerTo(t, "waiting")
  /\ UNCHANGED <<slackVars, joinPrompts, joiningKeys, kicking, kickHistory, huddleSpent>>

(* The session is registered, unless another join got there first, and its  *)
(* start is handed to the event loop.                                       *)
Register(t) ==
  /\ JoinerAt(t, "registering")
  /\ IF sessionOf[joiner[t].in] # Nobody
       THEN JoinerTo(t, "leaving") /\ UNCHANGED <<sessionOf, call>>
       ELSE /\ sessionOf' = [sessionOf EXCEPT ![joiner[t].in] = t]
            /\ call' = [call EXCEPT ![t].start = "models"]
            /\ JoinerTo(t, "waiting")
  /\ UNCHANGED <<slackVars, joinPrompts, joiningKeys, kicking, kickHistory, huddleSpent>>

(* _forget *)
Forgotten(t) == [h \in Huddles |-> IF sessionOf[h] = t THEN Nobody ELSE sessionOf[h]]

(* The start failed, or takes too long and is cancelled: the session is     *)
(* asked to stop and forgotten.                                             *)
StartFailed(t) ==
  /\ JoinerAt(t, "waiting")
  /\ \/ call[t].start = "failed" /\ UNCHANGED huddleSpent
     \/ call[t].start \notin {"failed", "done"} /\ HuddleEvent
  /\ call' = [call EXCEPT ![t].start = "failed", ![t].asked = TRUE]
  /\ sessionOf' = Forgotten(t)
  /\ JoinerTo(t, "leaving")
  /\ UNCHANGED <<slackVars, joinPrompts, joiningKeys, kicking, kickHistory>>

(* It is up: whoever kicked it meanwhile is heard now. *)
HearKick(t) ==
  /\ JoinerAt(t, "waiting") /\ call[t].start = "done"
  /\ call' = [call EXCEPT ![t].asked = @ \/ "kicked" \in {joiningKeys[KeyOf(t)], joiningKeys[joiner[t].in]}]
  /\ JoinerTo(t, "leaving")
  /\ UNCHANGED <<slackVars, tables, kicking, kickHistory, huddleSpent>>

EndJoin(t) ==
  /\ JoinerAt(t, "leaving")
  /\ joiningKeys' = [joiningKeys EXCEPT ![KeyOf(t)] = "no"]
  /\ JoinerTo(t, "over")
  /\ UNCHANGED <<slackVars, joinPrompts, sessionOf, call, kicking, kickHistory, huddleSpent>>

----------------------------------------------------------------------------
(* Joins on their way, and sessions that are known. *)
OnTheWay == {t \in Joiners : joiner[t].pc \in {"checking", "entering", "registering", "waiting"}}
InCalls  == {t \in Joiners : \E h \in Huddles : sessionOf[h] = t}

(* Joins a kick in the thread of h must end: on their way to it (one that   *)
(* starts a huddle, or finds another, gets there only by joining), or in    *)
(* its call.                                                                *)
JoinsUnder(h) ==
  {t \in OnTheWay : KeyOf(t) = h \/ (JoinerAt(t, "registering") /\ joiner[t].in = h)}
  \cup {t \in Joiners : sessionOf[h] = t}

StopCall(t) == call' = [u \in Joiners |-> IF u = t THEN [call[u] EXCEPT !.asked = TRUE] ELSE call[u]]

(* kick, in the thread of a huddle: it drops the requests and marks the     *)
(* join under way, ...                                                      *)
Kick(h) ==
  /\ kicking = 0 /\ HuddleEvent
  /\ joinPrompts' = {p \in joinPrompts : p.for # h}
  /\ joiningKeys' = [joiningKeys EXCEPT ![h] = IF @ = "no" THEN "no" ELSE "kicked"]
  /\ kicking' = h
  /\ kickedJoins' = kickedJoins \cup JoinsUnder(h)
  /\ UNCHANGED <<slackVars, sessionOf, joiner, call, missedJoins>>

(* ... and stops the session there is.  A join in the huddle under another  *)
(* key, its own still to be registered, is missed by both.                  *)
KickSession ==
  /\ kicking # 0
  /\ StopCall(sessionOf[kicking])
  /\ kicking' = 0
  /\ missedJoins' = missedJoins \cup {t \in kickedJoins : /\ JoinerAt(t, "registering") /\ joiner[t].in = kicking
                                                  /\ joiningKeys[KeyOf(t)] = "yes"}
  /\ UNCHANGED <<slackVars, tables, joiner, kickedJoins, huddleSpent>>

(* leave stops one session: the one of the thread it is asked in, or else   *)
(* the oldest.  Another that is up (the channel's last huddle, not closed   *)
(* yet, say) is not told.                                                   *)
LeaveOne ==
  \E t \in InCalls \cup {Nobody} :
    /\ t = Nobody => InCalls = {}
    /\ StopCall(t)
    /\ missedJoins' = missedJoins \cup {u \in InCalls \ (OnTheWay \cup {t}) : ~call[u].asked}

(* Mutant of LeaveHuddle: only a session that is up is left. *)
LeaveSessions ==
  /\ HuddleEvent
  /\ joinPrompts' = {}
  /\ kickedJoins' = kickedJoins \cup OnTheWay \cup InCalls
  /\ LeaveOne
  /\ UNCHANGED <<slackVars, joiningKeys, sessionOf, joiner, kicking>>

(* leave: it drops the channel's requests, marks its joins and stops the    *)
(* session.                                                                 *)
LeaveHuddle ==
  /\ HuddleEvent
  /\ joinPrompts' = {}
  /\ joiningKeys' = [k \in DOMAIN joiningKeys |-> IF joiningKeys[k] = "no" THEN "no" ELSE "kicked"]
  /\ kickedJoins' = kickedJoins \cup OnTheWay \cup InCalls
  /\ LeaveOne
  /\ UNCHANGED <<slackVars, sessionOf, joiner, kicking>>

----------------------------------------------------------------------------
(* start: it looks its models up, ... *)
FindModels(t) ==
  /\ call[t].start = "models"
  /\ \E s \in {"connecting", "failed"} : call' = [call EXCEPT ![t].start = s]
  /\ UNCHANGED <<slackVars, tables, joiner, kicking, kickHistory, huddleSpent>>

(* ... connects to the call, trying each relay, ... *)
ConnectCall(t) ==
  /\ call[t].start = "connecting"
  /\ \/ live = joiner[t].in /\ call' = [call EXCEPT ![t].start = "announcing", ![t].link = TRUE]
     \/ call' = [call EXCEPT ![t].start = "failed"]
  /\ UNCHANGED <<slackVars, tables, joiner, kicking, kickHistory, huddleSpent>>

(* ... and tells the huddle's thread, and greets. *)
Announce(t) ==
  /\ call[t].start = "announcing"
  /\ call' = [call EXCEPT ![t].start = "done"]
  /\ UNCHANGED <<slackVars, tables, joiner, kicking, kickHistory, huddleSpent>>

(* stop, the first time: the tasks are cancelled and the connection left, ...*)
LeaveCall(t) ==
  /\ call[t].asked /\ call[t].stop = "no"
  /\ call' = [call EXCEPT ![t].stop = "leaving", ![t].link = FALSE, ![t].reconnecting = FALSE]
  /\ UNCHANGED <<slackVars, tables, joiner, kicking, kickHistory, huddleSpent>>

(* ... and once it has said so and saved the transcript, it is forgotten. *)
CloseSession(t) ==
  /\ call[t].stop = "leaving"
  /\ call' = [call EXCEPT ![t].stop = "left"]
  /\ sessionOf' = Forgotten(t)
  /\ UNCHANGED <<slackVars, joinPrompts, joiningKeys, joiner, kicking, kickHistory, huddleSpent>>

(* The voice agent was asked to leave, or _housekeeping sees it is alone. *)
LeaveAlone(t) ==
  /\ call[t].link /\ call[t].start \in {"announcing", "done"} /\ call[t].stop = "no"
  /\ HuddleEvent
  /\ call' = [call EXCEPT ![t].asked = TRUE]
  /\ UNCHANGED <<slackVars, tables, joiner, kicking, kickHistory>>

(* _lost, unless it is leaving: the link is rebuilt, ... *)
LoseLink(t) ==
  /\ call[t].link /\ call[t].stop = "no"
  /\ HuddleEvent
  /\ call' = [call EXCEPT ![t].link = FALSE, ![t].reconnecting = TRUE]
  /\ UNCHANGED <<slackVars, tables, joiner, kicking, kickHistory>>

(* ... or given up after two minutes. *)
Reconnect(t) ==
  /\ call[t].reconnecting
  /\ \/ live = joiner[t].in /\ call' = [call EXCEPT ![t].link = TRUE, ![t].reconnecting = FALSE]
     \/ call' = [call EXCEPT ![t].asked = TRUE, ![t].reconnecting = FALSE]
  /\ UNCHANGED <<slackVars, tables, joiner, kicking, kickHistory, huddleSpent>>

(* People start a huddle, or the last of them leaves it: Chime ends the     *)
(* connections to it (_end), and a session that is not leaving stops.       *)
StartHuddle ==
  /\ live = 0 /\ huddleCount < MaxHuddles
  /\ huddleCount' = huddleCount + 1 /\ live' = huddleCount'
  /\ UNCHANGED <<tables, joiner, call, kicking, kickHistory, huddleSpent>>

EndHuddle ==
  /\ live # 0 /\ HuddleEvent
  /\ live' = 0
  /\ call' = [t \in Joiners |->
       IF call[t].link THEN [call[t] EXCEPT !.link = FALSE, !.asked = @ \/ call[t].stop = "no"] ELSE call[t]]
  /\ UNCHANGED <<huddleCount, tables, joiner, kicking, kickHistory>>

----------------------------------------------------------------------------
JoinStep(t) ==
  \/ DecideJoin(t) \/ CheckLive(t) \/ JoinRoom(t) \/ Register(t) \/ StartFailed(t) \/ HearKick(t)
  \/ EndJoin(t)

SessionStep(t) ==
  \/ FindModels(t) \/ ConnectCall(t) \/ Announce(t) \/ LeaveCall(t) \/ CloseSession(t) \/ LeaveAlone(t)
  \/ LoseLink(t) \/ Reconnect(t)

HuddleNext ==
  \/ \E q \in JoinAsks : AskToJoin(q) \/ RememberAsk(q)
  \/ \E p \in joinPrompts : ExpirePrompt(p) \/ \E b \in JoinClicks : ApproveJoin(b, p) \/ DeclineJoin(b, p)
  \/ \E t \in Joiners : JoinStep(t) \/ SessionStep(t)
  \/ \E h \in Huddles : Kick(h)
  \/ KickSession \/ LeaveHuddle \/ StartHuddle \/ EndHuddle

HuddleSpec == HuddleInit /\ [][HuddleNext]_huddleVars

----------------------------------------------------------------------------
HuddleTypeOK ==
  /\ {live, huddleCount} \subseteq 0..MaxHuddles
  /\ \A p \in joinPrompts : p.id \in JoinAsks /\ p.for \in Huddles
  /\ joiningKeys \in [Huddles \cup {Starting} -> {"no", "yes", "kicked"}]
  /\ sessionOf \in [Huddles -> Joiners \cup {Nobody}]
  /\ call \in [Joiners -> [start : {"none", "models", "connecting", "announcing", "done", "failed"},
                           asked : BOOLEAN, stop : {"no", "leaving", "left"}, link : BOOLEAN,
                           reconnecting : BOOLEAN]]
  /\ kicking \in 0..MaxHuddles /\ kickedJoins \subseteq Joiners /\ missedJoins \subseteq Joiners

(* A coolton in a call that nobody asked to leave is the session its huddle *)
(* is known by, so that a kick or a leave reaches it: two joins never put   *)
(* two of them in one call.                                                 *)
SessionIsReachable ==
  \A t \in Joiners : call[t].link /\ ~call[t].asked => sessionOf[joiner[t].in] = t

(* A kick or a leave that finds coolton in the call, or on its way there,   *)
(* ends in that session being asked to stop, whatever the join was doing.   *)
(* Two are missed: a join that got to the kicked huddle under another key   *)
(* and has no session yet, and a leave's second session.                    *)
KickReachesJoin ==
  kicking = 0 =>
    \A t \in kickedJoins \ missedJoins : JoinerAt(t, "over") /\ call[t].start # "none" => call[t].asked

(* A session that has left its huddle is not in the call. *)
LeftIsOut ==
  \A t \in Joiners : call[t].stop = "left" /\ call[t].start \in {"done", "failed"} => ~call[t].link
============================================================================
