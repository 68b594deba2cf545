--------------------------- MODULE PolicyConsent ---------------------------
(***************************************************************************)
(* Who has opted in to the policy (agent/policy_consent.py): one file that *)
(* four parties write, each in a thread of its own: the message handlers,  *)
(* the App Home (app_home_opened.py), the opt-in and opt-out buttons       *)
(* (policy_actions.py), and the events that say who joined or left the     *)
(* policy channel (policy_membership.py).                                  *)
(*                                                                         *)
(* A message names the prompt it leads to (its pending id), and a click    *)
(* the thread of the handler it runs in.                                   *)
(***************************************************************************)
EXTENDS Naturals, FiniteSets

CONSTANTS
  People,
  Asks,       (* messages coolton is to answer                               *)
  Starters,   (* ... those that start their thread                           *)
  Clicks,
  NoOne,
  DictResponses, (* TRUE: the Slack client answers with a dict, as the tests' *)
                 (* mocks do; FALSE: with slack_sdk's SlackResponse           *)
  MaxMoves,   (* bound: joins and leaves of the policy channel, by hand      *)
  MaxOptOuts, (* bound: clicks on "opt out"                                  *)
  MaxDeaths   (* bound: restarts                                             *)

ASSUME PolicyConsentAssumption ==
  /\ Starters \subseteq Asks /\ NoOne \notin People /\ DictResponses \in BOOLEAN
  /\ {MaxMoves, MaxOptOuts, MaxDeaths} \subseteq Nat

VARIABLES
  members,    (* Slack: who is in the policy channel                         *)
  news,       (* its events not handled yet: <<person, "joined" or "left">>  *)
  consents,   (* the file: who has opted in                                  *)
  prompts,    (* the file: the pending prompts                               *)
  shown,      (* Slack: the prompts whose buttons can be clicked             *)
  ask,        (* each message's handler: where it stands, whose message, and *)
              (* (history) whether Slack's answer listed them                *)
  homes,      (* whose App Home has found them in the channel and records it *)
  click,      (* each click's handler: who clicked which prompt, and how     *)
  joined,     (* leave_thread_store: the threads the opt-in joined           *)
  willing,    (* history: who last joined or opted in, not left or opted out *)
  muddled,    (* history: whose leaving was handled while another thread had *)
              (* still to record them, or was missed                         *)
  consentSpent

consentVars == <<members, news, consents, prompts, shown, ask, homes, click, joined,
                 willing, muddled, consentSpent>>

Ask(l, u, b) == [pc |-> l, user |-> u, listed |-> b]
NoAsk == Ask("new", NoOne, FALSE)
Click(l, u, p, j) == [pc |-> l, user |-> u, prompt |-> p, join |-> j]
NoClick == Click("idle", NoOne, {}, FALSE)

(* The pending prompts of a person. *)
PromptsOf(u) == {p \in prompts : ask[p].user = u}

(* Whether a thread has still to record u's consent as a member.            *)
GrantUnderWay(u) ==
  \/ <<u, "joined">> \in news
  \/ u \in homes
  \/ \E a \in Asks : ask[a].user = u /\ ask[a].pc = "inside"

(* user_is_in_policy_channel: its answer for u, when nothing raises.        *)
IsFound(u) == DictResponses /\ u \in members

----------------------------------------------------------------------------
ConsentInit ==
  /\ members \in SUBSET People
  /\ news = {} /\ consents = members /\ prompts = {} /\ shown = {}
  /\ ask = [a \in Asks |-> NoAsk]
  /\ click = [c \in Clicks |-> NoClick]
  /\ joined = {} /\ homes = {}
  /\ willing = members /\ muddled = {}
  /\ consentSpent = [k \in {"moves", "outs", "deaths"} |-> 0]

ConsentEvent(k, max) == consentSpent[k] < max /\ consentSpent' = [consentSpent EXCEPT ![k] = @ + 1]

(* A person joins or leaves the policy channel by hand; Slack tells coolton *)
(* later, and two events may be handled in either order.                    *)
JoinChannel(u) ==
  /\ u \notin members /\ <<u, "joined">> \notin news
  /\ members' = members \cup {u}
  /\ news' = news \cup {<<u, "joined">>}
  /\ willing' = willing \cup {u}
  /\ ConsentEvent("moves", MaxMoves)
  /\ UNCHANGED <<consents, prompts, shown, ask, homes, click, joined, muddled>>

LeaveChannel(u) ==
  /\ u \in members /\ <<u, "left">> \notin news
  /\ members' = members \ {u}
  /\ news' = news \cup {<<u, "left">>}
  /\ willing' = willing \ {u}
  /\ ConsentEvent("moves", MaxMoves)
  /\ UNCHANGED <<consents, prompts, shown, ask, homes, click, joined, muddled>>

(* handle_member_joined_channel: record_consent.                            *)
HandleJoined(u) ==
  /\ <<u, "joined">> \in news
  /\ news' = news \ {<<u, "joined">>}
  /\ consents' = consents \cup {u}
  /\ UNCHANGED <<members, prompts, shown, ask, homes, click, joined, willing, muddled, consentSpent>>

(* Mutant of HandleLeft: leaving the channel keeps the consent.             *)
HandleLeftKeeping(u) ==
  /\ <<u, "left">> \in news
  /\ news' = news \ {<<u, "left">>}
  /\ UNCHANGED <<members, consents, prompts, shown, ask, homes, click, joined, willing, muddled, consentSpent>>

(* handle_member_left_channel: revoke_consent.                              *)
HandleLeft(u) ==
  /\ <<u, "left">> \in news
  /\ news' = news \ {<<u, "left">>}
  /\ consents' = consents \ {u}
  /\ muddled' = IF GrantUnderWay(u) /\ u \notin members THEN muddled \cup {u} ELSE muddled \ {u}
  /\ UNCHANGED <<members, prompts, shown, ask, homes, click, joined, willing, consentSpent>>

(* handle_policy_opt_out. *)
OptOut(u) ==
  /\ u \in consents
  /\ consents' = consents \ {u}
  /\ willing' = willing \ {u}
  /\ ConsentEvent("outs", MaxOptOuts)
  /\ UNCHANGED <<members, news, prompts, shown, ask, homes, click, joined, muddled>>

----------------------------------------------------------------------------
(* ensure_consent, in the steps other threads come between.                 *)
AskGoes(a, l, b) ==
  /\ ask' = [ask EXCEPT ![a].pc = l, ![a].listed = b]
  /\ UNCHANGED <<members, news, homes, click, joined, willing, muddled, consentSpent>>

HasConsent(a, u) ==
  /\ ask[a] = NoAsk
  /\ ask' = [ask EXCEPT ![a] = Ask(IF u \in consents THEN "answered" ELSE "asking", u, FALSE)]
  /\ UNCHANGED <<members, news, consents, prompts, shown, homes, click, joined, willing, muddled, consentSpent>>

(* user_is_in_policy_channel: Slack's answer, or an error, which counts as  *)
(* no.                                                                      *)
AskSlack(a) ==
  LET u == ask[a].user IN
  /\ ask[a].pc = "asking"
  /\ \/ AskGoes(a, IF IsFound(u) THEN "inside" ELSE "outside", u \in members)
     \/ AskGoes(a, "outside", FALSE)
  /\ UNCHANGED <<consents, prompts, shown>>

RecordMember(a) ==
  /\ ask[a].pc = "inside"
  /\ consents' = consents \cup {ask[a].user}
  /\ AskGoes(a, "answered", ask[a].listed)
  /\ UNCHANGED <<prompts, shown>>

SavePending(a) ==
  /\ ask[a].pc = "outside"
  /\ prompts' = prompts \cup {a}
  /\ AskGoes(a, "saved", ask[a].listed)
  /\ UNCHANGED <<consents, shown>>

SayPrompt(a) ==
  /\ ask[a].pc = "saved"
  /\ shown' = shown \cup {a}
  /\ AskGoes(a, "prompted", ask[a].listed)
  /\ UNCHANGED <<consents, prompts>>

(* handle_app_home_opened finds the person in the channel ...               *)
HomeFinds(u) ==
  /\ IsFound(u)
  /\ homes' = homes \cup {u}
  /\ UNCHANGED <<members, news, consents, prompts, shown, ask, click, joined, willing, muddled, consentSpent>>

(* ... and records their consent. *)
HomeRecords(u) ==
  /\ u \in homes
  /\ homes' = homes \ {u}
  /\ consents' = consents \cup {u}
  /\ UNCHANGED <<members, news, prompts, shown, ask, click, joined, willing, muddled, consentSpent>>

----------------------------------------------------------------------------
(* handle_policy_opt_in: anyone may click, and the prompt is taken before   *)
(* it is looked at.                                                         *)
PopPending(c, u, p, j) ==
  /\ click[c] = NoClick
  /\ p \in shown
  /\ prompts' = prompts \ {p}
  /\ click' = [click EXCEPT ![c] =
       IF p \in prompts /\ ask[p].user = u THEN Click("popped", u, {p}, j) ELSE Click("done", u, {p}, j)]
  /\ UNCHANGED <<members, news, consents, shown, ask, homes, joined, willing, muddled, consentSpent>>

(* conversations_invite, whose failure is only logged. *)
Invite(c) ==
  LET u == click[c].user IN
  /\ click[c].pc = "popped"
  /\ click' = [click EXCEPT ![c].pc = "invited"]
  /\ \/ /\ click[c].join /\ u \notin members /\ <<u, "joined">> \notin news
        /\ members' = members \cup {u} /\ news' = news \cup {<<u, "joined">>}
     \/ UNCHANGED <<members, news>>
  /\ UNCHANGED <<consents, prompts, shown, ask, homes, joined, willing, muddled, consentSpent>>

RecordOptIn(c) ==
  LET u == click[c].user IN
  /\ click[c].pc = "invited"
  /\ consents' = consents \cup {u}
  /\ click' = [click EXCEPT ![c].pc = "recorded"]
  /\ willing' = willing \cup {u}
  /\ UNCHANGED <<members, news, prompts, shown, ask, homes, joined, muddled, consentSpent>>

(* clear_pending_for_user, join_thread for a starter, and "Done!".          *)
ClearPending(c) ==
  /\ click[c].pc = "recorded"
  /\ prompts' = prompts \ PromptsOf(click[c].user)
  /\ joined' = joined \cup (click[c].prompt \cap Starters)
  /\ click' = [click EXCEPT ![c].pc = "done"]
  /\ UNCHANGED <<members, news, consents, shown, ask, homes, willing, muddled, consentSpent>>

(* The process dies: what was under way is gone, and Slack's events with it.*)
DieAndRestart ==
  /\ ask' = [a \in Asks |-> IF ask[a].pc \in {"asking", "inside", "outside", "saved"}
                            THEN [ask[a] EXCEPT !.pc = "dropped"] ELSE ask[a]]
  /\ click' = [c \in Clicks |-> IF click[c].pc = "idle" THEN click[c] ELSE [click[c] EXCEPT !.pc = "done"]]
  /\ muddled' = muddled \cup {u \in People \ (members \cup willing) : <<u, "left">> \in news}
  /\ news' = {} /\ homes' = {}
  /\ ConsentEvent("deaths", MaxDeaths)
  /\ UNCHANGED <<members, consents, prompts, shown, joined, willing>>

----------------------------------------------------------------------------
ConsentNext ==
  \/ \E u \in People :
       \/ JoinChannel(u) \/ LeaveChannel(u) \/ HandleJoined(u) \/ HandleLeft(u) \/ OptOut(u)
       \/ HomeFinds(u) \/ HomeRecords(u)
       \/ \E a \in Asks : HasConsent(a, u)
       \/ \E c \in Clicks, p \in Asks, j \in BOOLEAN : PopPending(c, u, p, j)
  \/ \E a \in Asks : AskSlack(a) \/ RecordMember(a) \/ SavePending(a) \/ SayPrompt(a)
  \/ \E c \in Clicks : Invite(c) \/ RecordOptIn(c) \/ ClearPending(c)
  \/ DieAndRestart

ConsentSpec == ConsentInit /\ [][ConsentNext]_consentVars

----------------------------------------------------------------------------
ConsentTypeOK ==
  /\ {members, consents, homes, willing, muddled} \subseteq SUBSET People
  /\ news \subseteq People \X {"joined", "left"}
  /\ {prompts, shown, joined} \subseteq SUBSET Asks
  /\ \A a \in Asks : ask[a] \in [pc : {"new", "asking", "inside", "outside", "saved", "prompted", "answered", "dropped"},
                                 user : People \cup {NoOne}, listed : BOOLEAN]
  /\ \A c \in Clicks : click[c] \in [pc : {"idle", "popped", "invited", "recorded", "done"},
                                     user : People \cup {NoOne}, prompt : SUBSET Asks, join : BOOLEAN]
  /\ consentSpent \in [{"moves", "outs", "deaths"} -> Nat]

(* Unless the event of their leaving is still to come, the file says a      *)
(* person consents only if they are in the channel or opted in since they   *)
(* last left or opted out, whichever of the four wrote last; except when    *)
(* their leaving was handled between another thread's look at the members   *)
(* and its write, or missed.                                                *)
ConsentHasGround ==
  \A u \in consents \ muddled : <<u, "left">> \notin news => u \in members \cup willing

(* test_policy_consent.py:18-19: no member of the channel is silently       *)
(* missed: whom Slack lists is answered, not prompted.                      *)
MembersAreFound == \A a \in Asks : ask[a].listed => ask[a].pc \in {"inside", "answered", "dropped"}
============================================================================
