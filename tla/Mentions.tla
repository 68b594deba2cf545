------------------------------ MODULE Mentions ------------------------------
(***************************************************************************)
(* Which messages coolton answers (listeners/events/message.py and         *)
(* app_mentioned.py, listeners/code_channel_app.py) and where: up to three *)
(* listeners get one message, in any order, and agent/mention_ids.py lets  *)
(* the first of them answer it.                                            *)
(*                                                                         *)
(* One channel, ordinary or a code channel (agent/code_channel_store.py,   *)
(* agent/tools/code_channel.py), and one person's DM.  What happens to a   *)
(* message once it is taken is ThreadTurns', PolicyConsent's or Huddle's.  *)
(***************************************************************************)
EXTENDS Naturals, FiniteSets

CONSTANTS
  Posts,
  OldThread,    (* a thread whose first message is older than the instance   *)
  Dm,           (* the DM, as a thread                                       *)
  MaxNews,      (* bound: changes of engagement and of the channel's huddle  *)
  MaxLate,      (* bound: claims forgotten                                   *)
  MaxReboots    (* bound: process deaths                                     *)

ASSUME MentionsAssumption ==
  /\ OldThread \notin Posts /\ Dm \notin Posts /\ OldThread # Dm
  /\ {MaxNews, MaxLate, MaxReboots} \subseteq Nat

Threads   == Posts \cup {OldThread, Dm}
Listeners == {"message", "mention", "app"}

VARIABLES
  channel,      (* Slack: what the channel is, and which of the two bots are in it *)
  isCodeChannel,(* code_channels.json has it                                 *)
  creation,     (* create_code_channel, and _activate_code_channel's thread  *)
  expected,     (* _linked_origins has the request                           *)
  engaged,      (* leave_thread_store: the threads answered without a mention *)
  inHuddle,     (* the threads of a huddle coolton is in                     *)
  post,         (* each message: its thread and what kind of text it has     *)
  hearing,      (* each listener's handling of each message                  *)
  claimed,      (* mention_ids._claimed                                      *)
  taken,        (* history: how often each message was acted on              *)
  unclaimed,    (* history: messages whose claim was lost too early          *)
  mentionSpent  (* history: the bounded events so far                        *)

mentionVars == <<channel, isCodeChannel, creation, expected, engaged, inHuddle, post, hearing,
                 claimed, taken, unclaimed, mentionSpent>>

(* An ordinary message; a mention of coolton or of the code channels bot;   *)
(* one that starts with "##", pings a group or is "<>"; and Slack's "Context *)
(* from" opener of a linked code channel.                                   *)
Texts == {"plain", "mention", "codebot", "hash", "ping", "context"}

Post(t, x) == [thread |-> t, text |-> x]
NoPost == Post(Dm, "none")
Hearing(l, lv) == [pc |-> l, level |-> lv]

Top(m)     == post[m].thread = m
AtLevel(m) == Top(m) /\ isCodeChannel
Heard(m, l) == hearing[<<m, l>>].pc

(* The listeners that will get a message: coolton's own two in a channel it *)
(* is in, the code channels app's where its bot is.                         *)
HeardBy(t, x) ==
  IF t = Dm THEN {"message"}
  ELSE (IF "coolton" \in channel.bots THEN {"message"} \cup (IF x = "mention" THEN {"mention"} ELSE {}) ELSE {})
       \cup (IF "app" \in channel.bots /\ x = "codebot" THEN {"app"} ELSE {})

(* Still on its way to a listener that may answer it. *)
Pending(m) == {l \in Listeners : Heard(m, l) \notin {"none", "done"}}

MentionEvent(k, max) == mentionSpent[k] < max /\ mentionSpent' = [mentionSpent EXCEPT ![k] = @ + 1]

----------------------------------------------------------------------------
MentionsInit ==
  /\ channel \in {[kind |-> "none", bots |-> {}], [kind |-> "code", bots |-> {"app"}]}
                   \cup {[kind |-> k, bots |-> {"coolton"} \cup b] : k \in {"ordinary", "code"}, b \in {{}, {"app"}}}
  /\ isCodeChannel = FALSE /\ creation = "none" /\ expected = FALSE
  /\ engaged = {Dm} /\ inHuddle = {}
  /\ post = [m \in Posts |-> NoPost]
  /\ hearing = [h \in Posts \X Listeners |-> Hearing("none", FALSE)]
  /\ claimed = {} /\ unclaimed = {}
  /\ taken = [m \in Posts |-> 0]
  /\ mentionSpent = [k \in {"news", "late", "reboots"} |-> 0]

Delivered(m, t, x, ls) ==
  /\ post[m] = NoPost
  /\ post' = [post EXCEPT ![m] = Post(t, x)]
  /\ hearing' = [h \in Posts \X Listeners |->
       IF h[1] = m /\ h[2] \in ls THEN Hearing("sent", FALSE) ELSE hearing[h]]

(* Someone writes in the DM, at the top of the channel or in a thread.      *)
Write(m, t, x) ==
  /\ t \in {Dm, m, OldThread} \cup {p \in Posts : post[p].thread = p /\ post[p] # NoPost}
  /\ x # "context"
  /\ t # Dm => channel.kind # "none"
  /\ Delivered(m, t, x, HeardBy(t, x))
  /\ UNCHANGED <<channel, isCodeChannel, creation, expected, engaged, inHuddle, claimed, taken, unclaimed, mentionSpent>>

(* _hand_to_coolton: a slash command, a tab's button or the context bar of  *)
(* a code channel, posted as a notice and handled as its person's mention.  *)
HandToCoolton(m) ==
  /\ channel.kind = "code" /\ channel.bots = {"coolton", "app"}
  /\ Delivered(m, m, "plain", {"app"})
  /\ UNCHANGED <<channel, isCodeChannel, creation, expected, engaged, inHuddle, claimed, taken, unclaimed, mentionSpent>>

----------------------------------------------------------------------------
HearingGoes(m, l, pc) == hearing' = [hearing EXCEPT ![<<m, l>>].pc = pc]
Quietly == UNCHANGED <<channel, isCodeChannel, creation, expected, engaged, inHuddle, post, claimed, taken, unclaimed, mentionSpent>>

(* handle_code_channel_app_mention: first _add_coolton, which may fail, ... *)
AddCoolton(m) ==
  /\ Heard(m, "app") = "sent"
  /\ channel' \in {channel, [channel EXCEPT !.bots = @ \cup {"coolton"}]}
  /\ HearingGoes(m, "app", "added")
  /\ UNCHANGED <<isCodeChannel, creation, expected, engaged, inHuddle, post, claimed, taken, unclaimed, mentionSpent>>

(* ... then _register_if_code_channel, whose look-up may fail. *)
RegisterIfCodeChannel(m) ==
  /\ Heard(m, "app") = "added"
  /\ isCodeChannel' \in {isCodeChannel, isCodeChannel \/ channel.kind = "code"}
  /\ HearingGoes(m, "app", "mentioned")
  /\ UNCHANGED <<channel, creation, expected, engaged, inHuddle, post, claimed, taken, unclaimed, mentionSpent>>

(* handle_app_mentioned, from coolton's app_mention event, or from          *)
(* handle_message for a mention of the other bot.                           *)
HearMention(m) ==
  /\ Heard(m, "mention") = "sent"
  /\ HearingGoes(m, "mention", "mentioned")
  /\ Quietly

HearCodeBot(m) ==
  /\ Heard(m, "message") = "sent"
  /\ post[m].thread # Dm /\ post[m].text = "codebot"
  /\ HearingGoes(m, "message", "mentioned")
  /\ Quietly

(* Mutant of ClaimMention: every listener answers. *)
AnswerUnclaimed(m, l) ==
  /\ Heard(m, l) = "mentioned"
  /\ claimed' = claimed \cup {m}
  /\ HearingGoes(m, l, "claimed")
  /\ UNCHANGED <<channel, isCodeChannel, creation, expected, engaged, inHuddle, post, taken, unclaimed, mentionSpent>>

(* claim_mention *)
ClaimMention(m, l) ==
  /\ Heard(m, l) = "mentioned"
  /\ claimed' = claimed \cup {m}
  /\ HearingGoes(m, l, IF m \in claimed THEN "done" ELSE "claimed")
  /\ UNCHANGED <<channel, isCodeChannel, creation, expected, engaged, inHuddle, post, taken, unclaimed, mentionSpent>>

(* is_code_channel decides which conversation the mention belongs to. *)
FindConversation(m, l) ==
  /\ Heard(m, l) = "claimed"
  /\ hearing' = [hearing EXCEPT ![<<m, l>>] = Hearing("found", AtLevel(m))]
  /\ Quietly

Take(m) == taken' = [taken EXCEPT ![m] = @ + 1]

(* A command, the huddle, a consent prompt, a steered run or a turn of its  *)
(* own; only the last joins a thread, at its first message.                 *)
AnswerMention(m, l) ==
  /\ Heard(m, l) = "found"
  /\ Take(m)
  /\ engaged' \in {engaged} \cup
       (IF Top(m) /\ ~hearing[<<m, l>>].level /\ m \notin inHuddle THEN {engaged \cup {m}} ELSE {})
  /\ HearingGoes(m, l, "done")
  /\ UNCHANGED <<channel, isCodeChannel, creation, expected, inHuddle, post, claimed, unclaimed, mentionSpent>>

(* handle_message: what is dropped, ... *)
Unaddressed(m) ==
  \/ post[m].thread # Dm /\ post[m].text = "mention"
  \/ post[m].text \in {"hash", "ping"}
  \/ post[m].text = "context" /\ expected
  \/ Top(m) /\ ~isCodeChannel
  \/ ~Top(m) /\ post[m].thread \notin engaged \cup inHuddle

DropMessage(m) ==
  /\ Heard(m, "message") = "sent"
  /\ post[m].text # "codebot" \/ post[m].thread = Dm
  /\ Unaddressed(m)
  /\ HearingGoes(m, "message", "done")
  /\ Quietly

(* ... and what is not: the DM's, a code channel's own, a thread's joined.  *)
TakeMessage(m) ==
  /\ Heard(m, "message") = "sent"
  /\ post[m].text # "codebot" \/ post[m].thread = Dm
  /\ ~Unaddressed(m)
  /\ Take(m)
  /\ HearingGoes(m, "message", "done")
  /\ UNCHANGED <<channel, isCodeChannel, creation, expected, engaged, inHuddle, post, claimed, unclaimed, mentionSpent>>

----------------------------------------------------------------------------
(* _CLAIM_TTL_SECONDS went by, whether all listeners have had it or not.    *)
ForgetClaim(m) ==
  /\ m \in claimed
  /\ claimed' = claimed \ {m}
  /\ unclaimed' = IF Pending(m) = {} THEN unclaimed ELSE unclaimed \cup {m}
  /\ MentionEvent("late", MaxLate)
  /\ UNCHANGED <<channel, isCodeChannel, creation, expected, engaged, inHuddle, post, hearing, taken>>

(* leave_thread and join_thread, by a turn's tool or the opt-in's click.    *)
SetEngaged(t) ==
  /\ engaged' \in {engaged \cup {t}, engaged \ {t}} /\ engaged' # engaged
  /\ MentionEvent("news", MaxNews)
  /\ UNCHANGED <<channel, isCodeChannel, creation, expected, inHuddle, post, hearing, claimed, taken, unclaimed>>

HuddleChanges(t) ==
  /\ t # Dm
  /\ inHuddle' \in {inHuddle \cup {t}, inHuddle \ {t}} /\ inHuddle' # inHuddle
  /\ MentionEvent("news", MaxNews)
  /\ UNCHANGED <<channel, isCodeChannel, creation, expected, engaged, post, hearing, claimed, taken, unclaimed>>

(* create_code_channel: it expects the opener before Slack makes the channel *)
(* linked to the request, or, that refused or not asked for, unlinked; ...  *)
CreateCodeChannel ==
  /\ channel.kind = "none" /\ creation = "none"
  /\ channel' = [kind |-> "code", bots |-> {"app"}]
  /\ \/ creation' = "linked" /\ expected' = TRUE
     \/ creation' = "created" /\ expected' \in BOOLEAN
  /\ UNCHANGED <<isCodeChannel, engaged, inHuddle, post, hearing, claimed, taken, unclaimed, mentionSpent>>

(* ... Slack's opener, in the requester's name, reaches coolton's bot too   *)
(* when the invitation comes first; ...                                     *)
SlackOpens(m) ==
  /\ creation = "linked"
  /\ creation' = "created"
  /\ Delivered(m, m, "context", HeardBy(m, "context") \cup {"message"})
  /\ UNCHANGED <<channel, isCodeChannel, expected, engaged, inHuddle, claimed, taken, unclaimed, mentionSpent>>

(* ... coolton's bot is invited, or the tool gives up; ... *)
InviteCoolton ==
  /\ creation = "created"
  /\ \/ creation' = "invited" /\ channel' = [channel EXCEPT !.bots = @ \cup {"coolton"}]
     \/ creation' = "over" /\ UNCHANGED channel
  /\ UNCHANGED <<isCodeChannel, expected, engaged, inHuddle, post, hearing, claimed, taken, unclaimed, mentionSpent>>

(* ... and the channel is registered, for its thread to take over there. *)
RegisterCodeChannel ==
  /\ creation = "invited"
  /\ isCodeChannel' = TRUE
  /\ creation' = "activating"
  /\ UNCHANGED <<channel, expected, engaged, inHuddle, post, hearing, claimed, taken, unclaimed, mentionSpent>>

(* _activate_code_channel: a banner, the origin's turn to end or ten        *)
(* minutes, and a turn of the channel, unless its owner is banned.          *)
ActivateCodeChannel ==
  /\ creation = "activating"
  /\ creation' \in {"handedoff", "over"}
  /\ UNCHANGED <<channel, isCodeChannel, expected, engaged, inHuddle, post, hearing, claimed, taken, unclaimed, mentionSpent>>

(* archive, once Slack took it: unregister_code_channel. *)
ArchiveCodeChannel ==
  /\ isCodeChannel
  /\ isCodeChannel' = FALSE
  /\ MentionEvent("news", MaxNews)
  /\ UNCHANGED <<channel, creation, expected, engaged, inHuddle, post, hearing, claimed, taken, unclaimed>>

(* The process dies: claims, expected openers, huddles and the handlers at  *)
(* work are gone, what is not delivered yet is delivered to the next one.   *)
RebootListeners ==
  /\ claimed' = {} /\ expected' = FALSE /\ inHuddle' = {}
  /\ unclaimed' = unclaimed \cup {m \in Posts : Pending(m) # {}}
  /\ hearing' = [h \in Posts \X Listeners |->
       IF hearing[h].pc \in {"none", "sent"} THEN hearing[h] ELSE Hearing("done", FALSE)]
  /\ creation' = IF creation = "none" THEN "none" ELSE "over"
  /\ MentionEvent("reboots", MaxReboots)
  /\ UNCHANGED <<channel, isCodeChannel, engaged, post, taken>>

----------------------------------------------------------------------------
ListenerStep(m) ==
  \/ AddCoolton(m) \/ RegisterIfCodeChannel(m)
  \/ HearMention(m) \/ HearCodeBot(m) \/ DropMessage(m) \/ TakeMessage(m)
  \/ \E l \in Listeners : ClaimMention(m, l) \/ FindConversation(m, l) \/ AnswerMention(m, l)

MentionsNext ==
  \/ \E m \in Posts :
       \/ \E t \in Threads, x \in Texts : Write(m, t, x)
       \/ HandToCoolton(m) \/ SlackOpens(m) \/ ListenerStep(m) \/ ForgetClaim(m)
  \/ \E t \in Threads : SetEngaged(t) \/ HuddleChanges(t)
  \/ CreateCodeChannel \/ InviteCoolton \/ RegisterCodeChannel \/ ActivateCodeChannel \/ ArchiveCodeChannel
  \/ RebootListeners

MentionsSpec == MentionsInit /\ [][MentionsNext]_mentionVars

----------------------------------------------------------------------------
MentionsTypeOK ==
  /\ channel \in [kind : {"none", "ordinary", "code"}, bots : SUBSET {"coolton", "app"}]
  /\ {isCodeChannel, expected} \subseteq BOOLEAN
  /\ creation \in {"none", "linked", "created", "invited", "activating", "handedoff", "over"}
  /\ {engaged, inHuddle} \subseteq SUBSET Threads
  /\ post \in [Posts -> [thread : Threads, text : Texts \cup {"none"}]]
  /\ hearing \in [Posts \X Listeners ->
       [pc : {"none", "sent", "added", "mentioned", "claimed", "found", "done"}, level : BOOLEAN]]
  /\ {claimed, unclaimed} \subseteq SUBSET Posts
  /\ taken \in [Posts -> Nat]
  /\ mentionSpent \in [{"news", "late", "reboots"} -> Nat]

(* However many listeners get it, and in whatever order, a message is acted *)
(* on at most once, and a mention at least once when they are done, unless  *)
(* its claim was lost (a death, ten minutes) before the last of them had it.*)
AnsweredOnce ==
  \A m \in Posts \ unclaimed :
    /\ taken[m] <= 1
    /\ post[m].thread # Dm /\ post[m].text \in {"mention", "codebot"} /\ Pending(m) = {}
         /\ (\E l \in Listeners : Heard(m, l) = "done")
       => taken[m] = 1
============================================================================
