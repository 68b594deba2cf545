--------------------------- MODULE Access_proofs ---------------------------
(***************************************************************************)
(* What is proved of the parts that decide who is answered and who may do  *)
(* what, for every number of people, messages, calls, requests and         *)
(* restarts: consent has a ground; staged skill files are cleaned up; a    *)
(* script's tool call runs with the deps of the run that started it; a     *)
(* message is answered once; and a bot that was installed can be deployed. *)
(* Each part is proved of its own specification: they share no variable.   *)
(***************************************************************************)
EXTENDS PolicyConsent, SkillReview, SandboxAccess, Mentions, BotInstalls, TLAPS

----------------------------------------------------------------------------
(* Policy consent: who lost every ground for their consent keeps it only    *)
(* until the event of their leaving is handled, and a thread that has still *)
(* to record somebody as a member has seen them there, so that they are, or *)
(* the event of their leaving is still to come.                             *)

AskShape == [pc : {"new", "asking", "inside", "outside", "saved", "prompted", "answered", "dropped"},
             user : People \cup {NoOne}, listed : BOOLEAN]
ClickShape == [pc : {"idle", "popped", "invited", "recorded", "done"},
               user : People \cup {NoOne}, prompt : SUBSET Asks, join : BOOLEAN]

HandlersTyped == ask \in [Asks -> AskShape] /\ click \in [Clicks -> ClickShape]

(* Every handler under way is some person's, and so is every consent.       *)
AllArePeople ==
  /\ \A a \in Asks : ask[a].pc # "new" => ask[a].user \in People
  /\ \A c \in Clicks : click[c].pc # "idle" => click[c].user \in People
  /\ consents \subseteq People /\ homes \subseteq People

HasGround(u) == u \in members \cup willing
Inside(u) == \E a \in Asks : ask[a].user = u /\ ask[a].pc = "inside"

LeftInNews(u) == u \in consents /\ ~HasGround(u) => <<u, "left">> \in news
GrantIsFresh(u) == GrantUnderWay(u) /\ u \notin members => <<u, "left">> \in news

ConsentInv ==
  /\ HandlersTyped /\ AllArePeople
  /\ \A u \in People \ muddled : LeftInNews(u) /\ GrantIsFresh(u)

LEMMA HandlersTypedStep == HandlersTyped /\ [ConsentNext]_consentVars => HandlersTyped'
<1> SUFFICES ASSUME HandlersTyped, [ConsentNext]_consentVars PROVE HandlersTyped'
  OBVIOUS
<1> USE DEF HandlersTyped
<1>1. ASSUME NEW u \in People,
             \/ JoinChannel(u) \/ LeaveChannel(u) \/ HandleJoined(u) \/ HandleLeft(u) \/ OptOut(u)
             \/ HomeFinds(u) \/ HomeRecords(u)
      PROVE  HandlersTyped'
  BY <1>1 DEF JoinChannel, LeaveChannel, HandleJoined, HandleLeft, OptOut, HomeFinds, HomeRecords
<1>2. ASSUME NEW u \in People, NEW a \in Asks, HasConsent(a, u) PROVE HandlersTyped'
  <2>1. \A x \in {"answered", "asking"} : Ask(x, u, FALSE) \in AskShape
    BY DEF Ask, AskShape
  <2> QED
    BY <1>2, <2>1 DEF HasConsent
<1>3. ASSUME NEW u \in People, NEW c \in Clicks, NEW p \in Asks, NEW j \in BOOLEAN, PopPending(c, u, p, j)
      PROVE  HandlersTyped'
  <2>1. \A x \in {"popped", "done"} : Click(x, u, {p}, j) \in ClickShape
    BY DEF Click, ClickShape
  <2> QED
    BY <1>3, <2>1 DEF PopPending
<1>4. ASSUME NEW a \in Asks, AskSlack(a) \/ RecordMember(a) \/ SavePending(a) \/ SayPrompt(a)
      PROVE  HandlersTyped'
  <2>1. UNCHANGED click
    BY <1>4 DEF AskSlack, RecordMember, SavePending, SayPrompt, AskGoes
  <2>2. \E x \in {"inside", "outside", "answered", "saved", "prompted"}, b \in BOOLEAN : AskGoes(a, x, b)
    <3> DEFINE found == ask[a].user \in members
    <3>1. found \in BOOLEAN /\ ask[a].listed \in BOOLEAN
      BY DEF AskShape
    <3>2. \/ \E x \in {"inside", "outside"} : AskGoes(a, x, found)
          \/ AskGoes(a, "outside", FALSE)
          \/ \E x \in {"answered", "saved", "prompted"} : AskGoes(a, x, ask[a].listed)
      BY <1>4 DEF AskSlack, RecordMember, SavePending, SayPrompt
    <3> HIDE DEF found
    <3> QED
      BY <3>1, <3>2
  <2>3. PICK x \in {"inside", "outside", "answered", "saved", "prompted"}, b \in BOOLEAN : AskGoes(a, x, b)
    BY <2>2
  <2> DEFINE went == [ask[a] EXCEPT !.pc = x, !.listed = b]
  <2>4. went \in AskShape /\ ask' = [ask EXCEPT ![a] = went]
    BY <2>3 DEF AskGoes, AskShape
  <2> HIDE DEF went
  <2> QED
    BY <2>1, <2>4
<1>5. ASSUME NEW c \in Clicks, Invite(c) \/ RecordOptIn(c) \/ ClearPending(c) PROVE HandlersTyped'
  <2>1. UNCHANGED ask /\ \E x \in {"invited", "recorded", "done"} : click' = [click EXCEPT ![c].pc = x]
    BY <1>5 DEF Invite, RecordOptIn, ClearPending
  <2> QED
    BY <2>1 DEF ClickShape
<1>6. CASE DieAndRestart
  <2>1. \A a \in Asks : [ask[a] EXCEPT !.pc = "dropped"] \in AskShape
    BY DEF AskShape
  <2>2. \A c \in Clicks : [click[c] EXCEPT !.pc = "done"] \in ClickShape
    BY DEF ClickShape
  <2> QED
    BY <1>6, <2>1, <2>2 DEF DieAndRestart
<1>7. CASE UNCHANGED consentVars
  BY <1>7 DEF consentVars
<1> QED
  BY <1>1, <1>2, <1>3, <1>4, <1>5, <1>6, <1>7 DEF ConsentNext

LEMMA AllArePeopleStep == HandlersTyped /\ AllArePeople /\ [ConsentNext]_consentVars => AllArePeople'
<1> SUFFICES ASSUME HandlersTyped, AllArePeople, [ConsentNext]_consentVars PROVE AllArePeople'
  OBVIOUS
<1> USE DEF HandlersTyped, AllArePeople, AskShape, ClickShape
<1>1. ASSUME NEW u \in People,
             \/ JoinChannel(u) \/ LeaveChannel(u) \/ HandleJoined(u) \/ HandleLeft(u) \/ OptOut(u)
             \/ HomeFinds(u) \/ HomeRecords(u)
      PROVE  AllArePeople'
  BY <1>1 DEF JoinChannel, LeaveChannel, HandleJoined, HandleLeft, OptOut, HomeFinds, HomeRecords
<1>2. ASSUME NEW u \in People, NEW a \in Asks, HasConsent(a, u) PROVE AllArePeople'
  BY <1>2 DEF HasConsent, Ask
<1>3. ASSUME NEW u \in People, NEW c \in Clicks, NEW p \in Asks, NEW j \in BOOLEAN, PopPending(c, u, p, j)
      PROVE  AllArePeople'
  BY <1>3 DEF PopPending, Click
<1>4. ASSUME NEW a \in Asks, AskSlack(a) \/ RecordMember(a) \/ SavePending(a) \/ SayPrompt(a)
      PROVE  AllArePeople'
  BY <1>4 DEF AskSlack, RecordMember, SavePending, SayPrompt, AskGoes
<1>5. ASSUME NEW c \in Clicks, Invite(c) \/ RecordOptIn(c) \/ ClearPending(c) PROVE AllArePeople'
  BY <1>5 DEF Invite, RecordOptIn, ClearPending
<1>6. CASE DieAndRestart
  BY <1>6 DEF DieAndRestart
<1>7. CASE UNCHANGED consentVars
  BY <1>7 DEF consentVars
<1> QED
  BY <1>1, <1>2, <1>3, <1>4, <1>5, <1>6, <1>7 DEF ConsentNext

(* Steps that take no ground away and handle nobody's leaving: whoever they *)
(* record has a ground or was about to be recorded, and whoever is about to *)
(* be recorded after them is in the channel, unless they were before.       *)
ConsentFrame ==
  /\ muddled \subseteq muddled'
  /\ \A u \in People \ muddled' :
       /\ HasGround(u) => HasGround(u)'
       /\ u \in members => u \in members'
       /\ u \in consents' /\ u \notin consents => HasGround(u)' \/ GrantUnderWay(u)
       /\ <<u, "left">> \in news => <<u, "left">> \in news'
       /\ GrantUnderWay(u)' => GrantUnderWay(u) \/ u \in members'

LEMMA FrameKeepsGrounds == ConsentInv /\ HandlersTyped' /\ AllArePeople' /\ ConsentFrame => ConsentInv'
<1> SUFFICES ASSUME ConsentInv, HandlersTyped', AllArePeople', ConsentFrame,
                    NEW u \in People, u \notin muddled'
             PROVE  LeftInNews(u)' /\ GrantIsFresh(u)'
  BY DEF ConsentInv
<1>1. LeftInNews(u) /\ GrantIsFresh(u)
  BY DEF ConsentInv, ConsentFrame
<1>2. HasGround(u)' \/ u \notin members'
  BY DEF HasGround
<1> QED
  BY <1>1, <1>2 DEF ConsentFrame, LeftInNews, GrantIsFresh, HasGround

LEMMA ConsentStep == ConsentInv /\ [ConsentNext]_consentVars => ConsentInv'
<1> SUFFICES ASSUME ConsentInv, [ConsentNext]_consentVars PROVE ConsentInv'
  OBVIOUS
<1>0. /\ HandlersTyped /\ HandlersTyped' /\ AllArePeople /\ AllArePeople'
      /\ \A u \in People \ muddled : LeftInNews(u) /\ GrantIsFresh(u)
  BY HandlersTypedStep, AllArePeopleStep DEF ConsentInv
<1>a. ASSUME ConsentFrame PROVE ConsentInv'
  BY <1>0, <1>a, FrameKeepsGrounds
<1>1. ASSUME NEW u \in People, JoinChannel(u) \/ HandleJoined(u) \/ HomeFinds(u) \/ HomeRecords(u)
      PROVE  ConsentFrame
  <2>1. /\ muddled' = muddled /\ members \subseteq members' /\ willing \subseteq willing'
        /\ UNCHANGED ask
        /\ \A v : <<v, "left">> \in news => <<v, "left">> \in news'
    BY <1>1 DEF JoinChannel, HandleJoined, HomeFinds, HomeRecords
  <2>2. \A v : v \in consents' /\ v \notin consents => GrantUnderWay(v)
    BY <1>1 DEF JoinChannel, HandleJoined, HomeFinds, HomeRecords, GrantUnderWay
  <2>3. \A v : GrantUnderWay(v)' => GrantUnderWay(v) \/ v \in members'
    BY <1>1, <2>1 DEF JoinChannel, HandleJoined, HomeFinds, HomeRecords, GrantUnderWay, IsFound
  <2> QED
    BY <2>1, <2>2, <2>3 DEF ConsentFrame, HasGround
<1>2. ASSUME NEW u \in People, HandleLeft(u) PROVE ConsentInv'
  <2>1. /\ muddled' = IF GrantUnderWay(u) /\ u \notin members THEN muddled \cup {u} ELSE muddled \ {u}
        /\ consents' = consents \ {u} /\ news' = news \ {<<u, "left">>}
        /\ UNCHANGED <<members, willing, homes, ask>>
    BY <1>2 DEF HandleLeft
  <2>2. \A v : GrantUnderWay(v)' <=> GrantUnderWay(v)
    BY <2>1 DEF GrantUnderWay
  <2>3. \A v : HasGround(v)' <=> HasGround(v)
    BY <2>1 DEF HasGround
  <2>4. ASSUME NEW v \in People \ muddled', v # u PROVE LeftInNews(v)' /\ GrantIsFresh(v)'
    <3>1. LeftInNews(v) /\ GrantIsFresh(v)
      BY <1>0, <2>1, <2>4
    <3>2. <<v, "left">> \in news => <<v, "left">> \in news'
      BY <2>1, <2>4
    <3> QED
      BY <2>1, <2>2, <2>3, <3>1, <3>2 DEF LeftInNews, GrantIsFresh
  <2>5. u \notin muddled' => LeftInNews(u)' /\ GrantIsFresh(u)'
    BY <2>1, <2>2 DEF LeftInNews, GrantIsFresh
  <2> QED
    BY <1>0, <2>4, <2>5 DEF ConsentInv
<1>3. ASSUME NEW u \in People, LeaveChannel(u) \/ OptOut(u) PROVE ConsentInv'
  <2>1. /\ UNCHANGED <<muddled, ask, homes>> /\ consents' \subseteq consents
        /\ \A v : <<v, "joined">> \in news' <=> <<v, "joined">> \in news
        /\ \A v : <<v, "left">> \in news => <<v, "left">> \in news'
        /\ u \in consents' \/ u \in members \ members' => <<u, "left">> \in news'
        /\ \A v \in People \ {u} : (HasGround(v)' <=> HasGround(v)) /\ (v \in members' <=> v \in members)
    BY <1>3 DEF LeaveChannel, OptOut, HasGround
  <2>2. \A v : GrantUnderWay(v)' <=> GrantUnderWay(v)
    <3>1. /\ \A v : <<v, "joined">> \in news' <=> <<v, "joined">> \in news
          /\ ask' = ask /\ homes' = homes
      BY <2>1
    <3> QED
      BY <3>1, Zenon DEF GrantUnderWay
  <2>3. ASSUME NEW v \in People \ muddled' PROVE LeftInNews(v)' /\ GrantIsFresh(v)'
    <3>1. /\ LeftInNews(v) /\ GrantIsFresh(v)
          /\ <<v, "left">> \in news => <<v, "left">> \in news'
      BY <1>0, <2>1
    <3>2. CASE v = u
      BY <2>1, <2>2, <3>1, <3>2 DEF LeftInNews, GrantIsFresh
    <3>3. CASE v # u
      <4>1. /\ HasGround(v)' <=> HasGround(v)
            /\ v \in members' <=> v \in members
            /\ v \in consents' => v \in consents
        BY <2>1, <3>3
      <4> QED
        BY <2>2, <3>1, <4>1 DEF LeftInNews, GrantIsFresh
    <3> QED
      BY <3>2, <3>3
  <2> QED
    BY <1>0, <2>3 DEF ConsentInv
<1>4. ASSUME NEW u \in People, NEW a \in Asks, HasConsent(a, u) PROVE ConsentFrame
  <2>1. \A v : Inside(v)' => Inside(v)
    BY <1>0, <1>4 DEF HasConsent, Inside, Ask, HandlersTyped
  <2> QED
    BY <1>4, <2>1 DEF HasConsent, ConsentFrame, HasGround, Inside, GrantUnderWay
<1>5. ASSUME NEW u \in People, NEW c \in Clicks, NEW p \in Asks, NEW j \in BOOLEAN, PopPending(c, u, p, j)
      PROVE  ConsentFrame
  BY <1>5 DEF PopPending, ConsentFrame, HasGround, GrantUnderWay
<1>6. ASSUME NEW a \in Asks, AskSlack(a) \/ RecordMember(a) \/ SavePending(a) \/ SayPrompt(a)
      PROVE  ConsentFrame
  <2>1. UNCHANGED <<members, news, homes, willing, muddled>>
    BY <1>6 DEF AskSlack, RecordMember, SavePending, SayPrompt, AskGoes
  <2>2. \A v : Inside(v)' => Inside(v) \/ v \in members'
    BY <1>0, <1>6
    DEF AskSlack, RecordMember, SavePending, SayPrompt, AskGoes, Inside, IsFound, HandlersTyped, AskShape
  <2>3. \A v \in consents' \ consents : Inside(v)
    BY <1>0, <1>6 DEF AskSlack, RecordMember, SavePending, SayPrompt, Inside
  <2> QED
    BY <2>1, <2>2, <2>3 DEF ConsentFrame, HasGround, Inside, GrantUnderWay
<1>7. ASSUME NEW c \in Clicks, Invite(c) \/ RecordOptIn(c) \/ ClearPending(c) PROVE ConsentFrame
  <2>1. /\ UNCHANGED <<homes, ask, muddled>> /\ members \subseteq members' /\ willing \subseteq willing'
        /\ \A v : <<v, "left">> \in news => <<v, "left">> \in news'
        /\ \A v : <<v, "joined">> \in news' => <<v, "joined">> \in news \/ v \in members'
        /\ \A v \in consents' \ consents : v \in willing'
    BY <1>7 DEF Invite, RecordOptIn, ClearPending
  <2> QED
    BY <2>1 DEF ConsentFrame, HasGround, GrantUnderWay
<1>8. ASSUME DieAndRestart PROVE ConsentInv'
  <2>1. /\ muddled' = muddled \cup {u \in People \ (members \cup willing) : <<u, "left">> \in news}
        /\ news' = {} /\ homes' = {}
        /\ UNCHANGED <<members, consents, willing>>
    BY <1>8 DEF DieAndRestart
  <2>2. \A a \in Asks : ask'[a].pc # "inside"
    BY <1>0, <1>8 DEF DieAndRestart, HandlersTyped, AskShape
  <2>3. \A u \in People \ muddled' : LeftInNews(u)' /\ GrantIsFresh(u)'
    BY <1>0, <2>1, <2>2 DEF LeftInNews, GrantIsFresh, HasGround, GrantUnderWay
  <2> QED
    BY <1>0, <2>3 DEF ConsentInv
<1>9. ASSUME UNCHANGED consentVars PROVE ConsentFrame
  BY <1>9 DEF consentVars, ConsentFrame, HasGround, GrantUnderWay
<1> QED
  BY <1>a, <1>1, <1>2, <1>3, <1>4, <1>5, <1>6, <1>7, <1>8, <1>9 DEF ConsentNext

LEMMA ConsentStart == ConsentInit => ConsentInv
<1> SUFFICES ASSUME ConsentInit PROVE ConsentInv
  OBVIOUS
<1>1. NoAsk \in AskShape /\ NoAsk.pc = "new"
  BY DEF NoAsk, Ask, AskShape
<1>2. NoClick \in ClickShape /\ NoClick.pc = "idle"
  BY DEF NoClick, Click, ClickShape
<1> QED
  BY <1>1, <1>2
  DEF ConsentInit, ConsentInv, HandlersTyped, AllArePeople, LeftInNews, GrantIsFresh, HasGround, GrantUnderWay

(* Unless the event of their leaving is still to come, the file says a      *)
(* person consents only if they are in the channel or opted in since they   *)
(* last left or opted out, whichever of the four threads wrote last, except *)
(* where one of them recorded what it had seen before the leaving was       *)
(* handled, or the leaving was missed (policy_consent.py).                  *)
THEOREM ConsentIsGrounded == ConsentSpec => []ConsentHasGround
<1>1. ConsentInv => ConsentHasGround
  BY DEF ConsentInv, AllArePeople, ConsentHasGround, LeftInNews, HasGround
<1> QED
  BY ConsentStart, <1>1, ConsentStep, PTL DEF ConsentSpec

----------------------------------------------------------------------------
(* Skill review: only an install stages files, a call waits exactly while   *)
(* its proposal does, and a call with staged files is not over.             *)

SkillCallShape ==
  /\ DOMAIN skillCall = SkillCalls
  /\ \A c \in SkillCalls : DOMAIN skillCall[c] = {"pc", "op", "who", "slug", "to", "md", "folder"}

SkillInv ==
  /\ SkillCallShape
  /\ staged \subseteq SkillCalls /\ proposals \subseteq SkillCalls
  /\ \A c \in SkillCalls : c \in proposals <=> skillCall[c].pc = "waiting"
  /\ \A c \in staged : skillCall[c].op = "install" /\ skillCall[c].pc \notin {"new", "done"}

(* What an operation leaves of the others' calls, and what it does to its   *)
(* own.                                                                     *)
SkillMove(c, p, q) ==
  /\ c \in SkillCalls /\ skillCall[c].pc = p /\ skillCall'[c].pc = q
  /\ skillCall'[c].op = skillCall[c].op
  /\ SkillCallShape'
  /\ \A d \in SkillCalls \ {c} : skillCall'[d] = skillCall[d]

LEMMA CallsGo ==
  ASSUME SkillCallShape, NEW c \in SkillCalls, NEW q,
         skillCall' = [skillCall EXCEPT ![c].pc = q]
  PROVE  SkillMove(c, skillCall[c].pc, q)
<1>1. skillCall'[c] = [skillCall[c] EXCEPT !.pc = q]
  BY DEF SkillCallShape
<1>2. DOMAIN skillCall' = SkillCalls /\ \A d \in SkillCalls \ {c} : skillCall'[d] = skillCall[d]
  BY DEF SkillCallShape
<1>3. /\ DOMAIN skillCall'[c] = DOMAIN skillCall[c]
      /\ skillCall'[c].pc = q /\ skillCall'[c].op = skillCall[c].op
  BY <1>1 DEF SkillCallShape
<1> QED
  BY <1>2, <1>3 DEF SkillMove, SkillCallShape

LEMMA SkillsBegin ==
  ASSUME SkillInv, NEW c \in SkillCalls, NEW o \in SkillOps, NEW w, NEW s, NEW t, NEW md,
         Begin(c, o, w, s, t, md),
         staged' = staged \/ (o = "install" /\ staged' = staged \cup {c})
  PROVE  SkillInv'
<1>1. /\ skillCall[c].pc = "new" /\ UNCHANGED proposals
      /\ \E x \in {"submitting", "applying"} :
           skillCall' = [skillCall EXCEPT ![c] = SkillCall(x, o, w, s, t, md, "own")]
  <2>1. NoSkillCall.pc = "new"
    BY DEF NoSkillCall, SkillCall
  <2> QED
    BY <2>1 DEF Begin
<1>2. /\ skillCall'[c].pc \in {"submitting", "applying"} /\ skillCall'[c].op = o
      /\ DOMAIN skillCall'[c] = {"pc", "op", "who", "slug", "to", "md", "folder"}
      /\ DOMAIN skillCall' = SkillCalls
      /\ \A d \in SkillCalls \ {c} : skillCall'[d] = skillCall[d]
  BY <1>1 DEF SkillInv, SkillCallShape, SkillCall
<1>3. SkillCallShape'
  BY <1>2 DEF SkillInv, SkillCallShape
<1>4. c \notin staged /\ c \notin proposals
  BY <1>1 DEF SkillInv
<1> QED
  BY <1>1, <1>2, <1>3, <1>4 DEF SkillInv

LEMMA SkillsStep == SkillInv /\ [SkillsNext]_skillVars => SkillInv'
<1> SUFFICES ASSUME SkillInv, [SkillsNext]_skillVars PROVE SkillInv'
  OBVIOUS
<1>0. SkillCallShape
  BY DEF SkillInv
<1>1. ASSUME NEW c \in SkillCalls, NEW w \in Requesters, NEW s \in Slugs,
             \/ CreateSkill(c, w, s) \/ InstallSkill(c, w, s) \/ DeleteSkill(c, w, s)
             \/ \E t \in Slugs : RenameSkill(c, w, s, t)
             \/ \E part \in {"description", "body", "both"} : UpdateSkill(c, w, s, part)
      PROVE  SkillInv'
  <2>1. \E o \in SkillOps : \E t, md :
          /\ Begin(c, o, w, {s}, t, md)
          /\ staged' = staged \/ (o = "install" /\ staged' = staged \cup {c})
    BY <1>1 DEF CreateSkill, InstallSkill, DeleteSkill, RenameSkill, UpdateSkill, SkillOps
  <2> QED
    BY <2>1, SkillsBegin
<1>2. ASSUME NEW c \in SkillCalls, Submit(c) PROVE SkillInv'
  <2>1. /\ skillCall[c].pc = "submitting"
        /\ \/ /\ staged' = staged \ {c} /\ UNCHANGED proposals
              /\ skillCall' = [skillCall EXCEPT ![c].pc = "done"]
           \/ /\ proposals' = proposals \cup {c} /\ UNCHANGED staged
              /\ skillCall' = [skillCall EXCEPT ![c].pc = "waiting"]
    BY <1>2 DEF Submit
  <2>3. CASE staged' = staged \ {c} /\ UNCHANGED proposals /\ SkillMove(c, "submitting", "done")
    BY <1>0, <2>3 DEF SkillInv, SkillMove
  <2>4. CASE /\ proposals' = proposals \cup {c} /\ UNCHANGED staged
             /\ SkillMove(c, "submitting", "waiting")
    BY <1>0, <2>4 DEF SkillInv, SkillMove
  <2> QED
    BY <1>0, <2>1, <2>3, <2>4, CallsGo
<1>3. ASSUME NEW c \in SkillCalls, Approve(c) \/ Reject(c) PROVE SkillInv'
  <2>1. /\ c \in proposals /\ proposals' = proposals \ {c} /\ UNCHANGED staged
        /\ \E q \in {"applying", "discarding"} : skillCall' = [skillCall EXCEPT ![c].pc = q]
    BY <1>3 DEF Approve, Reject
  <2>2. \E q \in {"applying", "discarding"} : SkillMove(c, skillCall[c].pc, q)
    BY <1>0, <2>1, CallsGo
  <2> QED
    BY <2>1, <2>2 DEF SkillInv, SkillMove
<1>4. ASSUME NEW c \in SkillCalls, Discard(c) PROVE SkillInv'
  <2>1. /\ skillCall[c].pc = "discarding" /\ staged' = staged \ {c} /\ UNCHANGED proposals
        /\ skillCall' = [skillCall EXCEPT ![c].pc = "done"]
    BY <1>4 DEF Discard
  <2>2. SkillMove(c, "discarding", "done")
    BY <1>0, <2>1, CallsGo
  <2> QED
    BY <2>1, <2>2 DEF SkillInv, SkillMove
<1>5. ASSUME NEW c \in SkillCalls, ResolveSkill(c) PROVE SkillInv'
  <2>1. /\ skillCall[c].pc = "applying" /\ skillCall[c].op # "install"
        /\ UNCHANGED <<staged, proposals>>
        /\ \E q \in {"writing", "done"} : \E f :
             skillCall' = [skillCall EXCEPT ![c].pc = q, ![c].folder = f]
    BY <1>5 DEF ResolveSkill
  <2>2. /\ skillCall'[c].pc \in {"writing", "done"} /\ skillCall'[c].op = skillCall[c].op
        /\ SkillCallShape'
        /\ \A d \in SkillCalls \ {c} : skillCall'[d] = skillCall[d]
    BY <1>0, <2>1 DEF SkillCallShape
  <2> QED
    BY <2>1, <2>2 DEF SkillInv
<1>6. ASSUME NEW c \in SkillCalls, ApplyStep(c), ~ResolveSkill(c) PROVE SkillInv'
  <2>1. /\ UNCHANGED <<staged, proposals>>
        /\ skillCall[c].pc \in {"applying", "writing", "moving"}
        /\ \E q \in {"writing", "moving", "discarding", "done"} :
             /\ skillCall' = [skillCall EXCEPT ![c].pc = q]
             /\ q = "done" => skillCall[c].op # "install"
    BY <1>6
    DEF ApplyStep, MakeFolder, WriteNew, RemoveInstalled, MoveStaged, MoveSkill, WriteUpdate,
        RemoveSkill, Applies, CallGoes
  <2>2. \E q \in {"writing", "moving", "discarding", "done"} :
          SkillMove(c, skillCall[c].pc, q) /\ (q = "done" => skillCall[c].op # "install")
    BY <1>0, <2>1, CallsGo
  <2> QED
    BY <2>1, <2>2 DEF SkillInv, SkillMove
<1>7. CASE SkillsDie
  <2>1. /\ UNCHANGED <<staged, proposals>>
        /\ skillCall' = [c \in SkillCalls |->
             IF skillCall[c].pc \in {"new", "waiting", "done"} THEN skillCall[c]
             ELSE [skillCall[c] EXCEPT !.pc = "cut"]]
    BY <1>7 DEF SkillsDie
  <2>2. \A c \in SkillCalls :
          /\ DOMAIN skillCall'[c] = DOMAIN skillCall[c] /\ skillCall'[c].op = skillCall[c].op
          /\ \/ skillCall'[c].pc = skillCall[c].pc
             \/ skillCall'[c].pc = "cut" /\ skillCall[c].pc # "waiting"
    BY <1>0, <2>1 DEF SkillCallShape
  <2>3. SkillCallShape'
    BY <1>0, <2>1, <2>2 DEF SkillCallShape
  <2> QED
    BY <2>1, <2>2, <2>3 DEF SkillInv
<1>8. CASE UNCHANGED skillVars
  BY <1>8 DEF skillVars, SkillInv, SkillCallShape
<1> QED
  BY <1>1, <1>2, <1>3, <1>4, <1>5, <1>6, <1>7, <1>8 DEF SkillsNext

LEMMA SkillsStart == SkillsInit => SkillInv
BY DEF SkillsInit, SkillInv, SkillCallShape, NoSkillCall, SkillCall

(* Staged files are kept for a proposal that waits or a call that is still  *)
(* running or was cut off by a death, and for nothing else                  *)
(* (skill_review.py, agent.py's apply_skill_change).                        *)
THEOREM StagedFilesAreForSomething == SkillsSpec => []StagedIsPending
<1>1. SkillInv => StagedIsPending
  BY DEF SkillInv, StagedIsPending
<1> QED
  BY SkillsStart, <1>1, SkillsStep, PTL DEF SkillsSpec

----------------------------------------------------------------------------
(* Sandbox access: one code_mode run of the thread is active; the one that  *)
(* runs is what its token is registered for, and of the others only those   *)
(* whose files could not be written are registered; and a request on its    *)
(* way in carries the token and sandbox of a run that has not ended.        *)

CodeRunShape == [pc : {"idle", "entered", "issuing", "ready", "registered", "running", "done", "unwritten"},
                 box : Boxes \cup {Unset}, token : Tokens \cup {Unset}]
RequestShape == [pc : {"idle", "asked", "admitted", "denied", "relayed", "relayedbare", "running", "answered", "failed"},
                 kind : RequestKinds, run : CodeRuns \cup {Unset}, token : Tokens \cup {Unset},
                 box : Boxes \cup {Unset}, deps : CodeRuns \cup {Unset}]

AccessTyped ==
  /\ codeRun \in [CodeRuns -> CodeRunShape]
  /\ request \in [Requests -> RequestShape]
  /\ registered \in [Tokens -> SUBSET (Boxes \X CodeRuns)]
  /\ proxyCache \in [Boxes -> Tokens \cup {Unset}]
  /\ box \in Boxes

(* A run that is ready has its sandbox and a token. *)
RunsAreEquipped ==
  \A r \in CodeRuns :
    /\ codeRun[r].pc \in {"entered", "issuing", "ready", "registered", "running"} => codeRun[r].box \in Boxes
    /\ codeRun[r].pc \in {"issuing", "ready", "registered", "running"} => codeRun[r].token \in Tokens

Active(r) == codeRun[r].pc \notin {"idle", "done", "unwritten"}

OneActiveRun == \A r, s \in CodeRuns : Active(r) /\ Active(s) => r = s

RegisteredRuns ==
  \A t \in Tokens, b \in Boxes, r \in CodeRuns :
    <<b, r>> \in registered[t] => codeRun[r].pc \in {"registered", "running", "unwritten"} /\ codeRun[r].box = b

RunningIsRegistered ==
  \A r \in CodeRuns : codeRun[r].pc \in {"registered", "running"} =>
    registered[codeRun[r].token] = {<<codeRun[r].box, r>>}

RequestIsOwn(q) ==
  /\ request[q].pc \in {"asked", "admitted"} =>
       /\ request[q].run \in CodeRuns /\ codeRun[request[q].run].pc = "running"
       /\ request[q].token = codeRun[request[q].run].token
       /\ request[q].box = codeRun[request[q].run].box
  /\ request[q].pc \in {"running", "answered"} => request[q].deps = request[q].run

RequestsAreOwn == \A q \in Requests : RequestIsOwn(q)

AccessInv ==
  AccessTyped /\ RunsAreEquipped /\ OneActiveRun /\ RegisteredRuns /\ RunningIsRegistered /\ RequestsAreOwn

(* Steps of the proxy's own, and of the thread's sandbox. *)
AccessFrame ==
  /\ UNCHANGED <<codeRun, registered>>
  /\ proxyCache' \in [Boxes -> Tokens \cup {Unset}] /\ box' \in Boxes
  /\ \A q \in Requests : request'[q] = request[q] \/ request'[q].pc \in {"failed", "denied", "relayed", "relayedbare"}
  /\ request' \in [Requests -> RequestShape]

LEMMA FrameKeepsAccess == AccessInv /\ AccessFrame => AccessInv'
<1> SUFFICES ASSUME AccessInv, AccessFrame PROVE AccessInv'
  OBVIOUS
<1>1. AccessTyped'
  BY DEF AccessInv, AccessFrame, AccessTyped
<1>2. RunsAreEquipped' /\ OneActiveRun' /\ RegisteredRuns' /\ RunningIsRegistered'
  BY DEF AccessInv, AccessFrame, RunsAreEquipped, OneActiveRun, RegisteredRuns, RunningIsRegistered, Active
<1>3. RequestsAreOwn'
  BY DEF AccessInv, AccessFrame, RequestsAreOwn, RequestIsOwn
<1> QED
  BY <1>1, <1>2, <1>3 DEF AccessInv

(* A run goes on: it enters, gets its token, or ends unregistered.          *)
LEMMA RunsKeepAccess ==
  ASSUME AccessInv, NEW r \in CodeRuns,
         \/ Enter(r) \/ ReuseToken(r)
         \/ \E a \in AdminThreads : TokenIssued(r, a) \/ \E t \in Tokens : IssueToken(r, a, t)
  PROVE  AccessInv'
<1>0. AccessTyped /\ RunsAreEquipped /\ OneActiveRun /\ RegisteredRuns /\ RunningIsRegistered /\ RequestsAreOwn
  BY DEF AccessInv
<1>1. /\ UNCHANGED <<request, registered, box>>
      /\ \A s \in CodeRuns \ {r} : codeRun'[s] = codeRun[s]
      /\ codeRun[r].pc \notin {"registered", "running", "unwritten"}
      /\ codeRun'[r].pc \notin {"registered", "running", "unwritten"}
      /\ Active(r) \/ CodeLockFree
  <2>1. /\ UNCHANGED <<request, registered, box>>
        /\ (codeRun[r].pc = "idle" /\ CodeLockFree) \/ codeRun[r].pc \in {"entered", "issuing"}
    BY DEF Enter, ReuseToken, IssueToken, TokenIssued, CodeRun, NoCodeRun
  <2>2. /\ \A s \in CodeRuns \ {r} : codeRun'[s] = codeRun[s]
        /\ codeRun'[r].pc \notin {"registered", "running", "unwritten"}
    BY <1>0 DEF Enter, ReuseToken, IssueToken, TokenIssued, CodeRun, AccessTyped, CodeRunShape
  <2> QED
    BY <2>1, <2>2 DEF Active
<1>2. /\ codeRun' \in [CodeRuns -> CodeRunShape]
      /\ codeRun'[r].pc \in {"entered", "issuing", "ready", "registered", "running"} => codeRun'[r].box \in Boxes
      /\ codeRun'[r].pc \in {"issuing", "ready", "registered", "running"} => codeRun'[r].token \in Tokens
  <2>1. CASE Enter(r)
    <3>1. CodeRun("entered", box, Unset) \in CodeRunShape /\ CodeRun("entered", box, Unset).pc = "entered"
          /\ CodeRun("entered", box, Unset).box \in Boxes
      BY <1>0 DEF CodeRun, CodeRunShape, AccessTyped
    <3> QED
      BY <1>0, <2>1, <3>1 DEF Enter, AccessTyped
  <2>2. CASE ReuseToken(r)
    <3>1. codeRun[r].pc = "entered" /\ codeRun[r].box \in Boxes /\ proxyCache[codeRun[r].box] \in Tokens
      BY <1>0, <2>2 DEF ReuseToken, AccessTyped, RunsAreEquipped
    <3> QED
      BY <1>0, <2>2, <3>1 DEF ReuseToken, AccessTyped, CodeRunShape
  <2>3. ASSUME NEW a \in AdminThreads, NEW t \in Tokens, IssueToken(r, a, t)
        PROVE  /\ codeRun' \in [CodeRuns -> CodeRunShape]
               /\ codeRun'[r].pc \in {"entered", "issuing", "ready", "registered", "running"} => codeRun'[r].box \in Boxes
               /\ codeRun'[r].pc \in {"issuing", "ready", "registered", "running"} => codeRun'[r].token \in Tokens
    <3>1. codeRun[r].pc = "entered" /\ codeRun[r].box \in Boxes
      BY <1>0, <2>3 DEF IssueToken, RunsAreEquipped
    <3>2. codeRun' = [codeRun EXCEPT ![r].pc = "issuing", ![r].token = t]
      BY <2>3 DEF IssueToken
    <3> QED
      BY <1>0, <3>1, <3>2 DEF AccessTyped, CodeRunShape
  <2>4. ASSUME NEW a \in AdminThreads, TokenIssued(r, a)
        PROVE  /\ codeRun' \in [CodeRuns -> CodeRunShape]
               /\ codeRun'[r].pc \in {"entered", "issuing", "ready", "registered", "running"} => codeRun'[r].box \in Boxes
               /\ codeRun'[r].pc \in {"issuing", "ready", "registered", "running"} => codeRun'[r].token \in Tokens
    <3>1. /\ codeRun[r].box \in Boxes /\ codeRun[r].token \in Tokens
          /\ \E x \in {"ready", "done"} : codeRun' = [codeRun EXCEPT ![r].pc = x]
      BY <1>0, <2>4 DEF TokenIssued, RunsAreEquipped
    <3> QED
      BY <1>0, <3>1 DEF AccessTyped, CodeRunShape
  <2> QED
    BY <2>1, <2>2, <2>3, <2>4
<1>3. proxyCache' \in [Boxes -> Tokens \cup {Unset}]
  <2>1. codeRun[r].pc = "issuing" => codeRun[r].token \in Tokens
    BY <1>0 DEF RunsAreEquipped
  <2> QED
    BY <1>0, <2>1 DEF Enter, ReuseToken, IssueToken, TokenIssued, AccessTyped
<1>4. AccessTyped' /\ RunsAreEquipped'
  BY <1>0, <1>1, <1>2, <1>3 DEF AccessTyped, RunsAreEquipped
<1>5. OneActiveRun'
  BY <1>0, <1>1 DEF OneActiveRun, Active, CodeLockFree
<1>6. RegisteredRuns' /\ RunningIsRegistered' /\ RequestsAreOwn'
  BY <1>0, <1>1 DEF RegisteredRuns, RunningIsRegistered, RequestsAreOwn, RequestIsOwn
<1> QED
  BY <1>4, <1>5, <1>6 DEF AccessInv

LEMMA RegistrationsKeepAccess ==
  ASSUME AccessInv, NEW r \in CodeRuns, RegisterRun(r) \/ WriteScript(r) \/ UnregisterRun(r)
  PROVE  AccessInv'
<1>0. AccessTyped /\ RunsAreEquipped /\ OneActiveRun /\ RegisteredRuns /\ RunningIsRegistered /\ RequestsAreOwn
  BY DEF AccessInv
<1>1. /\ UNCHANGED <<request, proxyCache, box>>
      /\ codeRun[r].pc \in {"ready", "registered", "running"} /\ codeRun[r].box \in Boxes /\ codeRun[r].token \in Tokens
      /\ \E x \in {"registered", "running", "done", "unwritten"} : codeRun' = [codeRun EXCEPT ![r].pc = x]
  BY <1>0 DEF RegisterRun, WriteScript, UnregisterRun, RunsAreEquipped
<1>2. /\ codeRun' \in [CodeRuns -> CodeRunShape]
      /\ codeRun'[r].pc \in {"registered", "running", "done", "unwritten"}
      /\ codeRun'[r].box = codeRun[r].box /\ codeRun'[r].token = codeRun[r].token
      /\ \A s \in CodeRuns \ {r} : codeRun'[s] = codeRun[s] /\ ~Active(s)
  <2>1. \A s \in CodeRuns \ {r} : ~Active(s)
    BY <1>0, <1>1 DEF OneActiveRun, Active
  <2>2. PICK x \in {"registered", "running", "done", "unwritten"} : codeRun' = [codeRun EXCEPT ![r].pc = x]
    BY <1>1
  <2> DEFINE went == [codeRun[r] EXCEPT !.pc = x]
  <2>3. /\ went \in CodeRunShape /\ codeRun' = [codeRun EXCEPT ![r] = went] /\ went.pc = x
        /\ went.box = codeRun[r].box /\ went.token = codeRun[r].token
    BY <1>0, <2>2 DEF AccessTyped, CodeRunShape
  <2> HIDE DEF went
  <2> QED
    BY <1>0, <2>1, <2>3 DEF AccessTyped
<1>3. RunsAreEquipped' /\ OneActiveRun'
  BY <1>0, <1>1, <1>2 DEF RunsAreEquipped, OneActiveRun, Active
<1>4. CASE RegisterRun(r)
  <2>1. /\ codeRun[r].pc = "ready" /\ codeRun'[r].pc = "registered"
        /\ registered' = [registered EXCEPT ![codeRun[r].token] = {<<codeRun[r].box, r>>}]
    BY <1>0, <1>4 DEF RegisterRun, AccessTyped
  <2>2. registered' \in [Tokens -> SUBSET (Boxes \X CodeRuns)]
    BY <1>0, <1>1, <2>1 DEF AccessTyped
  <2>3. RegisteredRuns' /\ RunningIsRegistered'
    BY <1>0, <1>1, <1>2, <2>1 DEF RegisteredRuns, RunningIsRegistered, AccessTyped, Active
  <2>4. RequestsAreOwn'
    BY <1>0, <1>1, <1>2, <2>1 DEF RequestsAreOwn, RequestIsOwn
  <2> QED
    BY <1>0, <1>1, <1>2, <1>3, <2>2, <2>3, <2>4 DEF AccessInv, AccessTyped
<1>5. CASE WriteScript(r)
  <2>1. /\ codeRun[r].pc = "registered" /\ codeRun'[r].pc \in {"running", "unwritten"}
        /\ UNCHANGED registered
    BY <1>0, <1>5 DEF WriteScript, AccessTyped
  <2>2. RegisteredRuns' /\ RunningIsRegistered'
    BY <1>0, <1>2, <2>1 DEF RegisteredRuns, RunningIsRegistered
  <2>3. RequestsAreOwn'
    BY <1>0, <1>1, <1>2, <2>1 DEF RequestsAreOwn, RequestIsOwn
  <2> QED
    BY <1>0, <1>1, <1>2, <1>3, <2>1, <2>2, <2>3 DEF AccessInv, AccessTyped
<1>6. CASE UnregisterRun(r)
  <2>1. /\ codeRun[r].pc = "running" /\ codeRun'[r].pc = "done" /\ ScriptIsOver(r)
        /\ registered' = [t \in Tokens |-> {e \in registered[t] : e[1] # codeRun[r].box}]
    BY <1>0, <1>6 DEF UnregisterRun, AccessTyped
  <2>2. registered' \in [Tokens -> SUBSET (Boxes \X CodeRuns)]
    BY <1>0, <2>1 DEF AccessTyped
  <2>3. RegisteredRuns' /\ RunningIsRegistered'
    BY <1>0, <1>2, <2>1 DEF RegisteredRuns, RunningIsRegistered, Active
  <2>4. RequestsAreOwn'
    BY <1>0, <1>1, <1>2, <2>1 DEF RequestsAreOwn, RequestIsOwn, ScriptIsOver
  <2> QED
    BY <1>0, <1>1, <1>2, <1>3, <2>2, <2>3, <2>4 DEF AccessInv, AccessTyped
<1> QED
  BY <1>4, <1>5, <1>6

LEMMA RequestsKeepAccess ==
  ASSUME AccessInv, NEW q \in Requests,
         \/ Admit(q) \/ Relay(q) \/ LookUp(q) \/ ToolAnswers(q)
         \/ \E r \in CodeRuns, k \in RequestKinds : SendRequest(q, r, k)
  PROVE  AccessInv'
<1>0. AccessTyped /\ RunsAreEquipped /\ OneActiveRun /\ RegisteredRuns /\ RunningIsRegistered /\ RequestsAreOwn
  BY DEF AccessInv
<1>1. UNCHANGED <<codeRun, registered, proxyCache, box>>
  BY DEF Admit, Relay, LookUp, ToolAnswers, RequestGoes, SendRequest
<1> DEFINE Goal == /\ request' \in [Requests -> RequestShape] /\ RequestIsOwn(q)'
                   /\ \A p \in Requests \ {q} : request'[p] = request[p]
<1>2. ASSUME Admit(q) \/ Relay(q) \/ ToolAnswers(q) PROVE Goal
  <2>1. \E x \in {"admitted", "denied", "relayed", "relayedbare", "answered"} :
          /\ request' = [request EXCEPT ![q].pc = x]
          /\ x = "admitted" => request[q].pc = "asked"
          /\ x = "answered" => request[q].pc = "running"
    BY <1>2 DEF Admit, Relay, ToolAnswers, RequestGoes
  <2>2. RequestIsOwn(q)
    BY <1>0 DEF RequestsAreOwn
  <2> QED
    BY <1>0, <1>1, <2>1, <2>2 DEF RequestIsOwn, AccessTyped, RequestShape
<1>3. ASSUME LookUp(q) PROVE Goal
  <2> DEFINE found == {e \in registered[request[q].token] : e[1] = request[q].box}
  <2>1. /\ request[q].run \in CodeRuns /\ codeRun[request[q].run].pc = "running"
        /\ request[q].token = codeRun[request[q].run].token
    BY <1>0, <1>3 DEF LookUp, RequestsAreOwn, RequestIsOwn
  <2>2. \A e \in found : e[2] = request[q].run
    BY <1>0, <2>1 DEF RunningIsRegistered
  <2>3. found # {} => (CHOOSE e \in found : TRUE) \in found
    OBVIOUS
  <2>4. \/ request' = [request EXCEPT ![q].pc = "denied"]
        \/ request' = [request EXCEPT ![q].pc = "running", ![q].deps = request[q].run]
    BY <1>3, <2>2, <2>3 DEF LookUp, RequestGoes
  <2> HIDE DEF found
  <2> QED
    BY <1>0, <1>1, <2>1, <2>4 DEF RequestIsOwn, AccessTyped, RequestShape
<1>4. ASSUME NEW r \in CodeRuns, NEW k \in RequestKinds, SendRequest(q, r, k) PROVE Goal
  <2>1. codeRun[r].pc = "running" /\ codeRun[r].box \in Boxes /\ codeRun[r].token \in Tokens
    BY <1>0, <1>4 DEF SendRequest, RunsAreEquipped
  <2>2. Request("asked", k, r, codeRun[r].token, codeRun[r].box, Unset) \in RequestShape
    BY <2>1 DEF Request, RequestShape
  <2> QED
    BY <1>0, <1>1, <1>4, <2>1, <2>2 DEF SendRequest, Request, RequestIsOwn, AccessTyped
<1>5. Goal
  BY <1>2, <1>3, <1>4
<1>6. RequestsAreOwn'
  BY <1>0, <1>1, <1>5 DEF RequestsAreOwn, RequestIsOwn
<1>7. AccessTyped' /\ RunsAreEquipped' /\ OneActiveRun' /\ RegisteredRuns' /\ RunningIsRegistered'
  BY <1>0, <1>1, <1>5 DEF AccessTyped, RunsAreEquipped, OneActiveRun, RegisteredRuns, RunningIsRegistered, Active
<1> QED
  BY <1>6, <1>7 DEF AccessInv

LEMMA AccessStep == AccessInv /\ [AccessNext]_accessVars => AccessInv'
<1> SUFFICES ASSUME AccessInv, [AccessNext]_accessVars PROVE AccessInv'
  OBVIOUS
<1>0. AccessTyped
  BY DEF AccessInv
<1>1. ASSUME NEW a \in AdminThreads, ChangeAllowlist(a) \/ SnapshotTokens(a) \/ WriteTokens(a) \/ Revoked(a)
      PROVE  AccessFrame
  BY <1>0, <1>1 DEF ChangeAllowlist, SnapshotTokens, WriteTokens, Revoked, AccessFrame, AccessTyped
<1>2. ASSUME ProxyRestarts PROVE AccessFrame
  <2>1. \A q \in Requests : [request[q] EXCEPT !.pc = "failed"] \in RequestShape
    BY <1>0 DEF AccessTyped, RequestShape
  <2>2. \A q \in Requests : [request[q] EXCEPT !.pc = "failed"].pc = "failed"
    BY <1>0 DEF AccessTyped, RequestShape
  <2> QED
    BY <1>0, <1>2, <2>1, <2>2 DEF ProxyRestarts, AccessFrame, AccessTyped
<1>3. ASSUME NEW t \in Tokens, TokenAges(t) PROVE AccessFrame
  BY <1>0, <1>3 DEF TokenAges, AccessFrame, AccessTyped
<1>4. ASSUME NEW b \in Boxes, NEW a \in AdminThreads, RecycleBox(b, a) PROVE AccessFrame
  BY <1>0, <1>4 DEF RecycleBox, AccessFrame, AccessTyped
<1>5. ASSUME NEW r \in CodeRuns,
             \/ Enter(r) \/ ReuseToken(r)
             \/ \E a \in AdminThreads : TokenIssued(r, a) \/ \E t \in Tokens : IssueToken(r, a, t)
      PROVE  AccessInv'
  BY <1>5, RunsKeepAccess
<1>6. ASSUME NEW r \in CodeRuns, RegisterRun(r) \/ WriteScript(r) \/ UnregisterRun(r) PROVE AccessInv'
  BY <1>6, RegistrationsKeepAccess
<1>7. ASSUME NEW q \in Requests,
             \/ Admit(q) \/ Relay(q) \/ LookUp(q) \/ ToolAnswers(q)
             \/ \E r \in CodeRuns, k \in RequestKinds : SendRequest(q, r, k)
      PROVE  AccessInv'
  BY <1>7, RequestsKeepAccess
<1>8. ASSUME UNCHANGED accessVars PROVE AccessFrame
  BY <1>0, <1>8 DEF accessVars, AccessFrame, AccessTyped
<1> QED
  BY <1>1, <1>2, <1>3, <1>4, <1>5, <1>6, <1>7, <1>8, FrameKeepsAccess DEF AccessNext

LEMMA AccessStart == AccessInit => AccessInv
<1> SUFFICES ASSUME AccessInit PROVE AccessInv
  OBVIOUS
<1>1. NoCodeRun \in CodeRunShape /\ NoCodeRun.pc = "idle"
  BY DEF NoCodeRun, CodeRun, CodeRunShape
<1>2. NoRequest \in RequestShape /\ NoRequest.pc = "idle"
  BY DEF NoRequest, Request, RequestShape, RequestKinds
<1> QED
  BY <1>1, <1>2
  DEF AccessInit, AccessInv, AccessTyped, RunsAreEquipped, OneActiveRun, Active, RegisteredRuns, RunningIsRegistered,
      RequestsAreOwn, RequestIsOwn

(* A tool called by a script runs with the deps of the very run that        *)
(* started the script, and a run that is over stays registered only where   *)
(* its files could not be written (tool_proxy.py's registrations,           *)
(* code_mode's lock).                                                       *)
THEOREM ScriptsRunAsTheirRun == AccessSpec => []CodeRunsAsItself
<1>1. AccessInv => CodeRunsAsItself
  BY DEF AccessInv, RequestsAreOwn, RequestIsOwn, RegisteredRuns, CodeRunsAsItself
<1> QED
  BY AccessStart, <1>1, AccessStep, PTL DEF AccessSpec

----------------------------------------------------------------------------
(* Mentions: of the listeners that got a message at most one answers it,    *)
(* and the claim stands until the last of them has had it.                  *)

AnswersNow(m, l) == Heard(m, l) \in {"claimed", "found"}
IsMention(m) == post[m].thread # Dm /\ post[m].text \in {"mention", "codebot"}
Served(m) == taken[m] = 1 \/ \E l \in Listeners : AnswersNow(m, l)

(* Who hears what: a text that is no mention reaches one listener, and a    *)
(* mention that coolton's message listener gets its mention listener gets.  *)
HeardRight(m) ==
  /\ post[m].text = "none" =>
       (\A l \in Listeners : Heard(m, l) = "none") /\ taken[m] = 0 /\ m \notin claimed
  /\ ~IsMention(m) =>
       /\ Heard(m, "mention") = "none"
       /\ Heard(m, "message") = "none" \/ Heard(m, "app") = "none"
       /\ Heard(m, "message") \in {"none", "sent", "done"}
  /\ post[m].text = "mention" /\ IsMention(m) /\ Heard(m, "message") # "none" => Heard(m, "mention") # "none"

AnsweredRight(m) ==
  /\ taken[m] <= 1
  /\ \A l \in Listeners : AnswersNow(m, l) => taken[m] = 0
  /\ \A k, l \in Listeners : AnswersNow(m, k) /\ AnswersNow(m, l) => k = l
  /\ ~IsMention(m) /\ Heard(m, "message") = "sent" => taken[m] = 0
  /\ m \notin claimed /\ (\E l \in Listeners : Heard(m, l) \notin {"none", "done"}) => ~Served(m)
  /\ m \in claimed => Served(m)
  /\ \A l \in Listeners :
       IsMention(m) /\ Heard(m, l) = "done" /\ ~(l = "message" /\ post[m].text = "mention") => Served(m)

MessageInv(m) == HeardRight(m) /\ (m \notin unclaimed => AnsweredRight(m))

MentionTypes ==
  /\ post \in [Posts -> [thread : Threads, text : Texts \cup {"none"}]]
  /\ hearing \in [Posts \X Listeners ->
       [pc : {"none", "sent", "added", "mentioned", "claimed", "found", "done"}, level : BOOLEAN]]
  /\ taken \in [Posts -> Nat]

MentionsInv == MentionTypes /\ \A m \in Posts : MessageInv(m)

(* A listener goes on without answering, dropping or taking the message.    *)
ListensOn(m, l) ==
  \/ Heard(m, l)' = Heard(m, l)
  \/ /\ Heard(m, l) \in {"sent", "added"} /\ Heard(m, l)' \in {"added", "mentioned"}
     /\ l = "message" => IsMention(m)
  \/ Heard(m, l) = "claimed" /\ Heard(m, l)' = "found"

MessageFrame(m) ==
  /\ \A l \in Listeners : ListensOn(m, l)
  /\ post'[m] = post[m] /\ taken'[m] = taken[m] /\ (m \in claimed' <=> m \in claimed)
  /\ m \in unclaimed => m \in unclaimed'

LEMMA MessageFrameKeeps == \A m \in Posts : MessageInv(m) /\ MessageFrame(m) => MessageInv(m)'
<1> SUFFICES ASSUME NEW m \in Posts, MessageInv(m), MessageFrame(m) PROVE MessageInv(m)'
  OBVIOUS
<1>1. IsMention(m)' <=> IsMention(m)
  BY DEF MessageFrame, IsMention
<1>2. \A l \in Listeners :
        /\ AnswersNow(m, l)' <=> AnswersNow(m, l)
        /\ Heard(m, l)' = "none" <=> Heard(m, l) = "none"
        /\ Heard(m, l)' = "done" <=> Heard(m, l) = "done"
        /\ Heard(m, l)' = "sent" => Heard(m, l) = "sent"
  BY DEF MessageFrame, ListensOn, AnswersNow
<1>3. Served(m)' <=> Served(m)
  BY <1>2 DEF MessageFrame, Served, AnswersNow
<1>4. ~IsMention(m) => Heard(m, "message")' \in {"none", "sent", "done"}
  BY DEF MessageInv, HeardRight, MessageFrame, ListensOn, Listeners
<1>5. HeardRight(m)'
  BY <1>1, <1>2, <1>4 DEF MessageInv, HeardRight, MessageFrame, Listeners
<1>6. AnsweredRight(m) => AnsweredRight(m)'
  BY <1>1, <1>2, <1>3 DEF AnsweredRight, MessageFrame, Listeners
<1> QED
  BY <1>5, <1>6 DEF MessageInv, MessageFrame

(* What the listeners of a message do changes its own handling only. *)
LEMMA HearingMoves ==
  ASSUME MentionTypes, NEW m \in Posts, NEW l \in Listeners,
         NEW x \in {"none", "sent", "added", "mentioned", "claimed", "found", "done"},
         HearingGoes(m, l, x)
  PROVE  /\ hearing' \in [Posts \X Listeners ->
              [pc : {"none", "sent", "added", "mentioned", "claimed", "found", "done"}, level : BOOLEAN]]
         /\ Heard(m, l)' = x
         /\ \A n \in Posts, k \in Listeners : <<n, k>> # <<m, l>> => Heard(n, k)' = Heard(n, k)
BY DEF HearingGoes, Heard, MentionTypes

(* Slack delivers a message to the listeners that get it. *)
LEMMA DeliveryKeeps ==
  ASSUME MentionsInv, NEW m \in Posts, NEW t \in Threads, NEW x \in Texts, NEW ls \in SUBSET Listeners,
         Delivered(m, t, x, ls), UNCHANGED <<claimed, taken, unclaimed>>,
         ~(t # Dm /\ x \in {"mention", "codebot"}) => ls \subseteq {"message"} \/ ls \subseteq {"app"},
         t # Dm /\ x = "mention" /\ "message" \in ls => "mention" \in ls
  PROVE  MentionsInv'
<1>0. MentionTypes /\ (\A n \in Posts : MessageInv(n)) /\ "none" \notin Texts
  BY DEF MentionsInv, Texts
<1>1. /\ post[m].text = "none" /\ post' = [post EXCEPT ![m] = Post(t, x)]
      /\ hearing' = [h \in Posts \X Listeners |->
           IF h[1] = m /\ h[2] \in ls THEN Hearing("sent", FALSE) ELSE hearing[h]]
  BY DEF Delivered, NoPost, Post
<1>2. Post(t, x) \in [thread : Threads, text : Texts \cup {"none"}] /\ Post(t, x).thread = t /\ Post(t, x).text = x
  BY DEF Post
<1>3. MentionTypes'
  BY <1>0, <1>1, <1>2 DEF MentionTypes, Hearing
<1>4. /\ \A l \in Listeners : Heard(m, l)' = IF l \in ls THEN "sent" ELSE "none"
      /\ \A n \in Posts \ {m}, l \in Listeners : Heard(n, l)' = Heard(n, l)
  BY <1>0, <1>1 DEF Heard, Hearing, MessageInv, HeardRight
<1>5. \A n \in Posts \ {m} : MessageInv(n)'
  BY <1>0, <1>1, <1>2, <1>4, MessageFrameKeeps DEF MessageFrame, ListensOn, MentionTypes
<1>6. /\ taken[m] = 0 /\ m \notin claimed /\ UNCHANGED <<claimed, taken, unclaimed>>
      /\ post'[m].thread = t /\ post'[m].text = x /\ x # "none"
      /\ IsMention(m)' <=> (t # Dm /\ x \in {"mention", "codebot"})
  BY <1>0, <1>1, <1>2 DEF MessageInv, HeardRight, MentionTypes, IsMention
<1>7. HeardRight(m)'
  BY <1>4, <1>6 DEF HeardRight, Listeners
<1>8. AnsweredRight(m)'
  BY <1>4, <1>6 DEF AnsweredRight, Served, AnswersNow, Listeners
<1> QED
  BY <1>3, <1>5, <1>7, <1>8 DEF MentionsInv, MessageInv

(* A listener's step is a frame for the other messages. *)
LEMMA OthersKeep ==
  ASSUME MentionsInv, NEW m \in Posts, NEW l \in Listeners,
         NEW x \in {"none", "sent", "added", "mentioned", "claimed", "found", "done"},
         HearingGoes(m, l, x),
         UNCHANGED <<post, unclaimed>>,
         \A n \in Posts \ {m} : taken'[n] = taken[n] /\ (n \in claimed' <=> n \in claimed)
  PROVE  \A n \in Posts \ {m} : MessageInv(n)'
<1>1. \A n \in Posts \ {m}, k \in Listeners : Heard(n, k)' = Heard(n, k)
  BY HearingMoves DEF MentionsInv
<1>2. \A n \in Posts \ {m} : MessageFrame(n)
  BY <1>1 DEF MessageFrame, ListensOn
<1> QED
  BY <1>2, MessageFrameKeeps DEF MentionsInv

LEMMA QuietStepsKeep ==
  ASSUME MentionsInv, NEW m \in Posts, NEW l \in Listeners, NEW x \in {"added", "mentioned"},
         HearingGoes(m, l, x), Heard(m, l) \in {"sent", "added"}, l = "message" => IsMention(m),
         UNCHANGED <<post, claimed, taken, unclaimed>>
  PROVE  MentionsInv'
<1>0. MentionTypes /\ \A n \in Posts : MessageInv(n)
  BY DEF MentionsInv
<1>1. MentionTypes' /\ Heard(m, l)' = x /\ \A k \in Listeners : <<m, k>> # <<m, l>> => Heard(m, k)' = Heard(m, k)
  BY <1>0, HearingMoves DEF MentionTypes
<1>2. MessageFrame(m)
  BY <1>1 DEF MessageFrame, ListensOn
<1>3. \A n \in Posts \ {m} : MessageInv(n)'
  BY OthersKeep
<1> QED
  BY <1>0, <1>1, <1>2, <1>3, MessageFrameKeeps DEF MentionsInv

LEMMA ClaimKeeps ==
  ASSUME MentionsInv, NEW m \in Posts, NEW l \in Listeners, ClaimMention(m, l)
  PROVE  MentionsInv'
<1>0. MentionTypes /\ (\A n \in Posts : MessageInv(n)) /\ MessageInv(m)
  BY DEF MentionsInv
<1> DEFINE x == IF m \in claimed THEN "done" ELSE "claimed"
<1>1. /\ Heard(m, l) = "mentioned" /\ claimed' = claimed \cup {m} /\ HearingGoes(m, l, x)
      /\ UNCHANGED <<post, taken, unclaimed>>
  BY DEF ClaimMention
<1>2. x \in {"done", "claimed"} /\ (x = "done" <=> m \in claimed)
  OBVIOUS
<1> HIDE DEF x
<1>3. /\ MentionTypes' /\ Heard(m, l)' = x
      /\ \A k \in Listeners \ {l} : Heard(m, k)' = Heard(m, k)
  BY <1>0, <1>1, <1>2, HearingMoves DEF MentionTypes
<1>4. \A n \in Posts \ {m} : MessageInv(n)'
  BY <1>1, <1>2, OthersKeep
<1>5. IsMention(m)' <=> IsMention(m)
  BY <1>1 DEF IsMention
<1>6. HeardRight(m)'
  BY <1>0, <1>1, <1>2, <1>3, <1>5 DEF MessageInv, HeardRight, Listeners
<1>7. m \notin unclaimed => AnsweredRight(m)'
  <2> SUFFICES ASSUME m \notin unclaimed PROVE AnsweredRight(m)'
    OBVIOUS
  <2>1. AnsweredRight(m)
    BY <1>0 DEF MessageInv
  <2>2. CASE m \in claimed
    <3>1. \A k \in Listeners : AnswersNow(m, k)' <=> AnswersNow(m, k)
      BY <1>1, <1>2, <1>3, <2>2 DEF AnswersNow
    <3>2. Served(m) /\ Served(m)'
      BY <1>1, <2>1, <2>2, <3>1 DEF AnsweredRight, Served, AnswersNow
    <3>3. m \in claimed' /\ taken' = taken /\ x = "done"
      BY <1>1, <1>2, <2>2
    <3>4. ~IsMention(m)' => (Heard(m, "message")' = "sent" => Heard(m, "message") = "sent")
      BY <1>3, <3>3 DEF Listeners
    <3> QED
      BY <1>5, <2>1, <3>1, <3>2, <3>3, <3>4 DEF AnsweredRight
  <2>3. CASE m \notin claimed
    <3>0. \E k \in Listeners : Heard(m, k) \notin {"none", "done"}
      BY <1>1
    <3>a. taken[m] \in Nat
      BY <1>0 DEF MentionTypes
    <3>b. ~Served(m) /\ taken[m] <= 1
      BY <2>1, <2>3, <3>0 DEF AnsweredRight
    <3>1. ~Served(m) /\ taken[m] = 0
      BY <3>a, <3>b DEF Served
    <3>2. \A k \in Listeners : AnswersNow(m, k)' <=> k = l
      BY <1>2, <1>3, <2>3, <3>1 DEF AnswersNow, Served
    <3>3. Served(m)'
      BY <3>2 DEF Served, AnswersNow
    <3> QED
      BY <1>1, <1>2, <1>3, <1>5, <3>1, <3>2, <3>3 DEF AnsweredRight
  <2> QED
    BY <2>2, <2>3
<1> QED
  BY <1>1, <1>3, <1>4, <1>6, <1>7 DEF MentionsInv, MessageInv

LEMMA FindKeeps ==
  ASSUME MentionsInv, NEW m \in Posts, NEW l \in Listeners, FindConversation(m, l)
  PROVE  MentionsInv'
<1>0. MentionTypes /\ (\A n \in Posts : MessageInv(n)) /\ AtLevel(m) \in BOOLEAN
  BY DEF MentionsInv, AtLevel, Top
<1>1. /\ Heard(m, l) = "claimed" /\ hearing' = [hearing EXCEPT ![<<m, l>>] = Hearing("found", AtLevel(m))]
      /\ UNCHANGED <<post, claimed, taken, unclaimed>>
  BY DEF FindConversation, Quietly
<1>2. MentionTypes'
  <2>1. isCodeChannel \in BOOLEAN \/ AtLevel(m) \in BOOLEAN
    BY <1>0
  <2> QED
    BY <1>0, <1>1 DEF MentionTypes, Hearing
<1>3. /\ Heard(m, l)' = "found"
      /\ \A n \in Posts, k \in Listeners : <<n, k>> # <<m, l>> => Heard(n, k)' = Heard(n, k)
  BY <1>0, <1>1 DEF MentionTypes, Hearing, Heard
<1>4. \A n \in Posts : MessageFrame(n)
  BY <1>1, <1>3 DEF MessageFrame, ListensOn
<1> QED
  BY <1>0, <1>2, <1>4, MessageFrameKeeps DEF MentionsInv

(* The listener that claimed a mention answers it, and is done. *)
LEMMA AnswerKeeps ==
  ASSUME MentionsInv, NEW m \in Posts, NEW l \in Listeners, AnswerMention(m, l)
  PROVE  MentionsInv'
<1>0. MentionTypes /\ (\A n \in Posts : MessageInv(n)) /\ MessageInv(m)
  BY DEF MentionsInv
<1>1. /\ Heard(m, l) = "found" /\ HearingGoes(m, l, "done")
      /\ taken' = [taken EXCEPT ![m] = @ + 1]
      /\ UNCHANGED <<post, claimed, unclaimed>>
  BY DEF AnswerMention, Take
<1>2. /\ MentionTypes' /\ Heard(m, l)' = "done" /\ taken'[m] = taken[m] + 1 /\ taken[m] \in Nat
      /\ \A k \in Listeners \ {l} : Heard(m, k)' = Heard(m, k)
  BY <1>0, <1>1, HearingMoves DEF MentionTypes
<1>3. \A n \in Posts \ {m} : taken'[n] = taken[n]
  BY <1>0, <1>1 DEF MentionTypes
<1>4. \A n \in Posts \ {m} : MessageInv(n)'
  BY <1>1, <1>3, OthersKeep
<1>5. IsMention(m)' <=> IsMention(m)
  BY <1>1 DEF IsMention
<1>6. HeardRight(m)'
  BY <1>0, <1>1, <1>2, <1>5 DEF MessageInv, HeardRight, Listeners
<1>7. m \notin unclaimed => AnsweredRight(m)'
  <2> SUFFICES ASSUME m \notin unclaimed PROVE AnsweredRight(m)'
    OBVIOUS
  <2>1. AnsweredRight(m) /\ HeardRight(m)
    BY <1>0 DEF MessageInv
  <2>2. AnswersNow(m, l) /\ taken[m] = 0
    BY <1>1, <2>1 DEF AnsweredRight, AnswersNow
  <2>3. taken'[m] = 1 /\ Served(m)' /\ \A k \in Listeners : ~AnswersNow(m, k)'
    BY <1>2, <2>1, <2>2 DEF AnsweredRight, AnswersNow, Served
  <2>4. m \in claimed
    BY <1>1, <2>1, <2>2 DEF AnsweredRight, Served
  <2>5. ~IsMention(m)' => Heard(m, "message")' # "sent"
    BY <1>1, <1>2, <1>5, <2>1 DEF HeardRight, Listeners
  <2> QED
    BY <1>1, <2>3, <2>4, <2>5 DEF AnsweredRight
<1> QED
  BY <1>1, <1>2, <1>4, <1>6, <1>7 DEF MentionsInv, MessageInv

(* The message listener drops what is not addressed to coolton, and takes   *)
(* the rest.                                                                *)
LEMMA MessageListenerKeeps ==
  ASSUME MentionsInv, NEW m \in Posts, DropMessage(m) \/ TakeMessage(m)
  PROVE  MentionsInv'
<1>0. MentionTypes /\ (\A n \in Posts : MessageInv(n)) /\ MessageInv(m) /\ "message" \in Listeners
  BY DEF MentionsInv, Listeners
<1>1. /\ Heard(m, "message") = "sent" /\ HearingGoes(m, "message", "done")
      /\ IsMention(m) => post[m].text = "mention" /\ UNCHANGED taken
      /\ \/ UNCHANGED taken
         \/ taken' = [taken EXCEPT ![m] = @ + 1] /\ ~IsMention(m)
      /\ UNCHANGED <<post, claimed, unclaimed>>
  BY DEF DropMessage, TakeMessage, Take, Quietly, Unaddressed, IsMention
<1>a. taken' \in [Posts -> Nat] /\ taken[m] \in Nat
      /\ (taken'[m] = taken[m] \/ (taken'[m] = taken[m] + 1 /\ ~IsMention(m)))
  BY <1>0, <1>1 DEF MentionTypes
<1>b. /\ hearing' \in [Posts \X Listeners ->
           [pc : {"none", "sent", "added", "mentioned", "claimed", "found", "done"}, level : BOOLEAN]]
      /\ Heard(m, "message")' = "done"
      /\ \A n \in Posts, k \in Listeners : <<n, k>> # <<m, "message">> => Heard(n, k)' = Heard(n, k)
  BY <1>0, <1>1, HearingMoves
<1>2. /\ MentionTypes' /\ Heard(m, "message")' = "done"
      /\ \A k \in Listeners \ {"message"} : Heard(m, k)' = Heard(m, k)
      /\ taken'[m] = taken[m] \/ (taken'[m] = taken[m] + 1 /\ ~IsMention(m))
      /\ taken[m] \in Nat
  BY <1>0, <1>1, <1>a, <1>b DEF MentionTypes
<1>3. \A n \in Posts \ {m} : taken'[n] = taken[n]
  BY <1>0, <1>1 DEF MentionTypes
<1>4. \A n \in Posts \ {m} : MessageInv(n)'
  BY <1>0, <1>1, <1>3, OthersKeep
<1>5. IsMention(m)' <=> IsMention(m)
  BY <1>1 DEF IsMention
<1>6. HeardRight(m)'
  BY <1>0, <1>1, <1>2, <1>5 DEF MessageInv, HeardRight, Listeners
<1>7. m \notin unclaimed => AnsweredRight(m)'
  <2> SUFFICES ASSUME m \notin unclaimed PROVE AnsweredRight(m)'
    OBVIOUS
  <2>1. AnsweredRight(m) /\ HeardRight(m)
    BY <1>0 DEF MessageInv
  <2>2. \A k \in Listeners : AnswersNow(m, k)' <=> AnswersNow(m, k)
    BY <1>1, <1>2 DEF AnswersNow
  <2>3. CASE IsMention(m)
    <3>1. taken'[m] = taken[m] /\ (Served(m)' <=> Served(m)) /\ post[m].text = "mention"
      BY <1>1, <2>2, <2>3 DEF Served, AnswersNow
    <3> QED
      BY <1>1, <1>2, <1>5, <2>1, <2>2, <2>3, <3>1 DEF AnsweredRight, Listeners
  <2>4. CASE ~IsMention(m)
    <3>1. taken[m] = 0 /\ \A k \in Listeners \ {"message"} : Heard(m, k) = "none"
      BY <1>1, <2>1, <2>4 DEF AnsweredRight, HeardRight, Listeners
    <3>2. \A k \in Listeners : ~AnswersNow(m, k)
      BY <1>1, <3>1 DEF AnswersNow, Listeners
    <3>3. m \notin claimed
      BY <2>1, <3>1, <3>2 DEF AnsweredRight, Served
    <3> QED
      BY <1>1, <1>2, <1>5, <2>2, <2>4, <3>1, <3>2, <3>3 DEF AnsweredRight, Listeners
  <2> QED
    BY <2>3, <2>4
<1> QED
  BY <1>1, <1>2, <1>4, <1>6, <1>7 DEF MentionsInv, MessageInv

LEMMA ForgetAndRebootKeep ==
  ASSUME MentionsInv, (\E m \in Posts : ForgetClaim(m)) \/ RebootListeners
  PROVE  MentionsInv'
<1>0. MentionTypes /\ \A n \in Posts : MessageInv(n)
  BY DEF MentionsInv
<1>1. /\ UNCHANGED <<post, taken>> /\ claimed' \subseteq claimed /\ unclaimed \subseteq unclaimed'
      /\ \A n \in Posts : n \in claimed /\ n \notin claimed' /\ n \notin unclaimed' => Pending(n) = {}
  BY DEF ForgetClaim, RebootListeners
<1>2. /\ MentionTypes'
      /\ \A n \in Posts, l \in Listeners :
           /\ Heard(n, l)' = "none" <=> Heard(n, l) = "none"
           /\ Heard(n, l)' \in {Heard(n, l), "done"}
           /\ n \notin unclaimed' => Heard(n, l)' = Heard(n, l)
  <2>1. CASE \E m \in Posts : ForgetClaim(m)
    BY <1>0, <2>1 DEF ForgetClaim, MentionTypes, Heard
  <2>2. CASE RebootListeners
    <3>1. hearing' = [h \in Posts \X Listeners |->
            IF hearing[h].pc \in {"none", "sent"} THEN hearing[h] ELSE Hearing("done", FALSE)]
      BY <2>2 DEF RebootListeners
    <3>2. MentionTypes'
      BY <1>0, <1>1, <3>1 DEF MentionTypes, Hearing
    <3>3. \A n \in Posts, l \in Listeners :
            Heard(n, l)' = IF Heard(n, l) \in {"none", "sent"} THEN Heard(n, l) ELSE "done"
      BY <1>0, <3>1 DEF MentionTypes, Hearing, Heard
    <3>4. \A n \in Posts \ unclaimed', l \in Listeners : Heard(n, l) \in {"none", "done"}
      BY <2>2 DEF RebootListeners, Pending
    <3> QED
      BY <3>2, <3>3, <3>4
  <2> QED
    BY <2>1, <2>2
<1>3. \A n \in Posts : HeardRight(n)'
  BY <1>0, <1>1, <1>2 DEF MessageInv, HeardRight, IsMention, Listeners
<1>4. ASSUME NEW n \in Posts, n \notin unclaimed' PROVE AnsweredRight(n)'
  <2>1. /\ AnsweredRight(n) /\ \A l \in Listeners : Heard(n, l)' = Heard(n, l)
        /\ n \in claimed /\ n \notin claimed' => \A l \in Listeners : Heard(n, l) \in {"none", "done"}
    BY <1>0, <1>1, <1>2, <1>4 DEF MessageInv, Pending
  <2>2. /\ IsMention(n)' <=> IsMention(n)
        /\ \A l \in Listeners : AnswersNow(n, l)' <=> AnswersNow(n, l)
    BY <1>1, <2>1 DEF IsMention, AnswersNow
  <2>3. Served(n)' <=> Served(n)
    BY <1>1, <2>2 DEF Served, AnswersNow
  <2> QED
    BY <1>1, <2>1, <2>2, <2>3 DEF AnsweredRight, Listeners
<1> QED
  BY <1>2, <1>3, <1>4 DEF MentionsInv, MessageInv

LEMMA MentionsStep == MentionsInv /\ [MentionsNext]_mentionVars => MentionsInv'
<1> SUFFICES ASSUME MentionsInv, [MentionsNext]_mentionVars PROVE MentionsInv'
  OBVIOUS
<1>0. MentionTypes
  BY DEF MentionsInv
<1>a. ASSUME UNCHANGED <<post, hearing, claimed, taken, unclaimed>> PROVE MentionsInv'
  <2>1. \A m \in Posts : MessageFrame(m)
    BY <1>a DEF MessageFrame, ListensOn, Heard
  <2> QED
    BY <1>0, <1>a, <2>1, MessageFrameKeeps DEF MentionsInv, MentionTypes
<1>1. ASSUME NEW m \in Posts, NEW t \in Threads, NEW x \in Texts, Write(m, t, x) PROVE MentionsInv'
  <2>1. /\ Delivered(m, t, x, HeardBy(t, x)) /\ UNCHANGED <<claimed, taken, unclaimed>>
    BY <1>1 DEF Write
  <2>2. /\ HeardBy(t, x) \in SUBSET Listeners
        /\ ~(t # Dm /\ x \in {"mention", "codebot"}) => HeardBy(t, x) \subseteq {"message"}
        /\ t # Dm /\ x = "mention" /\ "message" \in HeardBy(t, x) => "mention" \in HeardBy(t, x)
    BY DEF HeardBy, Listeners
  <2> QED
    BY <2>1, <2>2, DeliveryKeeps
<1>2. ASSUME NEW m \in Posts, HandToCoolton(m) \/ SlackOpens(m) PROVE MentionsInv'
  <2>1. \E x \in {"plain", "context"}, ls \in SUBSET Listeners :
          /\ Delivered(m, m, x, ls) /\ UNCHANGED <<claimed, taken, unclaimed>>
          /\ ls \subseteq {"message"} \/ ls \subseteq {"app"}
    BY <1>2, MentionsAssumption DEF HandToCoolton, SlackOpens, HeardBy, Listeners
  <2>2. m \in Threads /\ {"plain", "context"} \subseteq Texts
    BY DEF Threads, Texts
  <2> QED
    BY <2>1, <2>2, DeliveryKeeps
<1>3. ASSUME NEW m \in Posts, AddCoolton(m) \/ RegisterIfCodeChannel(m) PROVE MentionsInv'
  <2>1. \E x \in {"added", "mentioned"} :
          /\ HearingGoes(m, "app", x) /\ Heard(m, "app") \in {"sent", "added"}
          /\ UNCHANGED <<post, claimed, taken, unclaimed>>
    BY <1>3 DEF AddCoolton, RegisterIfCodeChannel
  <2> QED
    BY <2>1, QuietStepsKeep DEF Listeners
<1>4. ASSUME NEW m \in Posts, HearMention(m) \/ HearCodeBot(m) PROVE MentionsInv'
  <2>1. \E l \in {"mention", "message"} :
          /\ HearingGoes(m, l, "mentioned") /\ Heard(m, l) = "sent"
          /\ l = "message" => IsMention(m)
          /\ UNCHANGED <<post, claimed, taken, unclaimed>>
    BY <1>4 DEF HearMention, HearCodeBot, Quietly, IsMention
  <2> QED
    BY <2>1, QuietStepsKeep DEF Listeners
<1>5. ASSUME NEW m \in Posts, DropMessage(m) \/ TakeMessage(m) PROVE MentionsInv'
  BY <1>5, MessageListenerKeeps
<1>6. ASSUME NEW m \in Posts, NEW l \in Listeners,
             ClaimMention(m, l) \/ FindConversation(m, l) \/ AnswerMention(m, l)
      PROVE  MentionsInv'
  BY <1>6, ClaimKeeps, FindKeeps, AnswerKeeps
<1>7. CASE (\E m \in Posts : ForgetClaim(m)) \/ RebootListeners
  BY <1>7, ForgetAndRebootKeep
<1>8. CASE \/ \E t \in Threads : SetEngaged(t) \/ HuddleChanges(t)
           \/ CreateCodeChannel \/ InviteCoolton \/ RegisterCodeChannel \/ ActivateCodeChannel
           \/ ArchiveCodeChannel \/ UNCHANGED mentionVars
  BY <1>8, <1>a
  DEF SetEngaged, HuddleChanges, CreateCodeChannel, InviteCoolton, RegisterCodeChannel,
      ActivateCodeChannel, ArchiveCodeChannel, mentionVars
<1> QED
  BY <1>1, <1>2, <1>3, <1>4, <1>5, <1>6, <1>7, <1>8 DEF MentionsNext, ListenerStep

LEMMA MentionsStart == MentionsInit => MentionsInv
<1> SUFFICES ASSUME MentionsInit PROVE MentionsInv
  OBVIOUS
<1>1. \A m \in Posts : post[m] = NoPost /\ taken[m] = 0 /\ \A l \in Listeners : Heard(m, l) = "none"
  BY DEF MentionsInit, Heard, Hearing
<1>2. NoPost \in [thread : Threads, text : Texts \cup {"none"}] /\ NoPost.text = "none"
  BY DEF NoPost, Post, Threads
<1>3. MentionTypes
  BY <1>2 DEF MentionsInit, MentionTypes, Hearing
<1>4. \A m \in Posts : HeardRight(m) /\ AnsweredRight(m)
  BY <1>1, <1>2 DEF MentionsInit, HeardRight, AnsweredRight, Served, AnswersNow, IsMention, Listeners
<1> QED
  BY <1>3, <1>4 DEF MentionsInv, MessageInv

(* However many listeners get it, and in whatever order, a message is acted *)
(* on at most once, and a mention at least once when they are done, unless  *)
(* its claim was lost before the last of them had it (mention_ids.py).      *)
THEOREM EachMessageIsAnsweredOnce == MentionsSpec => []AnsweredOnce
<1>1. MentionsInv => AnsweredOnce
  <2> SUFFICES ASSUME MentionsInv, NEW m \in Posts, m \notin unclaimed
               PROVE  /\ taken[m] <= 1
                      /\ post[m].thread # Dm /\ post[m].text \in {"mention", "codebot"} /\ Pending(m) = {}
                           /\ (\E l \in Listeners : Heard(m, l) = "done")
                         => taken[m] = 1
    BY DEF AnsweredOnce
  <2>1. HeardRight(m) /\ AnsweredRight(m)
    BY DEF MentionsInv, MessageInv
  <2>2. ASSUME IsMention(m), Pending(m) = {}, \E l \in Listeners : Heard(m, l) = "done"
        PROVE  Served(m)
    BY <2>1, <2>2 DEF HeardRight, AnsweredRight, Pending, Listeners
  <2>3. Pending(m) = {} => \A l \in Listeners : ~AnswersNow(m, l)
    BY DEF Pending, AnswersNow
  <2> QED
    BY <2>1, <2>2, <2>3 DEF AnsweredRight, IsMention, Served
<1> QED
  BY MentionsStart, <1>1, MentionsStep, PTL DEF MentionsSpec

----------------------------------------------------------------------------
(* Bots made for people: a bot whose install page said so keeps its token,  *)
(* as long as no save crossed another and every load could read the store.  *)

(* A call that saves has read everything but its own app's new record, and  *)
(* is the only one.                                                         *)
CopyIsCurrent ==
  ~crossed => \A c \in BotCalls : Saving(c) =>
    /\ \A d \in BotCalls : Saving(d) => d = c
    /\ \A a \in Apps : a # botCall[c].app => botCall[c].copy[a] = botStore[a]

(* What is saved for an install or a registration has a token. *)
CopyHasToken ==
  \A c \in BotCalls :
    /\ botCall[c].pc # "idle" => botCall[c].app \in Apps
    /\ Saving(c) /\ botCall[c].op # "create" => botCall[c].copy[botCall[c].app].token # "none"

(* What a call does at each of its steps. *)
CallsAreWhole ==
  \A c \in BotCalls :
    /\ botCall[c].pc = "made" => botCall[c].op = "create"
    /\ botCall[c].pc \in {"exchanging", "exchanged"} => botCall[c].op = "install"

(* An app has its link only once it was created, by one call. *)
CreatedOnce ==
  /\ \A c \in BotCalls : botCall[c].op = "create" =>
       /\ installLink[botCall[c].app] = "none"
       /\ \A d \in BotCalls : d # c /\ botCall[d].op = "create" => botCall[d].app # botCall[c].app
  /\ \A c \in BotCalls : botCall[c].op = "install" => installLink[botCall[c].app] # "none"
  /\ \A a \in saidInstalled : installLink[a] # "none"

(* The inductive invariant.  InstallIsKept alone says nothing of the copies *)
(* of the store that calls are about to save.                               *)
InstallInv ==
  BotTypeOK /\ CopyIsCurrent /\ CopyHasToken /\ CallsAreWhole /\ CreatedOnce /\ InstallIsKept

(* The fields of a call's state, and its shape. *)
LEMMA CallShape ==
  ASSUME NEW l, NEW o, NEW a, NEW u, NEW s
  PROVE  /\ BotCall(l, o, a, u, s).pc = l /\ BotCall(l, o, a, u, s).op = o /\ BotCall(l, o, a, u, s).app = a
         /\ BotCall(l, o, a, u, s).copy = s
         /\ (/\ l \in {"idle", "made", "saving", "exchanging", "exchanged", "connecting", "deploying"}
             /\ o \in {"create", "register", "install", "deploy"} /\ a \in Apps \cup {NoApp}
             /\ u \in BotUsers \cup {NoApp} /\ s \in BotStores)
            => BotCall(l, o, a, u, s) \in BotCallStates
  BY DEF BotCall, BotCallStates

LEMMA CallFields ==
  ASSUME NEW x \in BotCallStates
  PROVE  /\ x.app \in Apps \cup {NoApp} /\ x.by \in BotUsers \cup {NoApp} /\ x.copy \in BotStores
         /\ x.op \in {"create", "register", "install", "deploy"}
  BY DEF BotCallStates

(* A call that moves on keeps what it is about. *)
LEMMA CallMoves ==
  ASSUME NEW x \in BotCallStates,
         NEW l \in {"idle", "made", "saving", "exchanging", "exchanged", "connecting", "deploying"}
  PROVE  /\ [x EXCEPT !.pc = l] \in BotCallStates
         /\ [x EXCEPT !.pc = l].pc = l /\ [x EXCEPT !.pc = l].op = x.op
         /\ [x EXCEPT !.pc = l].app = x.app /\ [x EXCEPT !.pc = l].copy = x.copy
  BY DEF BotCallStates

LEMMA StoreTypes ==
  /\ NoBots \in BotStores /\ NoBot.token = "none"
  /\ \A u \in BotUsers \cup {NoApp}, t \in {"none", "given", "installed"} :
       Bot(u, t) \in BotRecords /\ Bot(u, t).token = t
  BY DEF NoBots, NoBot, BotStores, BotRecords, Bot

(* A record put into a store. *)
LEMMA StoreChanges ==
  ASSUME NEW s \in BotStores, NEW a \in Apps, NEW b \in BotRecords
  PROVE  /\ [s EXCEPT ![a] = b] \in BotStores /\ [s EXCEPT ![a] = b][a] = b
         /\ \A d \in Apps : d # a => [s EXCEPT ![a] = b][d] = s[d]
         /\ s[a].owner \in BotUsers \cup {NoApp}
  BY DEF BotStores, BotRecords

LEMMA InstallHoldsAtFirst == BotInit => InstallInv
<1> SUFFICES ASSUME BotInit PROVE InstallInv
  OBVIOUS
<1>1. NoBotCall \in BotCallStates /\ NoBotCall.pc = "idle" /\ NoBotCall.op = "deploy"
  BY CallShape, StoreTypes DEF NoBotCall
<1>2. BotTypeOK
  BY <1>1, StoreTypes, BotInstallsAssumption DEF BotInit, BotTypeOK
<1>3. \A c \in BotCalls : botCall[c].pc = "idle" /\ botCall[c].op = "deploy"
  BY <1>1 DEF BotInit
<1> QED
  BY <1>2, <1>3 DEF BotInit, InstallInv, CopyIsCurrent, CopyHasToken, CallsAreWhole, CreatedOnce, InstallIsKept, Saving

(* One call changes; it saves nothing, and creates or installs only what it *)
(* did before.                                                              *)
LEMMA CallKeepsInv ==
  ASSUME InstallInv, NEW c \in BotCalls, NEW x \in BotCallStates,
         botCall' = [botCall EXCEPT ![c] = x],
         x.pc # "saving", x.pc # "idle" => x.app \in Apps,
         x.pc = "made" => x.op = "create", x.pc \in {"exchanging", "exchanged"} => x.op = "install",
         \/ /\ x.op = "create" /\ installLink[x.app] = "none"
            /\ \A d \in BotCalls \ {c} : botCall[d].op = "create" => botCall[d].app # x.app
         \/ x.op = "install" /\ installLink[x.app] # "none"
         \/ x.op \in {"register", "deploy"},
         secretsFile' \in Apps \cup {NoApp}, botFaults' \in Nat, crossed' \in BOOLEAN, crossed => crossed',
         UNCHANGED <<botStore, installLink, saidInstalled>>
  PROVE  InstallInv'
<1>1. botCall' \in [BotCalls -> BotCallStates] /\ botCall'[c] = x
      /\ \A d \in BotCalls : d # c => botCall'[d] = botCall[d]
  BY DEF InstallInv, BotTypeOK
<1>2. BotTypeOK'
  BY <1>1 DEF InstallInv, BotTypeOK
<1>3. CopyIsCurrent' /\ CopyHasToken' /\ CallsAreWhole'
  BY <1>1 DEF InstallInv, CopyIsCurrent, CopyHasToken, CallsAreWhole, Saving
<1>4. CreatedOnce'
  BY <1>1 DEF InstallInv, CreatedOnce
<1>5. InstallIsKept'
  BY DEF InstallInv, InstallIsKept, InstallStatus
<1> QED
  BY <1>2, <1>3, <1>4, <1>5 DEF InstallInv

(* A call that has loaded the store is about to save it with its own app's  *)
(* record changed.                                                          *)
LEMMA LoadKeepsInv ==
  ASSUME InstallInv, NEW c \in BotCalls, NEW s \in {botStore, NoBots}, LoadStore(c, s),
         NEW x \in BotCallStates, botCall' = [botCall EXCEPT ![c] = x],
         NEW b \in BotRecords,
         x.pc = "saving", x.app \in Apps, x.copy[x.app] = b,
         \A a \in Apps : a # x.app => x.copy[a] = s[a],
         \/ x.op = "create" /\ botCall[c].op = "create" /\ x.app = botCall[c].app
         \/ x.op = "install" /\ b.token # "none" /\ installLink[x.app] # "none"
         \/ x.op = "register" /\ b.token # "none",
         UNCHANGED <<botStore, installLink, saidInstalled, secretsFile>>
  PROVE  InstallInv'
<1>1. botCall' \in [BotCalls -> BotCallStates] /\ botCall'[c] = x
      /\ \A d \in BotCalls : d # c => botCall'[d] = botCall[d]
  BY DEF InstallInv, BotTypeOK
<1>2. BotTypeOK'
  BY <1>1 DEF InstallInv, BotTypeOK, LoadStore, BotFault
<1>5. CopyIsCurrent'
  <2> SUFFICES ASSUME ~crossed', NEW d \in BotCalls, Saving(d)'
               PROVE  /\ \A e \in BotCalls : Saving(e)' => e = d
                      /\ \A a \in Apps : a # botCall'[d].app => botCall'[d].copy[a] = botStore'[a]
    BY DEF CopyIsCurrent
  <2>1. s = botStore /\ \A e \in BotCalls \ {c} : ~Saving(e) /\ ~Saving(e)'
    BY <1>1 DEF LoadStore, Saving
  <2> QED
    BY <1>1, <2>1
<1>6. CopyHasToken' /\ CallsAreWhole'
  BY <1>1 DEF InstallInv, CopyHasToken, CallsAreWhole, Saving
<1>7. CreatedOnce'
  BY <1>1 DEF InstallInv, CreatedOnce
<1>8. InstallIsKept'
  BY DEF InstallInv, InstallIsKept, InstallStatus, LoadStore
<1> QED
  BY <1>2, <1>5, <1>6, <1>7, <1>8 DEF InstallInv

(* No call under way, or over. *)
LEMMA IdleCall ==
  NoBotCall \in BotCallStates /\ NoBotCall.pc = "idle" /\ NoBotCall.op = "deploy" /\ NoBotCall.app = NoApp
  BY CallShape, StoreTypes DEF NoBotCall

(* The store is saved: nothing of another app changes, unless it crossed.   *)
LEMMA SaveKeepsInv ==
  ASSUME InstallInv, NEW c \in BotCalls, SaveStore(c)
  PROVE  InstallInv'
<1>1. botCall' \in [BotCalls -> BotCallStates] /\ botCall'[c] = NoBotCall
      /\ \A d \in BotCalls : d # c => botCall'[d] = botCall[d]
  BY IdleCall DEF InstallInv, BotTypeOK, SaveStore, BotCallEnds
<1>2. botCall[c] \in BotCallStates /\ botCall[c].app \in Apps /\ botCall[c].copy \in BotStores
  BY CallFields DEF InstallInv, BotTypeOK, CopyHasToken, SaveStore, Saving
<1>3. BotTypeOK'
  BY <1>1, <1>2 DEF InstallInv, BotTypeOK, SaveStore
<1>4. CopyHasToken' /\ CallsAreWhole'
  BY <1>1, IdleCall DEF InstallInv, CopyHasToken, CallsAreWhole, Saving
<1>5. CopyIsCurrent'
  BY <1>1, IdleCall DEF InstallInv, CopyIsCurrent, Saving, SaveStore
<1>6. CreatedOnce'
  <2>1. \A a \in Apps : a # botCall[c].app => installLink'[a] = installLink[a]
    BY <1>2 DEF InstallInv, BotTypeOK, SaveStore
  <2>2. installLink[botCall[c].app] # "none" => installLink'[botCall[c].app] # "none"
    BY <1>2 DEF InstallInv, BotTypeOK, SaveStore
  <2>3. \A d \in BotCalls : botCall'[d].op = "create" => d # c /\ botCall'[d] = botCall[d]
    BY <1>1, IdleCall
  <2>4. \A d \in BotCalls : botCall'[d].op = "create" => installLink'[botCall'[d].app] = "none"
    BY <2>3, <1>2 DEF InstallInv, CreatedOnce, SaveStore, BotTypeOK
  <2>5. \A d \in BotCalls : botCall'[d].op = "install" => installLink'[botCall'[d].app] # "none"
    BY <1>1, <1>2, IdleCall DEF InstallInv, CreatedOnce, SaveStore, BotTypeOK
  <2>6. \A a \in saidInstalled' : installLink'[a] # "none"
    BY <2>1, <2>2, <1>2 DEF InstallInv, CreatedOnce, SaveStore, BotTypeOK
  <2>7. \A d, e \in BotCalls : d # e /\ botCall'[d].op = "create" /\ botCall'[e].op = "create"
          => botCall'[d].app # botCall'[e].app
    BY <2>3 DEF InstallInv, CreatedOnce
  <2> QED
    BY <2>4, <2>5, <2>6, <2>7 DEF CreatedOnce
<1>7. InstallIsKept'
  <2> SUFFICES ASSUME ~crossed, NEW a \in saidInstalled' PROVE botCall[c].copy[a].token # "none"
    BY DEF InstallIsKept, InstallStatus, SaveStore
  <2>1. CASE a = botCall[c].app
    BY <2>1, <1>2 DEF InstallInv, CopyHasToken, CreatedOnce, SaveStore
  <2>2. CASE a # botCall[c].app
    BY <2>2, <1>2 DEF InstallInv, CopyIsCurrent, InstallIsKept, InstallStatus, SaveStore, BotTypeOK
  <2> QED
    BY <2>1, <2>2
<1> QED
  BY <1>3, <1>4, <1>5, <1>6, <1>7 DEF InstallInv

LEMMA InstallStep == InstallInv /\ [BotNext]_botVars => InstallInv'
<1> SUFFICES ASSUME InstallInv, [BotNext]_botVars PROVE InstallInv'
  OBVIOUS
<1>1. /\ botCall \in [BotCalls -> BotCallStates] /\ botFaults \in Nat /\ crossed \in BOOLEAN
      /\ secretsFile \in Apps \cup {NoApp} /\ botStore \in BotStores /\ NoBots \in BotStores
      /\ NoApp \notin Apps
  BY StoreTypes, BotInstallsAssumption DEF InstallInv, BotTypeOK
<1>2. ASSUME NEW c \in BotCalls, BotCallEnds(c), secretsFile' \in Apps \cup {NoApp}, botFaults' \in Nat,
             crossed' \in BOOLEAN, crossed => crossed', UNCHANGED <<botStore, installLink, saidInstalled>>
      PROVE  InstallInv'
  BY <1>2, IdleCall, CallKeepsInv DEF BotCallEnds
<1>3. ASSUME NEW c \in BotCalls, NEW l \in {"exchanged", "deploying"}, BotCallGoes(c, l),
             botCall[c].pc # "idle", l = "exchanged" => botCall[c].op = "install",
             secretsFile' \in Apps \cup {NoApp}, UNCHANGED <<botStore, installLink, saidInstalled, crossed, botFaults>>
      PROVE  InstallInv'
  <2> DEFINE x == [botCall[c] EXCEPT !.pc = l]
  <2>1. /\ x \in BotCallStates /\ x.pc = l /\ x.op = botCall[c].op /\ x.app = botCall[c].app
        /\ x.op \in {"create", "register", "install", "deploy"}
    <3>1. /\ botCall[c] \in BotCallStates
          /\ l \in {"idle", "made", "saving", "exchanging", "exchanged", "connecting", "deploying"}
      BY <1>1
    <3>2. botCall[c].op \in {"create", "register", "install", "deploy"}
      BY <3>1, CallFields
    <3>3. x \in BotCallStates /\ x.pc = l /\ x.op = botCall[c].op /\ x.app = botCall[c].app
      BY <3>1, CallMoves, ZenonT(60)
    <3> QED
      BY <3>2, <3>3
  <2>2. botCall' = [botCall EXCEPT ![c] = x]
    BY <1>1, <1>3 DEF BotCallGoes
  <2>3. botCall[c].app \in Apps
    BY <1>3 DEF InstallInv, CopyHasToken
  <2>4. \/ /\ x.op = "create" /\ installLink[x.app] = "none"
           /\ \A d \in BotCalls \ {c} : botCall[d].op = "create" => botCall[d].app # x.app
        \/ x.op = "install" /\ installLink[x.app] # "none"
        \/ x.op \in {"register", "deploy"}
    BY <2>1 DEF InstallInv, CreatedOnce
  <2> HIDE DEF x
  <2> QED
    BY <1>1, <1>3, <2>1, <2>2, <2>3, <2>4, CallKeepsInv
<1>4. ASSUME NEW c \in BotCalls, NEW a \in Apps, NEW u \in BotUsers \cup {NoApp}, NEW s \in BotStores,
             NEW l \in {"made", "exchanging", "connecting"}, NEW o \in {"create", "install", "deploy"},
             botCall' = [botCall EXCEPT ![c] = BotCall(l, o, a, u, s)],
             l = "made" => o = "create", l = "exchanging" => o = "install",
             o = "create" => installLink[a] = "none" /\ \A d \in BotCalls : botCall[d].app # a,
             o = "install" => installLink[a] # "none",
             UNCHANGED <<botStore, installLink, saidInstalled, secretsFile, crossed, botFaults>>
      PROVE  InstallInv'
  <2> DEFINE x == BotCall(l, o, a, u, s)
  <2>1. x \in BotCallStates /\ x.pc = l /\ x.op = o /\ x.app = a
    BY CallShape
  <2>2. botCall' = [botCall EXCEPT ![c] = x]
    BY <1>4
  <2> HIDE DEF x
  <2> QED
    BY <1>1, <1>4, <2>1, <2>2, CallKeepsInv
<1>5. ASSUME NEW c \in BotCalls, NEW s \in {botStore, NoBots}, LoadStore(c, s), NEW a \in Apps,
             NEW o \in {"create", "install", "register"}, NEW b \in BotRecords,
             botCall' = [botCall EXCEPT ![c] = BotCall("saving", o, a, NoApp, [s EXCEPT ![a] = b])],
             \/ o = "create" /\ botCall[c].op = "create" /\ a = botCall[c].app
             \/ o = "install" /\ b.token # "none" /\ installLink[a] # "none"
             \/ o = "register" /\ b.token # "none",
             UNCHANGED <<botStore, installLink, saidInstalled, secretsFile>>
      PROVE  InstallInv'
  <2> DEFINE copy == [s EXCEPT ![a] = b]
             x    == BotCall("saving", o, a, NoApp, copy)
  <2>1. copy \in BotStores
    BY <1>1, StoreChanges
  <2>2. x \in BotCallStates /\ x.pc = "saving" /\ x.op = o /\ x.app = a /\ x.copy = copy
    BY <2>1, CallShape
  <2>3. botCall' = [botCall EXCEPT ![c] = x]
    BY <1>5
  <2>4. x.copy[x.app] = b /\ \A d \in Apps : d # x.app => x.copy[d] = s[d]
    <3>1. s \in BotStores
      BY <1>1
    <3>2. copy[a] = b /\ \A d \in Apps : d # a => copy[d] = s[d]
      BY <3>1 DEF BotStores
    <3> HIDE DEF copy, x
    <3> QED
      BY <2>2, <3>2
  <2> HIDE DEF x, copy
  <2>5. \/ x.op = "create" /\ botCall[c].op = "create" /\ x.app = botCall[c].app
        \/ x.op = "install" /\ b.token # "none" /\ installLink[x.app] # "none"
        \/ x.op = "register" /\ b.token # "none"
    BY <1>5, <2>2
  <2>6. x.app \in Apps
    BY <2>2
  <2>7. PICK y \in BotCallStates : y = x
    BY <2>2
  <2>8. /\ botCall' = [botCall EXCEPT ![c] = y] /\ y.pc = "saving" /\ y.app \in Apps /\ y.copy[y.app] = b
        /\ \A d \in Apps : d # y.app => y.copy[d] = s[d]
        /\ \/ y.op = "create" /\ botCall[c].op = "create" /\ y.app = botCall[c].app
           \/ y.op = "install" /\ b.token # "none" /\ installLink[y.app] # "none"
           \/ y.op = "register" /\ b.token # "none"
    BY <2>2, <2>3, <2>4, <2>5, <2>6, <2>7
  <2>9. LoadStore(c, s) /\ UNCHANGED <<botStore, installLink, saidInstalled, secretsFile>>
    BY <1>5
  <2> QED
    BY <2>8, <2>9, LoadKeepsInv, ZenonT(60)
<1>6. ASSUME NEW c \in BotCalls, SaveStoreFails(c) PROVE InstallInv'
  BY <1>1, <1>2, <1>6 DEF SaveStoreFails, BotFault
<1>7. ASSUME NEW c \in BotCalls, ExchangeCode(c) PROVE InstallInv'
  BY <1>1, <1>2, <1>3, <1>7 DEF ExchangeCode, InstallInv, CallsAreWhole
<1>8. ASSUME NEW c \in BotCalls, WriteSecrets(c) PROVE InstallInv'
  <2>1. botCall[c].app \in Apps
    BY <1>8 DEF WriteSecrets, InstallInv, CopyHasToken
  <2> QED
    BY <1>1, <1>2, <1>3, <1>8, <2>1 DEF WriteSecrets
<1>9. ASSUME NEW c \in BotCalls, RemoveSecrets(c) PROVE InstallInv'
  BY <1>1, <1>2, <1>9 DEF RemoveSecrets, BotFault
<1>10. ASSUME NEW c \in BotCalls, NEW s \in {botStore, NoBots}, AddBot(c, s) PROVE InstallInv'
  <2>1. /\ botCall[c].op = "create" /\ botCall[c].app \in Apps
        /\ botCall[c].by \in BotUsers \cup {NoApp}
    BY <1>1, <1>10, CallFields DEF AddBot, InstallInv, CallsAreWhole, CopyHasToken
  <2>2. Bot(botCall[c].by, "none") \in BotRecords
    BY <2>1, StoreTypes
  <2> QED
    BY <1>5, <1>10, <2>1, <2>2 DEF AddBot
<1>11. ASSUME NEW c \in BotCalls, NEW s \in {botStore, NoBots}, StoreInstalled(c, s) PROVE InstallInv'
  <2>1. /\ botCall[c].op = "install" /\ botCall[c].app \in Apps /\ installLink[botCall[c].app] # "none"
    BY <1>11 DEF StoreInstalled, InstallInv, CallsAreWhole, CopyHasToken, CreatedOnce
  <2>2. /\ Bot(s[botCall[c].app].owner, "installed") \in BotRecords
        /\ Bot(s[botCall[c].app].owner, "installed").token # "none"
    <3>1. s[botCall[c].app].owner \in BotUsers \cup {NoApp}
      BY <1>1, <2>1 DEF BotStores, BotRecords
    <3> QED
      BY <3>1, StoreTypes
  <2>3. LoadStore(c, s) /\ UNCHANGED <<botStore, installLink, saidInstalled, secretsFile>>
        /\ botFaults' \in Nat /\ crossed' \in BOOLEAN /\ (crossed => crossed')
    BY <1>1, <1>11 DEF StoreInstalled, LoadStore, BotFault
  <2>4. CASE BotCallEnds(c)
    BY <1>1, <1>2, <2>3, <2>4
  <2>5. CASE botCall' = [botCall EXCEPT ![c] = BotCall("saving", "install", botCall[c].app, NoApp,
                          [s EXCEPT ![botCall[c].app] = Bot(s[botCall[c].app].owner, "installed")])]
    BY <1>5, <2>1, <2>2, <2>3, <2>5
  <2> QED
    BY <1>11, <2>4, <2>5 DEF StoreInstalled
<1>12. ASSUME NEW c \in BotCalls, NEW a \in Apps, NEW u \in BotUsers, NEW s \in {botStore, NoBots},
              RegisterTokens(c, u, a, s)
       PROVE  InstallInv'
  <2>1. Bot(s[a].owner, "given") \in BotRecords /\ Bot(s[a].owner, "given").token # "none"
    <3>1. s[a].owner \in BotUsers \cup {NoApp}
      BY <1>1 DEF BotStores, BotRecords
    <3> QED
      BY <3>1, StoreTypes
  <2> QED
    BY <1>5, <1>12, <2>1 DEF RegisterTokens
<1>13. ASSUME NEW c \in BotCalls, NEW a \in Apps, InstallCallback(c, a) PROVE InstallInv'
  BY <1>1, <1>4, <1>13 DEF InstallCallback, LinkIsGood
<1>14. ASSUME NEW c \in BotCalls, NEW a \in Apps, NEW u \in BotUsers, CreateApp(c, u, a) \/ DeployBot(c, u, a)
       PROVE  InstallInv'
  BY <1>1, <1>4, <1>14 DEF CreateApp, DeployBot
<1>15. ASSUME NEW a \in Apps, LinkExpires(a) PROVE InstallInv'
  <2>1. /\ UNCHANGED <<botStore, botCall, saidInstalled, secretsFile, crossed, botFaults>>
        /\ installLink[a] = "live" /\ installLink' = [installLink EXCEPT ![a] = "expired"]
        /\ installLink \in [Apps -> {"none", "live", "expired"}]
    BY <1>15 DEF LinkExpires, LinkIsGood, InstallInv, BotTypeOK
  <2>2. BotTypeOK' /\ CopyIsCurrent' /\ CopyHasToken' /\ CallsAreWhole' /\ InstallIsKept'
    BY <2>1 DEF InstallInv, BotTypeOK, CopyIsCurrent, CopyHasToken, CallsAreWhole, InstallIsKept, InstallStatus, Saving
  <2>3. \A x : installLink[x] # "none" => installLink'[x] # "none"
    BY <2>1
  <2>4. \A x : x # a => installLink'[x] = installLink[x]
    BY <2>1
  <2>5. CreatedOnce'
    BY <2>1, <2>3, <2>4 DEF InstallInv, CreatedOnce
  <2> QED
    BY <2>2, <2>5 DEF InstallInv
<1>16. CASE UNCHANGED botVars
  BY <1>16 DEF botVars, InstallInv, BotTypeOK, CopyIsCurrent, CopyHasToken, CallsAreWhole, CreatedOnce,
               InstallIsKept, InstallStatus, Saving
<1> QED
  BY <1>6, <1>7, <1>8, <1>9, <1>10, <1>11, <1>12, <1>13, <1>14, <1>15, <1>16, SaveKeepsInv DEF BotNext

(* A bot whose page said "App installed" is ready to deploy, for any number *)
(* of bots and calls (bot_oauth_callback, store_installed_bot_token).       *)
THEOREM InstalledIsReady == BotSpec => []InstallIsKept
<1>1. InstallInv => InstallIsKept
  BY DEF InstallInv
<1> QED
  BY InstallHoldsAtFirst, InstallStep, <1>1, PTL DEF BotSpec
============================================================================
