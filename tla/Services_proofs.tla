--------------------------- MODULE Services_proofs ---------------------------
(* The shape of the state of every part that runs beside the turns: what a  *)
(* part's invariant leaves open of its type, shown for each part, and then  *)
(* for the system of all the parts, of which one moves at a time.           *)
EXTENDS MCServices, Scheduler_proofs, Access_proofs, Agents_proofs, Surfaces_proofs, HuddleTalk_proofs

----------------------------------------------------------------------------
(* Policy consent: the handlers' records.                                   *)

(* What of a handler's record its type says is in HandlersTyped; the rest   *)
(* are sets of people, and of prompts.                                      *)
ConsentTypeInv == ConsentInv /\ ConsentTypeOK

LEMMA ConsentTypeStep == ConsentTypeInv /\ [ConsentNext]_consentVars => ConsentTypeInv'
<1> SUFFICES ASSUME ConsentTypeInv, [ConsentNext]_consentVars PROVE ConsentTypeInv'
  OBVIOUS
<1>0. ConsentInv /\ ConsentInv' /\ ConsentTypeOK
  BY ConsentStep DEF ConsentTypeInv
<1> DEFINE Sets == /\ {members, consents, homes, willing, muddled} \subseteq SUBSET People
                   /\ news \subseteq People \X {"joined", "left"}
                   /\ {prompts, shown, joined} \subseteq SUBSET Asks
                   /\ consentSpent \in [{"moves", "outs", "deaths"} -> Nat]
<1>a. Sets
  BY <1>0 DEF ConsentTypeOK
<1>b. Sets' => ConsentTypeInv'
  BY <1>0 DEF ConsentTypeInv, ConsentTypeOK, ConsentInv, HandlersTyped, AskShape, ClickShape
<1>c. /\ \A a \in Asks : ask[a].pc # "new" => ask[a].user \in People
      /\ \A c \in Clicks : click[c].pc # "idle" => click[c].user \in People
  BY <1>0 DEF ConsentInv, AllArePeople
<1>d. \A c \in Clicks : click[c].prompt \in SUBSET Asks
  BY <1>0 DEF ConsentInv, HandlersTyped, ClickShape
<1>1. ASSUME NEW u \in People,
             \/ JoinChannel(u) \/ LeaveChannel(u) \/ HandleJoined(u) \/ HandleLeft(u) \/ OptOut(u)
             \/ HomeFinds(u) \/ HomeRecords(u)
      PROVE  Sets'
  <2>1. /\ UNCHANGED consentSpent \/ ConsentEvent("moves", MaxMoves) \/ ConsentEvent("outs", MaxOptOuts)
        /\ muddled' \in {muddled, muddled \cup {u}, muddled \ {u}}
    BY <1>1 DEF JoinChannel, LeaveChannel, HandleJoined, HandleLeft, OptOut, HomeFinds, HomeRecords
  <2>2. consentSpent' \in [{"moves", "outs", "deaths"} -> Nat]
    BY <1>a, <2>1 DEF ConsentEvent
  <2>3. muddled' \in SUBSET People
    BY <1>a, <2>1
  <2> QED
    BY <1>1, <1>a, <2>2, <2>3 DEF JoinChannel, LeaveChannel, HandleJoined, HandleLeft, OptOut, HomeFinds, HomeRecords
<1>2. ASSUME NEW u \in People, NEW a \in Asks, HasConsent(a, u) PROVE Sets'
  BY <1>2, <1>a DEF HasConsent
<1>3. ASSUME NEW u \in People, NEW c \in Clicks, NEW p \in Asks, NEW j \in BOOLEAN, PopPending(c, u, p, j)
      PROVE  Sets'
  BY <1>3, <1>a DEF PopPending
<1>4. ASSUME NEW a \in Asks, AskSlack(a) \/ RecordMember(a) \/ SavePending(a) \/ SayPrompt(a)
      PROVE  Sets'
  BY <1>4, <1>a, <1>c DEF AskSlack, RecordMember, SavePending, SayPrompt, AskGoes
<1>5. ASSUME NEW c \in Clicks, Invite(c) \/ RecordOptIn(c) \/ ClearPending(c) PROVE Sets'
  BY <1>5, <1>a, <1>c, <1>d DEF Invite, RecordOptIn, ClearPending
<1>6. ASSUME DieAndRestart PROVE Sets'
  BY <1>6, <1>a DEF DieAndRestart, ConsentEvent
<1>7. ASSUME UNCHANGED consentVars PROVE Sets'
  BY <1>7, <1>a DEF consentVars
<1> QED
  BY <1>b, <1>1, <1>2, <1>3, <1>4, <1>5, <1>6, <1>7 DEF ConsentNext

LEMMA ConsentTypeInit == ConsentInit => ConsentTypeInv
BY ConsentStart, PolicyConsentAssumption
DEF ConsentTypeInv, ConsentTypeOK, ConsentInit, ConsentInv, HandlersTyped, AskShape, ClickShape
----------------------------------------------------------------------------
(* Skill review: the skills' folders and the calls that change them.        *)

(* The folders and the calls: what a call has begun to change is named, and *)
(* what it will write there is a skill or nothing.                          *)
SkillFolders == [kind : {"none", "bare", "skill"},
                 description : SkillCalls \cup {Origin}, body : SkillCalls \cup {Origin}]
SkillCallRecords ==
  [pc : {"new", "submitting", "waiting", "applying", "writing", "moving", "discarding", "done", "cut"},
   op : SkillOps, who : Requesters \cup {Maintainer}, slug : SUBSET Slugs, to : SUBSET Slugs,
   md : SkillFolders, folder : Folders]

TreeTyped == tree \in [Folders \X Slugs -> SkillFolders]
SkillCallsTyped ==
  /\ skillCall \in [SkillCalls -> SkillCallRecords]
  /\ \A c \in SkillCalls : skillCall[c].pc # "new" =>
       skillCall[c].slug # {} /\ (skillCall[c].op = "rename" => skillCall[c].to # {})
SkillTypes ==
  /\ TreeTyped /\ SkillCallsTyped
  /\ staged \subseteq SkillCalls /\ proposals \subseteq SkillCalls /\ skillDeaths \in Nat

LEMMA SkillFoldersAre ==
  /\ Nothing \in SkillFolders /\ Bare \in SkillFolders
  /\ \A d, b \in SkillCalls \cup {Origin} : SkillMd(d, b) \in SkillFolders
BY DEF Nothing, Bare, SkillMd, SkillFolders

LEMMA SkillRecordsAre ==
  ASSUME NEW l \in {"new", "submitting", "waiting", "applying", "writing", "moving", "discarding", "done", "cut"},
         NEW o \in SkillOps, NEW w \in Requesters \cup {Maintainer}, NEW s \in SUBSET Slugs,
         NEW t \in SUBSET Slugs, NEW md \in SkillFolders, NEW f \in Folders
  PROVE  /\ SkillCall(l, o, w, s, t, md, f) \in SkillCallRecords
         /\ SkillCall(l, o, w, s, t, md, f).pc = l /\ SkillCall(l, o, w, s, t, md, f).op = o
         /\ SkillCall(l, o, w, s, t, md, f).slug = s /\ SkillCall(l, o, w, s, t, md, f).to = t
BY DEF SkillCall, SkillCallRecords

(* A call that is under way names its skill. *)
LEMMA SlugsAre ==
  ASSUME SkillTypes, NEW c \in SkillCalls, skillCall[c].pc # "new"
  PROVE  /\ Slug(c) \in Slugs
         /\ skillCall[c].op = "rename" => ToSlug(c) \in Slugs
         /\ skillCall[c].md \in SkillFolders /\ skillCall[c].folder \in Folders
<1>1. skillCall[c] \in SkillCallRecords
  BY DEF SkillTypes, SkillCallsTyped
<1>2. skillCall[c].slug \in SUBSET Slugs /\ skillCall[c].to \in SUBSET Slugs
      /\ skillCall[c].md \in SkillFolders /\ skillCall[c].folder \in Folders
  BY <1>1 DEF SkillCallRecords
<1>3. skillCall[c].slug # {} => Slug(c) \in skillCall[c].slug
  BY DEF Slug
<1>4. skillCall[c].to # {} => ToSlug(c) \in skillCall[c].to
  BY DEF ToSlug
<1> QED
  BY <1>2, <1>3, <1>4 DEF SkillTypes, SkillCallsTyped

LEMMA FoldersAre == ASSUME TreeTyped, NEW f \in Folders, NEW s \in Slugs
                    PROVE  At(f, s) \in SkillFolders
                           /\ At(f, s).description \in SkillCalls \cup {Origin} /\ At(f, s).body \in SkillCalls \cup {Origin}
<1>1. At(f, s) \in SkillFolders
  BY DEF TreeTyped, At
<1> QED
  BY <1>1 DEF SkillFolders

LEMMA HomesAre == \A s : Home(s) \in Folders
BY DEF Home, Folders

LEMMA PutKeeps ==
  ASSUME TreeTyped, NEW f \in Folders, NEW s \in Slugs, NEW md \in SkillFolders, Put(f, s, md)
  PROVE  TreeTyped'
BY DEF Put, TreeTyped

LEMMA CallKeepsType ==
  ASSUME SkillCallsTyped, NEW c \in SkillCalls, skillCall[c].pc # "new",
         NEW l \in {"submitting", "waiting", "applying", "writing", "moving", "discarding", "done", "cut"},
         \/ skillCall' = [skillCall EXCEPT ![c].pc = l]
         \/ \E f \in Folders : skillCall' = [skillCall EXCEPT ![c].pc = l, ![c].folder = f]
  PROVE  SkillCallsTyped'
<1>1. skillCall \in [SkillCalls -> SkillCallRecords] /\ skillCall[c] \in SkillCallRecords
  BY DEF SkillCallsTyped
<1>2. ASSUME NEW r \in SkillCallRecords, skillCall' = [skillCall EXCEPT ![c] = r],
             r.slug = skillCall[c].slug, r.to = skillCall[c].to, r.op = skillCall[c].op
      PROVE  SkillCallsTyped'
  BY <1>2 DEF SkillCallsTyped
<1>3. CASE skillCall' = [skillCall EXCEPT ![c].pc = l]
  <2> DEFINE r == [skillCall[c] EXCEPT !.pc = l]
  <2>1. r \in SkillCallRecords /\ r.slug = skillCall[c].slug /\ r.to = skillCall[c].to /\ r.op = skillCall[c].op
    BY <1>1 DEF SkillCallRecords
  <2>2. skillCall' = [skillCall EXCEPT ![c] = r]
    BY <1>1, <1>3
  <2> HIDE DEF r
  <2> QED
    BY <1>2, <2>1, <2>2
<1>4. ASSUME NEW f \in Folders, skillCall' = [skillCall EXCEPT ![c].pc = l, ![c].folder = f]
      PROVE  SkillCallsTyped'
  <2> DEFINE r == [skillCall[c] EXCEPT !.pc = l, !.folder = f]
  <2>1. r \in SkillCallRecords /\ r.slug = skillCall[c].slug /\ r.to = skillCall[c].to /\ r.op = skillCall[c].op
    BY <1>1 DEF SkillCallRecords
  <2>2. skillCall' = [skillCall EXCEPT ![c] = r]
    BY <1>1, <1>4
  <2> HIDE DEF r
  <2> QED
    BY <1>2, <2>1, <2>2
<1> QED
  BY <1>3, <1>4

LEMMA BeginKeepsType ==
  ASSUME SkillTypes, NEW c \in SkillCalls, NEW o \in SkillOps, NEW w \in Requesters, NEW s \in Slugs,
         NEW t \in SUBSET Slugs, NEW md \in SkillFolders, o = "rename" => t # {},
         Begin(c, o, w, {s}, t, md), staged' \subseteq staged \cup {c}
  PROVE  SkillTypes'
<1>1. /\ UNCHANGED <<tree, proposals, skillDeaths>>
      /\ \E x \in {"submitting", "applying"} :
           skillCall' = [skillCall EXCEPT ![c] = SkillCall(x, o, w, {s}, t, md, "own")]
  BY DEF Begin
<1>2. PICK x \in {"submitting", "applying"} :
        skillCall' = [skillCall EXCEPT ![c] = SkillCall(x, o, w, {s}, t, md, "own")]
  BY <1>1
<1> DEFINE r == SkillCall(x, o, w, {s}, t, md, "own")
<1>3. r \in SkillCallRecords /\ r.slug = {s} /\ r.to = t /\ r.op = o
  BY SkillRecordsAre DEF Folders
<1> HIDE DEF r
<1>4. skillCall' = [skillCall EXCEPT ![c] = r]
  BY <1>2 DEF r
<1>5. SkillCallsTyped'
  BY <1>3, <1>4 DEF SkillTypes, SkillCallsTyped
<1> QED
  BY <1>1, <1>5 DEF SkillTypes, TreeTyped

LEMMA SkillTypesStep == SkillInv /\ SkillTypes /\ [SkillsNext]_skillVars => SkillTypes'
<1> SUFFICES ASSUME SkillInv, SkillTypes, [SkillsNext]_skillVars PROVE SkillTypes'
  OBVIOUS
<1>0. /\ TreeTyped /\ SkillCallsTyped /\ staged \subseteq SkillCalls /\ proposals \subseteq SkillCalls
      /\ skillDeaths \in Nat
  BY DEF SkillTypes
<1>1. ASSUME NEW c \in SkillCalls, NEW w \in Requesters, NEW s \in Slugs,
             \/ CreateSkill(c, w, s) \/ InstallSkill(c, w, s) \/ DeleteSkill(c, w, s)
             \/ \E t \in Slugs : RenameSkill(c, w, s, t)
             \/ \E part \in {"description", "body", "both"} : UpdateSkill(c, w, s, part)
      PROVE  SkillTypes'
  <2>1. CASE CreateSkill(c, w, s)
    <3>1. Begin(c, "create", w, {s}, {}, SkillMd(c, c)) /\ UNCHANGED staged
      BY <2>1 DEF CreateSkill
    <3> QED
      BY <3>1, BeginKeepsType, SkillFoldersAre DEF SkillOps
  <2>2. CASE InstallSkill(c, w, s)
    <3>1. Begin(c, "install", w, {s}, {}, SkillMd(c, c)) /\ staged' = staged \cup {c}
      BY <2>2 DEF InstallSkill
    <3> QED
      BY <3>1, BeginKeepsType, SkillFoldersAre DEF SkillOps
  <2>3. CASE DeleteSkill(c, w, s)
    <3>1. Begin(c, "delete", w, {s}, {}, Nothing) /\ UNCHANGED staged
      BY <2>3 DEF DeleteSkill
    <3> QED
      BY <3>1, BeginKeepsType, SkillFoldersAre DEF SkillOps
  <2>4. ASSUME NEW t \in Slugs, RenameSkill(c, w, s, t) PROVE SkillTypes'
    <3>1. Begin(c, "rename", w, {s}, {t}, Nothing) /\ UNCHANGED staged
      BY <2>4 DEF RenameSkill
    <3> QED
      BY <3>1, BeginKeepsType, SkillFoldersAre DEF SkillOps
  <2>5. ASSUME NEW part \in {"description", "body", "both"}, UpdateSkill(c, w, s, part) PROVE SkillTypes'
    <3> DEFINE was == At(Home(s), s)
    <3>1. was.description \in SkillCalls \cup {Origin} /\ was.body \in SkillCalls \cup {Origin}
      BY <1>0, FoldersAre, HomesAre
    <3>2. \E d, b \in SkillCalls \cup {Origin} : Begin(c, "update", w, {s}, {}, SkillMd(d, b)) /\ UNCHANGED staged
      <4> HIDE DEF was
      <4>1. /\ UNCHANGED staged
            /\ Begin(c, "update", w, {s}, {},
                 CASE part = "description" -> SkillMd(c, was.body)
                   [] part = "body" -> SkillMd(was.description, c)
                   [] part = "both" -> SkillMd(c, c))
        BY <2>5 DEF UpdateSkill, was
      <4> QED
        BY <4>1, <3>1
    <3> QED
      BY <3>2, BeginKeepsType, SkillFoldersAre DEF SkillOps
  <2> QED
    BY <1>1, <2>1, <2>2, <2>3, <2>4, <2>5
<1>2. ASSUME NEW c \in SkillCalls, skillCall[c].pc # "new",
             NEW l \in {"waiting", "applying", "writing", "moving", "discarding", "done"},
             skillCall' = [skillCall EXCEPT ![c].pc = l]
      PROVE  SkillCallsTyped'
  BY <1>0, <1>2, CallKeepsType
<1>3. ASSUME NEW c \in SkillCalls, Submit(c) \/ Approve(c) \/ Reject(c) \/ Discard(c)
      PROVE  SkillTypes'
  <2>1. /\ UNCHANGED <<tree, skillDeaths>> /\ staged' \subseteq staged /\ proposals' \subseteq proposals \cup {c}
        /\ skillCall[c].pc \in {"submitting", "discarding"} \/ c \in proposals
        /\ \E l \in {"waiting", "applying", "discarding", "done"} : skillCall' = [skillCall EXCEPT ![c].pc = l]
    BY <1>3 DEF Submit, Approve, Reject, Discard
  <2>2. skillCall[c].pc # "new"
    BY <2>1 DEF SkillInv
  <2>3. SkillCallsTyped'
    BY <2>1, <2>2, <1>2
  <2> QED
    BY <1>0, <2>1, <2>3 DEF SkillTypes, TreeTyped
<1>4. ASSUME NEW c \in SkillCalls, ResolveSkill(c) PROVE SkillTypes'
  <2>1. /\ UNCHANGED <<tree, staged, proposals, skillDeaths>> /\ skillCall[c].pc = "applying"
        /\ \E l \in {"writing", "done"} :
             skillCall' = [skillCall EXCEPT ![c].pc = l, ![c].folder = Home(Slug(c))]
    BY <1>4 DEF ResolveSkill
  <2>2. SkillCallsTyped'
    BY <1>0, <2>1, HomesAre, CallKeepsType
  <2> QED
    BY <1>0, <2>1, <2>2 DEF SkillTypes, TreeTyped
<1>5. ASSUME NEW c \in SkillCalls, ApplyStep(c), ~ResolveSkill(c) PROVE SkillTypes'
  <2>1. /\ UNCHANGED <<staged, proposals, skillDeaths>>
        /\ skillCall[c].pc \in {"applying", "writing", "moving"}
        /\ \E l \in {"writing", "moving", "discarding", "done"} : skillCall' = [skillCall EXCEPT ![c].pc = l]
    BY <1>5
    DEF ApplyStep, MakeFolder, WriteNew, RemoveInstalled, MoveStaged, MoveSkill, WriteUpdate,
        RemoveSkill, Applies, CallGoes
  <2>2. SkillCallsTyped'
    BY <2>1, <1>2
  <2>3. /\ Slug(c) \in Slugs /\ skillCall[c].md \in SkillFolders /\ skillCall[c].folder \in Folders
        /\ skillCall[c].op = "rename" => ToSlug(c) \in Slugs
    BY <2>1, SlugsAre
  <2>4. /\ Nothing \in SkillFolders /\ Bare \in SkillFolders /\ "own" \in Folders /\ "agents" \in Folders
    BY SkillFoldersAre DEF Folders
  <2>5. CASE MoveSkill(c)
    <3>1. At(skillCall[c].folder, Slug(c)) \in SkillFolders /\ ToSlug(c) \in Slugs
      BY <1>0, <2>3, <2>5, FoldersAre DEF MoveSkill
    <3>2. TreeTyped'
      BY <1>0, <2>3, <2>4, <2>5, <3>1 DEF MoveSkill, TreeTyped
    <3> QED
      BY <1>0, <2>1, <2>2, <3>2 DEF SkillTypes
  <2>6. CASE ~MoveSkill(c)
    <3>1. \/ UNCHANGED tree
          \/ \E f \in Folders, md \in SkillFolders : Put(f, Slug(c), md)
      BY <1>5, <2>3, <2>4, <2>6
      DEF ApplyStep, MakeFolder, WriteNew, RemoveInstalled, MoveStaged, WriteUpdate, RemoveSkill
    <3>2. TreeTyped'
      BY <1>0, <2>3, <3>1, PutKeeps DEF TreeTyped
    <3> QED
      BY <1>0, <2>1, <2>2, <3>2 DEF SkillTypes
  <2> QED
    BY <2>5, <2>6
<1>6. CASE SkillsDie
  <2>1. /\ UNCHANGED <<tree, staged, proposals>> /\ skillDeaths' \in Nat
        /\ skillCall' = [c \in SkillCalls |->
             IF skillCall[c].pc \in {"new", "waiting", "done"} THEN skillCall[c]
             ELSE [skillCall[c] EXCEPT !.pc = "cut"]]
    BY <1>0, <1>6 DEF SkillsDie
  <2>2. \A c \in SkillCalls :
          /\ [skillCall[c] EXCEPT !.pc = "cut"] \in SkillCallRecords
          /\ [skillCall[c] EXCEPT !.pc = "cut"].pc = "cut"
          /\ [skillCall[c] EXCEPT !.pc = "cut"].slug = skillCall[c].slug
          /\ [skillCall[c] EXCEPT !.pc = "cut"].to = skillCall[c].to
          /\ [skillCall[c] EXCEPT !.pc = "cut"].op = skillCall[c].op
    BY <1>0 DEF SkillCallsTyped, SkillCallRecords
  <2>3. skillCall' \in [SkillCalls -> SkillCallRecords]
    BY <1>0, <2>1, <2>2 DEF SkillCallsTyped
  <2>4. \A c \in SkillCalls :
          /\ skillCall[c].pc = "new" => skillCall'[c].pc = "new"
          /\ skillCall'[c].pc # "new" => skillCall[c].pc # "new"
          /\ skillCall'[c].slug = skillCall[c].slug /\ skillCall'[c].to = skillCall[c].to
          /\ skillCall'[c].op = skillCall[c].op
    BY <2>1, <2>2
  <2>5. SkillCallsTyped'
    BY <1>0, <2>3, <2>4 DEF SkillCallsTyped
  <2> QED
    BY <1>0, <2>1, <2>5 DEF SkillTypes, TreeTyped
<1>7. CASE UNCHANGED skillVars
  BY <1>0, <1>7 DEF skillVars, SkillTypes, TreeTyped, SkillCallsTyped
<1> QED
  BY <1>1, <1>3, <1>4, <1>5, <1>6, <1>7 DEF SkillsNext

LEMMA SkillTypesStart == SkillsInit => SkillTypes
<1> SUFFICES ASSUME SkillsInit PROVE SkillTypes
  OBVIOUS
<1>1. NoSkillCall \in SkillCallRecords /\ NoSkillCall.pc = "new"
  BY SkillRecordsAre, SkillFoldersAre DEF NoSkillCall, SkillOps, Folders
<1>2. SkillCallsTyped
  BY <1>1 DEF SkillsInit, SkillCallsTyped
<1>3. TreeTyped
  BY SkillFoldersAre DEF SkillsInit, TreeTyped
<1> QED
  BY <1>2, <1>3 DEF SkillsInit, SkillTypes

LEMMA SkillTypesHold == SkillTypes => SkillsTypeOK
<1> SUFFICES ASSUME SkillTypes PROVE SkillsTypeOK
  OBVIOUS
<1>1. tree \in [Folders \X Slugs -> SkillFolders] /\ \A c \in SkillCalls : skillCall[c] \in SkillCallRecords
  BY DEF SkillTypes, TreeTyped, SkillCallsTyped
<1>2. \A c \in SkillCalls :
       /\ skillCall[c].pc \in {"new", "submitting", "waiting", "applying", "writing", "moving", "discarding", "done", "cut"}
       /\ skillCall[c].op \in SkillOps /\ skillCall[c].who \in Requesters \cup {Maintainer}
       /\ skillCall[c].slug \in SUBSET Slugs /\ skillCall[c].to \in SUBSET Slugs
  BY <1>1 DEF SkillCallRecords
<1> QED
  BY <1>1, <1>2 DEF SkillTypes, SkillsTypeOK, SkillFolders
----------------------------------------------------------------------------
(* The proxies: the tokens, and the admin calls that change them.           *)

AdminShape == [pc : {"idle", "called", "changed", "writing", "replied", "failed"}, op : {"add", "remove"},
               token : Tokens \cup {Unset}, snapshot : SUBSET Tokens]

(* The proxy's side: an admin call that has arrived is about a token.       *)
ProxyTyped ==
  /\ accepted \subseteq Tokens /\ tokensFile \subseteq Tokens
  /\ admin \in [AdminThreads -> AdminShape]
  /\ \A a \in AdminThreads : admin[a].pc # "idle" => admin[a].token \in Tokens
  /\ proxyStarts \in Nat
AgesTyped == old \subseteq Tokens /\ issued \subseteq Tokens
AccessTypes == ProxyTyped /\ AgesTyped

LEMMA AdminCallsAre ==
  /\ NoAdminCall \in AdminShape /\ NoAdminCall.pc = "idle"
  /\ \A o \in {"add", "remove"}, t \in Tokens :
       AdminCall("called", o, t, {}) \in AdminShape /\ AdminCall("called", o, t, {}).token = t
BY DEF NoAdminCall, AdminCall, AdminShape

LEMMA AdminIsSet ==
  ASSUME ProxyTyped, NEW a \in AdminThreads, NEW x \in AdminShape, x.pc # "idle" => x.token \in Tokens,
         admin' = [admin EXCEPT ![a] = x], accepted' \subseteq Tokens, tokensFile' \subseteq Tokens, proxyStarts' \in Nat
  PROVE  ProxyTyped'
BY DEF ProxyTyped

LEMMA AdminGoes ==
  ASSUME ProxyTyped, NEW a \in AdminThreads, admin[a].pc # "idle",
         NEW l \in {"changed", "writing", "replied", "failed"}, NEW s \in SUBSET Tokens,
         \/ admin' = [admin EXCEPT ![a].pc = l]
         \/ admin' = [admin EXCEPT ![a].pc = l, ![a].snapshot = s],
         accepted' \subseteq Tokens, tokensFile' \subseteq Tokens, proxyStarts' \in Nat
  PROVE  ProxyTyped'
<1>1. admin \in [AdminThreads -> AdminShape] /\ admin[a] \in AdminShape /\ admin[a].token \in Tokens
  BY DEF ProxyTyped
<1>2. CASE admin' = [admin EXCEPT ![a].pc = l]
  <2> DEFINE x == [admin[a] EXCEPT !.pc = l]
  <2>1. x \in AdminShape /\ x.token = admin[a].token
    BY <1>1 DEF AdminShape
  <2>2. admin' = [admin EXCEPT ![a] = x]
    BY <1>1, <1>2
  <2> HIDE DEF x
  <2> QED
    BY <1>1, <2>1, <2>2, AdminIsSet
<1>3. CASE admin' = [admin EXCEPT ![a].pc = l, ![a].snapshot = s]
  <2> DEFINE x == [admin[a] EXCEPT !.pc = l, !.snapshot = s]
  <2>1. x \in AdminShape /\ x.token = admin[a].token
    BY <1>1 DEF AdminShape
  <2>2. admin' = [admin EXCEPT ![a] = x]
    BY <1>1, <1>3
  <2> HIDE DEF x
  <2> QED
    BY <1>1, <2>1, <2>2, AdminIsSet
<1> QED
  BY <1>2, <1>3

LEMMA AdminArrivesKeeps ==
  ASSUME ProxyTyped, NEW a \in AdminThreads, NEW o \in {"add", "remove"}, NEW t \in Tokens, AdminArrives(a, o, t)
  PROVE  ProxyTyped'
<1>1. /\ UNCHANGED <<accepted, tokensFile, proxyStarts>>
      /\ admin' = [admin EXCEPT ![a] = AdminCall("called", o, t, {})]
  BY DEF AdminArrives
<1> QED
  BY <1>1, AdminCallsAre, AdminIsSet DEF ProxyTyped

LEMMA AccessTypesStep == AccessInv /\ AccessTypes /\ [AccessNext]_accessVars => AccessTypes'
<1> SUFFICES ASSUME AccessInv, AccessTypes, [AccessNext]_accessVars PROVE AccessTypes'
  OBVIOUS
<1>0. /\ ProxyTyped /\ AgesTyped
      /\ accepted \subseteq Tokens /\ tokensFile \subseteq Tokens /\ proxyStarts \in Nat
      /\ admin \in [AdminThreads -> AdminShape]
      /\ \A a \in AdminThreads : admin[a] \in AdminShape /\ (admin[a].pc # "idle" => admin[a].token \in Tokens)
      /\ proxyCache \in [Boxes -> Tokens \cup {Unset}] /\ box \in Boxes
  BY DEF AccessTypes, ProxyTyped, AccessInv, AccessTyped
<1>a. ASSUME UNCHANGED proxyVars PROVE ProxyTyped'
  BY <1>0, <1>a DEF proxyVars, ProxyTyped
<1>b. ASSUME UNCHANGED <<old, issued>> PROVE AgesTyped'
  BY <1>0, <1>b DEF AgesTyped
<1>1. ASSUME NEW a \in AdminThreads, ChangeAllowlist(a) PROVE AccessTypes'
  <2>1. /\ admin[a].pc = "called" /\ admin' = [admin EXCEPT ![a].pc = "changed"]
        /\ accepted' \subseteq accepted \cup {admin[a].token} /\ UNCHANGED <<tokensFile, old, issued, proxyStarts>>
    BY <1>1 DEF ChangeAllowlist
  <2>2. ProxyTyped'
    BY <1>0, <2>1, AdminGoes
  <2> QED
    BY <1>b, <2>1, <2>2 DEF AccessTypes
<1>2. ASSUME NEW a \in AdminThreads, SnapshotTokens(a) PROVE AccessTypes'
  <2>1. /\ admin[a].pc = "changed" /\ admin' = [admin EXCEPT ![a].pc = "writing", ![a].snapshot = accepted]
        /\ UNCHANGED <<accepted, tokensFile, old, issued, proxyStarts>>
    BY <1>2 DEF SnapshotTokens
  <2>2. ProxyTyped'
    BY <1>0, <2>1, AdminGoes
  <2> QED
    BY <1>b, <2>1, <2>2 DEF AccessTypes
<1>3. ASSUME NEW a \in AdminThreads, WriteTokens(a) PROVE AccessTypes'
  <2>1. /\ admin[a].pc = "writing" /\ admin' = [admin EXCEPT ![a].pc = "replied"]
        /\ tokensFile' = admin[a].snapshot /\ UNCHANGED <<accepted, old, issued, proxyStarts>>
    BY <1>3 DEF WriteTokens
  <2>2. admin[a].snapshot \subseteq Tokens
    BY <1>0 DEF AdminShape
  <2>3. ProxyTyped'
    BY <1>0, <2>1, <2>2, AdminGoes
  <2> QED
    BY <1>b, <2>1, <2>3 DEF AccessTypes
<1>4. ASSUME NEW a \in AdminThreads, admin' = [admin EXCEPT ![a] = NoAdminCall],
             UNCHANGED <<accepted, tokensFile, proxyStarts>>
      PROVE  ProxyTyped'
  BY <1>0, <1>4, AdminCallsAre, AdminIsSet
<1>5. ASSUME NEW a \in AdminThreads, Revoked(a) PROVE AccessTypes'
  BY <1>b, <1>4, <1>5 DEF Revoked, AccessTypes
<1>6. CASE ProxyRestarts
  <2>1. /\ accepted' = tokensFile /\ proxyStarts' = proxyStarts + 1 /\ UNCHANGED <<tokensFile, old, issued>>
        /\ admin' = [a \in AdminThreads |-> IF admin[a].pc = "idle" THEN NoAdminCall ELSE [admin[a] EXCEPT !.pc = "failed"]]
    BY <1>6 DEF ProxyRestarts
  <2>2. \A a \in AdminThreads : /\ [admin[a] EXCEPT !.pc = "failed"] \in AdminShape
                                /\ [admin[a] EXCEPT !.pc = "failed"].token = admin[a].token
    BY <1>0 DEF AdminShape
  <2>3. admin' \in [AdminThreads -> AdminShape] /\ \A a \in AdminThreads : admin'[a].pc # "idle" => admin'[a].token \in Tokens
    BY <1>0, <2>1, <2>2, AdminCallsAre
  <2>4. ProxyTyped'
    BY <1>0, <2>1, <2>3 DEF ProxyTyped
  <2> QED
    BY <1>b, <2>1, <2>4 DEF AccessTypes
<1>7. ASSUME NEW t \in Tokens, TokenAges(t) PROVE AccessTypes'
  <2>1. /\ accepted' \subseteq accepted /\ tokensFile' \subseteq tokensFile /\ old' \subseteq old \cup {t}
        /\ UNCHANGED <<issued, admin, proxyStarts>>
    BY <1>7 DEF TokenAges
  <2>2. ProxyTyped'
    BY <1>0, <2>1 DEF ProxyTyped
  <2> QED
    BY <1>0, <2>1, <2>2 DEF AccessTypes, AgesTyped
<1>8. ASSUME NEW r \in CodeRuns, Enter(r) \/ ReuseToken(r) \/ RegisterRun(r) \/ WriteScript(r) \/ UnregisterRun(r)
      PROVE  AccessTypes'
  BY <1>a, <1>b, <1>8 DEF Enter, ReuseToken, RegisterRun, WriteScript, UnregisterRun, AccessTypes
<1>9. ASSUME NEW r \in CodeRuns, NEW a \in AdminThreads, TokenIssued(r, a) PROVE AccessTypes'
  BY <1>b, <1>4, <1>9 DEF TokenIssued, AccessTypes
<1>10. ASSUME NEW r \in CodeRuns, NEW a \in AdminThreads, NEW t \in Tokens, IssueToken(r, a, t) PROVE AccessTypes'
  <2>1. AdminArrives(a, "add", t) /\ issued' = issued \cup {t} /\ UNCHANGED old
    BY <1>10 DEF IssueToken
  <2>2. ProxyTyped'
    BY <1>0, <2>1, AdminArrivesKeeps
  <2> QED
    BY <1>0, <2>1, <2>2 DEF AccessTypes, AgesTyped
<1>11. ASSUME NEW b \in Boxes, NEW a \in AdminThreads, RecycleBox(b, a) PROVE AccessTypes'
  <2>1. /\ UNCHANGED <<old, issued>>
        /\ IF proxyCache[box] = Unset THEN UNCHANGED proxyVars ELSE AdminArrives(a, "remove", proxyCache[box])
    BY <1>11 DEF RecycleBox
  <2>2. proxyCache[box] # Unset => proxyCache[box] \in Tokens
    BY <1>0
  <2>3. ProxyTyped'
    BY <1>0, <1>a, <2>1, <2>2, AdminArrivesKeeps
  <2> QED
    BY <1>b, <2>1, <2>3 DEF AccessTypes
<1>12. ASSUME NEW q \in Requests,
              \/ \E r \in CodeRuns, k \in RequestKinds : SendRequest(q, r, k)
              \/ Admit(q) \/ Relay(q) \/ LookUp(q) \/ ToolAnswers(q)
       PROVE  AccessTypes'
  <2>1. UNCHANGED proxyVars /\ UNCHANGED <<old, issued>>
    BY <1>12 DEF SendRequest, Admit, Relay, LookUp, ToolAnswers, RequestGoes
  <2> QED
    BY <1>a, <1>b, <2>1 DEF AccessTypes
<1>13. CASE UNCHANGED accessVars
  BY <1>a, <1>b, <1>13 DEF accessVars, proxyVars, AccessTypes
<1> QED
  BY <1>1, <1>2, <1>3, <1>5, <1>6, <1>7, <1>8, <1>9, <1>10, <1>11, <1>12, <1>13 DEF AccessNext

LEMMA AccessTypesStart == AccessInit => AccessTypes
BY AdminCallsAre DEF AccessInit, AccessTypes, ProxyTyped, AgesTyped

LEMMA AccessTypesHold == AccessInv /\ AccessTypes => AccessTypeOK
BY DEF AccessInv, AccessTyped, AccessTypes, ProxyTyped, AgesTyped, AccessTypeOK, AdminShape, CodeRunShape, RequestShape

----
(* Mentions: the rest of what the listeners share.                          *)
MentionsRest ==
  /\ channel \in [kind : {"none", "ordinary", "code"}, bots : SUBSET {"coolton", "app"}]
  /\ isCodeChannel \in BOOLEAN /\ expected \in BOOLEAN
  /\ creation \in {"none", "linked", "created", "invited", "activating", "handedoff", "over"}
  /\ engaged \subseteq Threads /\ inHuddle \subseteq Threads
  /\ claimed \subseteq Posts /\ unclaimed \subseteq Posts
  /\ mentionSpent \in [{"news", "late", "reboots"} -> Nat]

LEMMA ChannelsAre ==
  ASSUME NEW c \in [kind : {"none", "ordinary", "code"}, bots : SUBSET {"coolton", "app"}]
  PROVE  [c EXCEPT !.bots = @ \cup {"coolton"}] \in [kind : {"none", "ordinary", "code"}, bots : SUBSET {"coolton", "app"}]
OBVIOUS

LEMMA SpendsMention ==
  ASSUME MentionsRest, NEW k \in {"news", "late", "reboots"}, NEW max, MentionEvent(k, max)
  PROVE  mentionSpent' \in [{"news", "late", "reboots"} -> Nat]
BY DEF MentionsRest, MentionEvent

LEMMA MentionsRestStep == MentionsRest /\ [MentionsNext]_mentionVars => MentionsRest'
<1> SUFFICES ASSUME MentionsRest, [MentionsNext]_mentionVars PROVE MentionsRest'
  OBVIOUS
<1>0. \A m \in Posts : m \in Threads
  BY DEF Threads
<1>1. ASSUME NEW m \in Posts,
             \/ \E t \in Threads, x \in Texts : Write(m, t, x)
             \/ HandToCoolton(m) \/ HearMention(m) \/ HearCodeBot(m) \/ DropMessage(m) \/ TakeMessage(m)
             \/ \E l \in Listeners : FindConversation(m, l)
      PROVE  MentionsRest'
  <2>1. UNCHANGED <<channel, isCodeChannel, creation, expected, engaged, inHuddle, claimed, unclaimed, mentionSpent>>
    BY <1>1 DEF Write, HandToCoolton, HearMention, HearCodeBot, DropMessage, TakeMessage, FindConversation, Quietly
  <2> QED
    BY <2>1 DEF MentionsRest
<1>2. ASSUME NEW m \in Posts, AddCoolton(m) PROVE MentionsRest'
  <2>1. channel' \in [kind : {"none", "ordinary", "code"}, bots : SUBSET {"coolton", "app"}]
    BY <1>2, ChannelsAre DEF AddCoolton, MentionsRest
  <2> QED
    BY <1>2, <2>1 DEF AddCoolton, MentionsRest
<1>3. ASSUME NEW m \in Posts, RegisterIfCodeChannel(m) PROVE MentionsRest'
  <2>1. isCodeChannel' \in BOOLEAN
    BY <1>3 DEF RegisterIfCodeChannel, MentionsRest
  <2> QED
    BY <1>3, <2>1 DEF RegisterIfCodeChannel, MentionsRest
<1>4. ASSUME NEW m \in Posts, NEW l \in Listeners, ClaimMention(m, l) PROVE MentionsRest'
  BY <1>4 DEF ClaimMention, MentionsRest
<1>5. ASSUME NEW m \in Posts, NEW l \in Listeners, AnswerMention(m, l) PROVE MentionsRest'
  <2>1. engaged' \subseteq engaged \cup {m}
    BY <1>5 DEF AnswerMention
  <2> QED
    BY <1>0, <1>5, <2>1 DEF AnswerMention, MentionsRest
<1>6. ASSUME NEW m \in Posts, SlackOpens(m) PROVE MentionsRest'
  BY <1>6 DEF SlackOpens, MentionsRest
<1>7. ASSUME NEW m \in Posts, ForgetClaim(m) PROVE MentionsRest'
  <2>1. claimed' \subseteq claimed /\ unclaimed' \subseteq unclaimed \cup {m}
    BY <1>7 DEF ForgetClaim
  <2> QED
    BY <1>7, <2>1, SpendsMention DEF ForgetClaim, MentionsRest
<1>8. ASSUME NEW t \in Threads, SetEngaged(t) \/ HuddleChanges(t) PROVE MentionsRest'
  <2>1. /\ engaged' \subseteq engaged \cup {t} /\ inHuddle' \subseteq inHuddle \cup {t}
        /\ MentionEvent("news", MaxNews)
        /\ UNCHANGED <<channel, isCodeChannel, creation, expected, claimed, unclaimed>>
    BY <1>8 DEF SetEngaged, HuddleChanges
  <2> QED
    BY <2>1, SpendsMention DEF MentionsRest
<1>9. CASE CreateCodeChannel
  <2>1. channel' \in [kind : {"none", "ordinary", "code"}, bots : SUBSET {"coolton", "app"}]
    BY <1>9 DEF CreateCodeChannel
  <2> QED
    BY <1>9, <2>1 DEF CreateCodeChannel, MentionsRest
<1>10. CASE InviteCoolton
  <2>1. channel' \in [kind : {"none", "ordinary", "code"}, bots : SUBSET {"coolton", "app"}]
    BY <1>10, ChannelsAre DEF InviteCoolton, MentionsRest
  <2> QED
    BY <1>10, <2>1 DEF InviteCoolton, MentionsRest
<1>11. CASE RegisterCodeChannel \/ ActivateCodeChannel
  BY <1>11 DEF RegisterCodeChannel, ActivateCodeChannel, MentionsRest
<1>12. CASE ArchiveCodeChannel
  BY <1>12, SpendsMention DEF ArchiveCodeChannel, MentionsRest
<1>13. CASE RebootListeners
  <2>1. /\ claimed' = {} /\ inHuddle' = {} /\ expected' = FALSE /\ unclaimed' \subseteq unclaimed \cup Posts
        /\ creation' \in {"none", "over"} /\ MentionEvent("reboots", MaxReboots)
        /\ UNCHANGED <<channel, isCodeChannel, engaged>>
    BY <1>13 DEF RebootListeners
  <2> QED
    BY <2>1, SpendsMention DEF MentionsRest
<1>14. CASE UNCHANGED mentionVars
  BY <1>14 DEF mentionVars, MentionsRest
<1> QED
  BY <1>1, <1>2, <1>3, <1>4, <1>5, <1>6, <1>7, <1>8, <1>9, <1>10, <1>11, <1>12, <1>13, <1>14
  DEF MentionsNext, ListenerStep

LEMMA MentionsRestStart == MentionsInit => MentionsRest
<1> SUFFICES ASSUME MentionsInit PROVE MentionsRest
  OBVIOUS
<1>1. channel \in [kind : {"none", "ordinary", "code"}, bots : SUBSET {"coolton", "app"}]
  <2>1. ASSUME NEW k \in {"ordinary", "code"}, NEW b \in {{}, {"app"}}
        PROVE  [kind |-> k, bots |-> {"coolton"} \cup b] \in
                 [kind : {"none", "ordinary", "code"}, bots : SUBSET {"coolton", "app"}]
    OBVIOUS
  <2> QED
    BY <2>1 DEF MentionsInit
<1> QED
  BY <1>1 DEF MentionsInit, MentionsRest, Threads

LEMMA MentionsTypesHold == MentionsInv /\ MentionsRest => MentionsTypeOK
BY DEF MentionsInv, MentionTypes, MentionsRest, MentionsTypeOK
----------------------------------------------------------------------------
(* The provider chain: what its orders are made of.                         *)

(* What the recursive function in Sifted is: each step of it.               *)
SiftStep(s, T, g, i) ==
  IF i = 0 THEN <<>> ELSE IF s[i] \in T THEN Append(g[i - 1], s[i]) ELSE g[i - 1]
Sifts(s, T, g, n) == g = [i \in 0..n |-> SiftStep(s, T, g, i)]

LEMMA SomethingSifts == ASSUME NEW s, NEW T, NEW n \in Nat PROVE \E g : Sifts(s, T, g, n)
<1> DEFINE Bad == {k \in Nat : ~\E g : Sifts(s, T, g, k)}
<1> SUFFICES ASSUME Bad # {} PROVE FALSE
  OBVIOUS
<1>1. PICK k \in Bad : \A j \in Bad : k <= j
  BY LeastNumber
<1>2. k # 0
  <2> DEFINE g == [i \in 0..0 |-> <<>>]
  <2>1. g = [i \in 0..0 |-> SiftStep(s, T, g, i)]
    BY DEF SiftStep
  <2> HIDE DEF g
  <2> QED
    BY <2>1 DEF Sifts
<1>3. k \in Nat /\ k - 1 \in Nat /\ k - 1 \notin Bad
  BY <1>1, <1>2
<1>4. PICK g : Sifts(s, T, g, k - 1)
  BY <1>3
<1> DEFINE h == [i \in 0..k |-> IF i = k THEN SiftStep(s, T, g, k) ELSE g[i]]
<1>5. \A i \in 0..(k - 1) : h[i] = g[i] /\ g[i] = SiftStep(s, T, g, i)
  BY <1>3, <1>4 DEF Sifts
<1>6. \A i \in 0..k : SiftStep(s, T, g, i) = SiftStep(s, T, h, i)
  <2> SUFFICES ASSUME NEW i \in 0..k PROVE SiftStep(s, T, g, i) = SiftStep(s, T, h, i)
    OBVIOUS
  <2>1. i = 0 \/ h[i - 1] = g[i - 1]
    BY <1>3, <1>5
  <2> QED
    BY <2>1 DEF SiftStep
<1>7. \A i \in 0..k : h[i] = SiftStep(s, T, g, i)
  <2>1. \A i \in 0..k : i = k \/ i \in 0..(k - 1)
    BY <1>3
  <2>2. h[k] = SiftStep(s, T, g, k)
    BY <1>3
  <2> HIDE DEF h
  <2> QED
    BY <1>5, <2>1, <2>2
<1>8. h = [i \in 0..k |-> SiftStep(s, T, h, i)]
  BY <1>6, <1>7
<1> HIDE DEF h
<1> QED
  BY <1>1, <1>8 DEF Sifts

LEMMA SiftedIs == ASSUME NEW s, NEW T, Len(s) \in Nat
                  PROVE  \E g : Sifts(s, T, g, Len(s)) /\ Sifted(s, T) = g[Len(s)]
<1> DEFINE g == CHOOSE g : g = [i \in 0..Len(s) |-> IF i = 0 THEN <<>> ELSE IF s[i] \in T THEN Append(g[i - 1], s[i]) ELSE g[i - 1]]
<1>1. Sifted(s, T) = g[Len(s)]
  BY DEF Sifted
<1>2. \E h : h = [i \in 0..Len(s) |-> IF i = 0 THEN <<>> ELSE IF s[i] \in T THEN Append(h[i - 1], s[i]) ELSE h[i - 1]]
  <2>1. PICK h : Sifts(s, T, h, Len(s))
    BY SomethingSifts
  <2> QED
    BY <2>1 DEF Sifts, SiftStep
<1>3. g = [i \in 0..Len(s) |-> IF i = 0 THEN <<>> ELSE IF s[i] \in T THEN Append(g[i - 1], s[i]) ELSE g[i - 1]]
  BY <1>2
<1> HIDE DEF g
<1> QED
  BY <1>1, <1>3 DEF Sifts, SiftStep

(* What is left of a sequence is in T, and is empty only when none of it is.*)
LEMMA SiftedKeeps ==
  ASSUME NEW S, NEW s \in Seq(S), NEW T
  PROVE  /\ Sifted(s, T) \in Seq(S \cap T)
         /\ (\E i \in 1..Len(s) : s[i] \in T) => Sifted(s, T) # <<>>
<1>0. Len(s) \in Nat /\ \A i \in 1..Len(s) : s[i] \in S
  OBVIOUS
<1>1. PICK g : Sifts(s, T, g, Len(s)) /\ Sifted(s, T) = g[Len(s)]
  BY <1>0, SiftedIs
<1>2. \A i \in 0..Len(s) : g[i] = SiftStep(s, T, g, i)
  BY <1>1 DEF Sifts
<1> DEFINE Good(i) == g[i] \in Seq(S \cap T) /\ ((\E j \in 1..i : s[j] \in T) => g[i] # <<>>)
           Bad == {i \in 0..Len(s) : ~Good(i)}
<1>3. ASSUME Bad # {} PROVE FALSE
  <2>a. Bad \in SUBSET Nat
    BY <1>0
  <2>b. Good(0)
    <3>1. g[0] = <<>> /\ <<>> \in Seq(S \cap T) /\ 1..0 = {}
      BY <1>0, <1>2 DEF SiftStep
    <3> QED
      BY <3>1
  <2>1. PICK k \in Bad : \A j \in Bad : k <= j
    <3> HIDE DEF Bad
    <3> QED
      BY <1>3, <2>a, LeastNumber
  <2>2. k # 0
    BY <2>1, <2>b
  <2>3. k \in 1..Len(s) /\ k - 1 \in 0..Len(s) /\ Good(k - 1)
    BY <1>0, <2>1, <2>2
  <2>4. g[k] = IF s[k] \in T THEN Append(g[k - 1], s[k]) ELSE g[k - 1]
    BY <1>2, <2>3 DEF SiftStep
  <2>5. s[k] \in T => Append(g[k - 1], s[k]) \in Seq(S \cap T) /\ Append(g[k - 1], s[k]) # <<>>
    BY <1>0, <2>3
  <2>6. s[k] \notin T /\ (\E j \in 1..k : s[j] \in T) => \E j \in 1..(k - 1) : s[j] \in T
    BY <2>3
  <2>7. Good(k)
    BY <2>3, <2>4, <2>5, <2>6
  <2> QED
    BY <2>1, <2>7
<1>4. Good(Len(s))
  BY <1>0, <1>3
<1> QED
  BY <1>1, <1>4

----------------------------------------------------------------------------
(* A model the chain names has a family with a key, and a turn knows it.    *)
Keyed == {m \in Models : FamilyKeys[Family[m]] # <<>>} \cup {Byok}

FrameShape ==
  [pc : {"idle", "skip", "prefer", "trying", "rekeying", "failed"}, kind : Kinds \cup {"plain"},
   order : Seq(Keyed), at : Nat, attempt : 1..MaxRetries, keys : [Families -> Keys \cup {NoModel}],
   out : SUBSET Families, called : SUBSET (Models \cup {Byok})]

FrameTyped(r) ==
  /\ r \in FrameShape
  /\ r.pc # "idle" => /\ r.at \in 1..Len(r.order)
                      /\ \A f \in Families : FamilyKeys[f] # <<>> => r.keys[f] \in Keys

FramesTyped == turn \in [Turns -> FrameShape] /\ \A t \in Turns : FrameTyped(turn[t])

CacheTyped ==
  /\ working \in Models \cup {NoModel}
  /\ dead \subseteq Named /\ deadFamilies \subseteq Families /\ outKeys \subseteq Keys

OthersTyped ==
  /\ probe \in [pc : {"idle", "probing"}, good : SUBSET Models, bad : SUBSET Models]
  /\ side \in [pc : {"idle", "rekeying"}, family : SUBSET Families, key : SUBSET Keys]
  /\ warned \subseteq Turns
  /\ chainSpent \in [{"runs", "others"} -> Nat]

EndpointsTyped ==
  /\ endpoints \subseteq Endpoints
  /\ textEndpoint \in endpoints \cup {NoModel} /\ imageEndpoint \in endpoints \cup {NoModel}

ChainTypes == FramesTyped /\ CacheTyped /\ OthersTyped /\ EndpointsTyped

LEMMA KeysAre ==
  /\ \A f \in Families : FamilyKeys[f] \in Seq(Keys) /\ (FamilyKeys[f] # <<>> => Head(FamilyKeys[f]) \in Keys)
  /\ \A f \in Families : \A X : Without(FamilyKeys[f], X) \in Seq(Keys)
<1>1. ASSUME NEW f \in Families PROVE FamilyKeys[f] \in Seq(Keys)
  BY ProviderChainAssumption
<1>2. ASSUME NEW f \in Families, NEW X PROVE Without(FamilyKeys[f], X) \in Seq(Keys)
  <2>1. Without(FamilyKeys[f], X) \in Seq(Keys \cap (Range(FamilyKeys[f]) \ X))
    BY <1>1, SiftedKeeps DEF Without
  <2> QED
    BY <2>1
<1> QED
  BY <1>1, <1>2

LEMMA HeadOfSeq == ASSUME NEW S, NEW s \in Seq(S), s # <<>> PROVE Head(s) \in S
OBVIOUS

LEMMA UsableAre ==
  /\ \A f \in Families : UsableKeys(f) \in Seq(Keys) /\ (FamilyKeys[f] # <<>> => ApiKey(f) \in Keys)
  /\ ApiKeys \in [Families -> Keys \cup {NoModel}]
  /\ \A f \in Families : FamilyKeys[f] # <<>> => ApiKeys[f] \in Keys
<1>1. ASSUME NEW f \in Families PROVE UsableKeys(f) \in Seq(Keys) /\ (FamilyKeys[f] # <<>> => ApiKey(f) \in Keys)
  <2>1. UsableKeys(f) \in Seq(Keys) /\ FamilyKeys[f] \in Seq(Keys)
    BY KeysAre DEF UsableKeys
  <2> QED
    BY <2>1, HeadOfSeq DEF ApiKey
<1> QED
  BY <1>1 DEF ApiKeys

LEMMA OthersAre ==
  ASSUME NEW f \in Families, NEW k, OtherKeys(f, k) # <<>>
  PROVE  Head(OtherKeys(f, k)) \in Keys
<1>1. UsableKeys(f) \in Seq(Keys)
  BY UsableAre
<1>2. OtherKeys(f, k) \in Seq(Keys \cap (Range(UsableKeys(f)) \ {k}))
  BY <1>1, SiftedKeeps DEF OtherKeys, Without
<1>3. Head(OtherKeys(f, k)) \in Keys \cap (Range(UsableKeys(f)) \ {k})
  BY <1>2, HeadOfSeq
<1> QED
  BY <1>3

----------------------------------------------------------------------------
(* The order a turn's models come in. *)

LEMMA OrderIsTyped == ASSUME NEW k PROVE Own(k) \o Chat(k) \in Seq(Keyed)
<1>1. Chat(k) \in Seq(Models \cap {m \in Models : Serves(m, k)})
  BY ProviderChainAssumption, SiftedKeeps DEF Chat
<1>2. Models \cap {m \in Models : Serves(m, k)} \subseteq Keyed
  BY DEF Serves, Keyed
<1>3. Chat(k) \in Seq(Keyed)
  BY <1>1, <1>2
<1>4. Own(k) \in Seq(Keyed)
  <2>1. Byok \in Keyed
    BY DEF Keyed
  <2>2. <<Byok>> \in Seq(Keyed) /\ <<>> \in Seq(Keyed)
    BY <2>1
  <2> QED
    BY <2>2 DEF Own
<1> QED
  BY <1>3, <1>4

LEMMA SiftedOrder ==
  ASSUME NEW o \in Seq(Keyed), o # <<>>, NEW X
  PROVE  /\ Unless(Without(o, X), o) \in Seq(Keyed) /\ Unless(Without(o, X), o) # <<>>
<1>1. Without(o, X) \in Seq(Keyed \cap (Range(o) \ X))
  BY SiftedKeeps DEF Without
<1> QED
  BY <1>1 DEF Unless

LEMMA PreferredOrder ==
  ASSUME NEW o \in Seq(Keyed), o # <<>>, NEW m
  PROVE  /\ Sifted(o, {m}) \o Without(o, {m}) \in Seq(Keyed)
         /\ Sifted(o, {m}) \o Without(o, {m}) # <<>>
<1>1. Sifted(o, {m}) \in Seq(Keyed) /\ Without(o, {m}) \in Seq(Keyed)
  <2>1. Sifted(o, {m}) \in Seq(Keyed \cap {m}) /\ Without(o, {m}) \in Seq(Keyed \cap (Range(o) \ {m}))
    BY SiftedKeeps DEF Without
  <2> QED
    BY <2>1
<1>2. 1 \in 1..Len(o) /\ o[1] \in Range(o)
  BY DEF Range
<1>3. o[1] = m => Sifted(o, {m}) # <<>>
  BY <1>2, SiftedKeeps
<1>4. o[1] # m => Without(o, {m}) # <<>>
  BY <1>2, SiftedKeeps DEF Without
<1> QED
  BY <1>1, <1>3, <1>4

(* A turn's frame as it moves on. *)
LEMMA FramesMove ==
  ASSUME FramesTyped, NEW t \in Turns, NEW r, FrameTyped(r), turn' = [turn EXCEPT ![t] = r]
  PROVE  FramesTyped'
BY DEF FramesTyped, FrameTyped

LEMMA FrameFieldsAre ==
  ASSUME NEW r, FrameTyped(r)
  PROVE  /\ r.order \in Seq(Keyed) /\ r.at \in Nat /\ r.attempt \in 1..MaxRetries /\ r.out \subseteq Families
         /\ r.called \subseteq Models \cup {Byok} /\ r.keys \in [Families -> Keys \cup {NoModel}]
         /\ r.pc # "idle" => r.at \in 1..Len(r.order) /\ r.order[r.at] \in Keyed
BY DEF FrameTyped, FrameShape

LEMMA NextModelTyped ==
  ASSUME NEW r, FrameTyped(r), r.pc # "idle"
  PROVE  FrameTyped(NextModel(r))
<1> DEFINE later == LaterModels(r)
           next  == CHOOSE i \in later : \A j \in later : i <= j
<1>1. r.order \in Seq(Keyed) /\ r.at \in 1..Len(r.order) /\ later \subseteq 1..Len(r.order) /\ later \in SUBSET Nat
  BY FrameFieldsAre DEF LaterModels
<1>2. CASE later = {}
  <2>1. NextModel(r) = [r EXCEPT !.pc = "failed"]
    BY <1>2 DEF NextModel
  <2> QED
    BY <2>1 DEF FrameTyped, FrameShape
<1>3. CASE later # {}
  <2>1. next \in later
    <3> HIDE DEF later
    <3> QED
      BY <1>1, <1>3, LeastNumber
  <2>2. NextModel(r) = [r EXCEPT !.pc = "trying", !.attempt = 1, !.at = next]
    BY <1>3 DEF NextModel
  <2> HIDE DEF next, later
  <2>3. next \in 1..Len(r.order) /\ next \in Nat /\ 1 \in 1..MaxRetries
    BY <1>1, <2>1, ProviderChainAssumption
  <2> QED
    BY <2>2, <2>3 DEF FrameTyped, FrameShape
<1> QED
  BY <1>2, <1>3

LEMMA NextAttemptTyped ==
  ASSUME NEW r, FrameTyped(r), r.pc # "idle"
  PROVE  FrameTyped(NextAttempt(r))
<1>1. CASE r.attempt = MaxRetries
  BY <1>1, NextModelTyped DEF NextAttempt
<1>2. CASE r.attempt # MaxRetries
  <2>1. NextAttempt(r) = [r EXCEPT !.pc = "trying", !.attempt = r.attempt + 1]
    BY <1>2 DEF NextAttempt
  <2>2. r.attempt + 1 \in 1..MaxRetries
    BY <1>2, FrameFieldsAre, ProviderChainAssumption
  <2> QED
    BY <2>1, <2>2 DEF FrameTyped, FrameShape
<1> QED
  BY <1>1, <1>2

LEMMA ModelIsKeyed ==
  ASSUME FramesTyped, NEW t \in Turns, turn[t].pc # "idle"
  PROVE  /\ FrameTyped(turn[t]) /\ Model(t) \in Models \cup {Byok} /\ Family[Model(t)] \in Families
         /\ Model(t) # Byok => Model(t) \in Models /\ KeyFor(t) \in Keys
<1>1. FrameTyped(turn[t]) /\ Model(t) \in Keyed
  BY FrameFieldsAre DEF FramesTyped, Model
<1>2. Family[Model(t)] \in Families
  BY <1>1, ProviderChainAssumption DEF Keyed, Named
<1>3. Model(t) # Byok => FamilyKeys[Family[Model(t)]] # <<>>
  BY <1>1 DEF Keyed
<1> QED
  BY <1>1, <1>2, <1>3 DEF FrameTyped, KeyFor, Keyed

LEMMA CalledIsTyped ==
  ASSUME FramesTyped, NEW t \in Turns, turn[t].pc = "trying"
  PROVE  FrameTyped(Called(t)) /\ Called(t).pc = "trying"
<1>1. FrameTyped(turn[t]) /\ Model(t) \in Models \cup {Byok}
  BY ModelIsKeyed
<1>2. Called(t) = [turn[t] EXCEPT !.called = turn[t].called \cup {Model(t)}]
  BY DEF Called
<1> QED
  BY <1>1, <1>2 DEF FrameTyped, FrameShape

LEMMA NoFrameIsTyped == FrameTyped(NoFrame)
<1>1. <<>> \in Seq(Keyed) /\ 1 \in 1..MaxRetries /\ NoKeys \in [Families -> Keys \cup {NoModel}]
  BY ProviderChainAssumption DEF NoKeys
<1> QED
  BY <1>1 DEF NoFrame, Frame, FrameTyped, FrameShape

LEMMA BuildingTypes ==
  ASSUME FramesTyped, NEW t \in Turns, NEW k \in Kinds, BuildOrder(t, k)
  PROVE  FramesTyped'
<1> DEFINE o == Own(k) \o Chat(k)
<1>1. o \in Seq(Keyed) /\ o # <<>> /\ turn' = [turn EXCEPT ![t] = Frame("skip", k, o, ApiKeys)]
  BY OrderIsTyped DEF BuildOrder
<1> HIDE DEF o
<1>2. 1 \in 1..Len(o) /\ 1 \in 1..MaxRetries
  BY <1>1, ProviderChainAssumption
<1>3. FrameTyped(Frame("skip", k, o, ApiKeys))
  BY <1>1, <1>2, UsableAre DEF Frame, FrameTyped, FrameShape
<1> QED
  BY <1>1, <1>3, FramesMove

LEMMA ReorderTypes ==
  ASSUME NEW r, FrameTyped(r), r.pc # "idle", r.at = 1, NEW o \in Seq(Keyed), o # <<>>, NEW l \in {"trying", "prefer"}
  PROVE  FrameTyped([r EXCEPT !.order = o, !.pc = l])
<1>1. 1 \in 1..Len(o)
  OBVIOUS
<1> QED
  BY <1>1 DEF FrameTyped, FrameShape

(* The cache, whoever marks what in it. *)
LEMMA MarkingTypes ==
  ASSUME CacheTyped,
         \/ \E m \in Named : MarkDead(m) \/ MarkAlive(m)
         \/ \E f \in Families : MarkFamilyDead(f)
         \/ \E m \in Models : SetWorkingProvider(m)
         \/ \E k \in Keys : MarkKeyOut(k)
         \/ UNCHANGED cacheVars
  PROVE  CacheTyped'
<1>1. ASSUME NEW m \in Named, MarkDead(m) \/ MarkAlive(m) PROVE CacheTyped'
  BY <1>1 DEF CacheTyped, MarkDead, MarkAlive
<1>2. ASSUME NEW f \in Families, MarkFamilyDead(f) PROVE CacheTyped'
  BY <1>2 DEF CacheTyped, MarkFamilyDead
<1>3. ASSUME NEW m \in Models, SetWorkingProvider(m) PROVE CacheTyped'
  BY <1>3 DEF CacheTyped, SetWorkingProvider
<1>4. ASSUME NEW k \in Keys, MarkKeyOut(k) PROVE CacheTyped'
  BY <1>4 DEF CacheTyped, MarkKeyOut
<1>5. CASE UNCHANGED cacheVars
  BY <1>5 DEF CacheTyped, cacheVars
<1> QED
  BY <1>1, <1>2, <1>3, <1>4, <1>5

LEMMA GivingUpTypes ==
  ASSUME FramesTyped, CacheTyped, warned \subseteq Turns, NEW t \in Turns, NEW r, FrameTyped(r), r.pc # "idle",
         NEW f \in Families, GiveUpFamily(t, r, f)
  PROVE  FramesTyped' /\ CacheTyped' /\ warned' \subseteq Turns
<1> DEFINE s == [r EXCEPT !.out = r.out \cup {f}]
<1>1. turn' = [turn EXCEPT ![t] = NextModel(s)] /\ MarkFamilyDead(f)
      /\ warned' = (IF f = Hcai THEN warned \cup {t} ELSE warned)
  BY DEF GiveUpFamily, GoesOn
<1>2. FrameTyped(s) /\ s.pc # "idle"
  BY DEF FrameTyped, FrameShape
<1> HIDE DEF s
<1>3. FrameTyped(NextModel(s))
  BY <1>2, NextModelTyped
<1> QED
  BY <1>1, <1>3, FramesMove, MarkingTypes

LEMMA TurnStepTypes ==
  ASSUME ChainInv, ChainTypes, NEW t \in Turns, TurnStep(t)
  PROVE  FramesTyped' /\ CacheTyped' /\ warned' \subseteq Turns
<1>0. FramesTyped /\ CacheTyped /\ warned \subseteq Turns /\ FrameTyped(turn[t])
  BY DEF ChainTypes, OthersTyped, FramesTyped
<1>1. ASSUME NEW k \in Kinds, BuildOrder(t, k) PROVE FramesTyped' /\ CacheTyped' /\ warned' \subseteq Turns
  BY <1>0, <1>1, BuildingTypes, MarkingTypes DEF BuildOrder
<1>a. turn[t].pc \in {"skip", "prefer"} => turn[t].at = 1 /\ turn[t].order \in Seq(Keyed) /\ turn[t].order # <<>>
  <2>1. turn[t].pc \in {"skip", "prefer"} => turn[t].at = 1
    BY DEF ChainInv, TurnsWalk, WalkIsComplete
  <2>2. turn[t].pc \in {"skip", "prefer"} => turn[t].order \in Seq(Keyed) /\ turn[t].at \in 1..Len(turn[t].order)
    BY <1>0, FrameFieldsAre
  <2> QED
    BY <2>1, <2>2
<1>2. CASE SkipDeadFamilies(t)
  <2> DEFINE o == Unless(Without(turn[t].order, InDeadFamily), turn[t].order)
             l == IF Head(o) = Byok \/ turn[t].kind = "tagged" THEN "trying" ELSE "prefer"
             r == [turn[t] EXCEPT !.order = o, !.pc = l]
  <2>1. turn[t].pc = "skip" /\ turn' = [turn EXCEPT ![t].order = o, ![t].pc = l] /\ UNCHANGED <<cacheVars, warned>>
    BY <1>2 DEF SkipDeadFamilies
  <2>2. o \in Seq(Keyed) /\ o # <<>>
    BY <1>a, <2>1, SiftedOrder
  <2>3. l \in {"trying", "prefer"}
    OBVIOUS
  <2> HIDE DEF o, l
  <2>4. FrameTyped(r)
    BY <1>0, <1>a, <2>1, <2>2, <2>3, ReorderTypes
  <2>5. turn' = [turn EXCEPT ![t] = r]
    BY <1>0, <2>1 DEF FramesTyped
  <2> HIDE DEF r
  <2> QED
    BY <1>0, <2>1, <2>4, <2>5, FramesMove, MarkingTypes
<1>3. CASE SkipDeadProviders(t)
  <2> DEFINE alive == Unless(Without(turn[t].order, dead), turn[t].order)
             o == Sifted(alive, {working}) \o Without(alive, {working})
             r == [turn[t] EXCEPT !.order = o, !.pc = "trying"]
  <2>1. turn[t].pc = "prefer" /\ turn' = [turn EXCEPT ![t].order = o, ![t].pc = "trying"] /\ UNCHANGED <<cacheVars, warned>>
    BY <1>3 DEF SkipDeadProviders
  <2>2. alive \in Seq(Keyed) /\ alive # <<>>
    BY <1>a, <2>1, SiftedOrder
  <2> HIDE DEF alive
  <2>3. o \in Seq(Keyed) /\ o # <<>>
    BY <2>2, PreferredOrder
  <2> HIDE DEF o
  <2>4. FrameTyped(r)
    BY <1>0, <1>a, <2>1, <2>3, ReorderTypes
  <2>5. turn' = [turn EXCEPT ![t] = r]
    BY <1>0, <2>1 DEF FramesTyped
  <2> HIDE DEF r
  <2> QED
    BY <1>0, <2>1, <2>4, <2>5, FramesMove, MarkingTypes
<1>4. CASE Answers(t)
  <2>1. turn[t].pc = "trying" /\ turn' = [turn EXCEPT ![t] = NoFrame] /\ UNCHANGED warned
        /\ (UNCHANGED cacheVars \/ (Model(t) # Byok /\ (MarkAlive(Model(t)) \/ SetWorkingProvider(Model(t)))))
    BY <1>4 DEF Answers, Calls, GoesOn
  <2>2. Model(t) # Byok => Model(t) \in Models /\ Model(t) \in Named
    BY <1>0, <2>1, ModelIsKeyed DEF Named
  <2> QED
    BY <1>0, <2>1, <2>2, NoFrameIsTyped, FramesMove, MarkingTypes
<1>5. CASE Raises(t)
  BY <1>0, <1>5, NoFrameIsTyped, FramesMove, MarkingTypes DEF Raises, GoesOn
<1>6. CASE KeyIsOut(t)
  <2> DEFINE r == [Called(t) EXCEPT !.pc = "rekeying"]
  <2>1. turn[t].pc = "trying" /\ Model(t) # Byok /\ MarkKeyOut(KeyFor(t)) /\ UNCHANGED warned
        /\ turn' = [turn EXCEPT ![t] = r]
    BY <1>6 DEF KeyIsOut, Calls, GoesOn
  <2>2. FrameTyped(Called(t)) /\ Called(t).pc = "trying" /\ KeyFor(t) \in Keys
    BY <1>0, <2>1, ModelIsKeyed, CalledIsTyped
  <2>3. FrameTyped(r)
    BY <2>2 DEF FrameTyped, FrameShape
  <2> HIDE DEF r
  <2> QED
    BY <1>0, <2>1, <2>2, <2>3, FramesMove, MarkingTypes
<1>7. CASE SwitchKey(t)
  <2> DEFINE f == Family[Model(t)]
             k == Head(OtherKeys(f, KeyFor(t)))
             r == [turn[t] EXCEPT !.keys[f] = k]
  <2>1. turn[t].pc = "rekeying" /\ OtherKeys(f, KeyFor(t)) # <<>> /\ UNCHANGED <<cacheVars, warned>>
        /\ turn' = [turn EXCEPT ![t] = NextAttempt(r)]
    BY <1>7 DEF SwitchKey, GoesOn
  <2>2. f \in Families
    BY <1>0, <2>1, ModelIsKeyed
  <2>3. k \in Keys
    BY <2>1, <2>2, OthersAre
  <2> HIDE DEF f, k
  <2>4. FrameTyped(r) /\ r.pc # "idle"
    BY <1>0, <2>1, <2>2, <2>3 DEF FrameTyped, FrameShape
  <2> HIDE DEF r
  <2>5. FrameTyped(NextAttempt(r))
    BY <2>4, NextAttemptTyped
  <2> QED
    BY <1>0, <2>1, <2>5, FramesMove, MarkingTypes
<1>8. CASE NoKeyLeft(t)
  <2>1. turn[t].pc = "rekeying" /\ GiveUpFamily(t, turn[t], Family[Model(t)])
    BY <1>8 DEF NoKeyLeft
  <2>2. Family[Model(t)] \in Families
    BY <1>0, <2>1, ModelIsKeyed
  <2> QED
    BY <1>0, <2>1, <2>2, GivingUpTypes
<1>9. CASE ProviderIsOut(t)
  <2>1. turn[t].pc = "trying" /\ GiveUpFamily(t, Called(t), Family[Model(t)])
    BY <1>9 DEF ProviderIsOut, Calls
  <2>2. Family[Model(t)] \in Families /\ FrameTyped(Called(t)) /\ Called(t).pc = "trying"
    BY <1>0, <2>1, ModelIsKeyed, CalledIsTyped
  <2> QED
    BY <1>0, <2>1, <2>2, GivingUpTypes
<1>10. CASE HardError(t) \/ RetryableError(t) \/ OtherError(t)
  <2>1. /\ turn[t].pc = "trying" /\ UNCHANGED warned
        /\ \/ turn' = [turn EXCEPT ![t] = NextModel(Called(t))]
           \/ turn' = [turn EXCEPT ![t] = NextAttempt(Called(t))]
        /\ UNCHANGED cacheVars \/ (Model(t) # Byok /\ MarkDead(Model(t)))
    BY <1>10 DEF HardError, RetryableError, OtherError, Calls, GoesOn
  <2>2. FrameTyped(NextModel(Called(t))) /\ FrameTyped(NextAttempt(Called(t)))
    BY <1>0, <2>1, CalledIsTyped, NextModelTyped, NextAttemptTyped
  <2>3. Model(t) # Byok => Model(t) \in Named
    BY <1>0, <2>1, ModelIsKeyed DEF Named
  <2> QED
    BY <1>0, <2>1, <2>2, <2>3, FramesMove, MarkingTypes
<1>11. CASE WarnAtStart(t)
  <2>1. UNCHANGED <<cacheVars, turn>> /\ warned' = warned \cup {t}
    BY <1>11 DEF WarnAtStart
  <2> QED
    BY <1>0, <2>1, MarkingTypes DEF FramesTyped
<1> QED
  BY <1>1, <1>2, <1>3, <1>4, <1>5, <1>6, <1>7, <1>8, <1>9, <1>10, <1>11 DEF TurnStep

LEMMA OtherCounts == ASSUME OthersTyped, Other \/ UNCHANGED chainSpent
                     PROVE  chainSpent' \in [{"runs", "others"} -> Nat]
BY DEF OthersTyped, Other

LEMMA ChainTypesStep == ChainInv /\ ChainTypes /\ [ChainNext]_chainVars => ChainTypes'
<1> SUFFICES ASSUME ChainInv, ChainTypes, [ChainNext]_chainVars PROVE ChainTypes'
  OBVIOUS
<1>0. FramesTyped /\ CacheTyped /\ OthersTyped /\ EndpointsTyped
  BY DEF ChainTypes
<1>a. ASSUME UNCHANGED turn PROVE FramesTyped'
  BY <1>0, <1>a DEF FramesTyped
<1>b. ASSUME UNCHANGED endpointVars PROVE EndpointsTyped'
  BY <1>0, <1>b DEF EndpointsTyped, endpointVars
<1>c. ASSUME UNCHANGED <<probe, side>>, warned' \subseteq Turns, Other \/ UNCHANGED chainSpent PROVE OthersTyped'
  BY <1>0, <1>c, OtherCounts DEF OthersTyped
<1>d. ASSUME Meanwhile, warned' \subseteq Turns PROVE OthersTyped' /\ EndpointsTyped'
  BY <1>b, <1>c, <1>d DEF Meanwhile
<1>1. ASSUME NEW t \in Turns, TurnStep(t) PROVE ChainTypes'
  <2>1. FramesTyped' /\ CacheTyped' /\ warned' \subseteq Turns
    BY <1>1, TurnStepTypes
  <2>2. /\ UNCHANGED <<endpointVars, probe, side>>
        /\ \/ chainSpent' = [chainSpent EXCEPT !.runs = @ + 1]
           \/ Other \/ UNCHANGED chainSpent
    BY <1>1
    DEF TurnStep, BuildOrder, SkipDeadFamilies, SkipDeadProviders, Answers, Raises, KeyIsOut, SwitchKey, NoKeyLeft,
        ProviderIsOut, HardError, RetryableError, OtherError, WarnAtStart, Meanwhile, Quiet
  <2>3. chainSpent' \in [{"runs", "others"} -> Nat]
    BY <1>0, <2>2, OtherCounts DEF OthersTyped
  <2>4. OthersTyped'
    BY <1>0, <2>1, <2>2, <2>3 DEF OthersTyped
  <2> QED
    BY <1>b, <2>1, <2>2, <2>4 DEF ChainTypes
<1>2. CASE StartProbe
  <2>1. probe' = Probe("probing", {}, {}) /\ Other /\ UNCHANGED <<cacheVars, turn, endpointVars, side, warned>>
    BY <1>2 DEF StartProbe
  <2>2. OthersTyped'
    BY <1>0, <2>1, OtherCounts DEF OthersTyped, Probe
  <2> QED
    BY <1>0, <1>a, <1>b, <2>1, <2>2, MarkingTypes DEF ChainTypes
<1>3. ASSUME NEW m \in Models, NEW ok \in BOOLEAN, ProbeModel(m, ok) PROVE ChainTypes'
  <2>1. /\ probe' = IF ok THEN [probe EXCEPT !.good = @ \cup {m}] ELSE [probe EXCEPT !.bad = @ \cup {m}]
        /\ UNCHANGED <<cacheVars, turn, endpointVars, side, warned, chainSpent>>
    BY <1>3 DEF ProbeModel
  <2>2. OthersTyped'
    BY <1>0, <2>1 DEF OthersTyped
  <2> QED
    BY <1>0, <1>a, <1>b, <2>1, <2>2, MarkingTypes DEF ChainTypes
<1>4. CASE ApplyProbe
  <2>1. /\ RefreshFromResults(probe.good, probe.bad) /\ probe' = Probe("idle", {}, {})
        /\ UNCHANGED <<turn, endpointVars, side, warned, chainSpent>>
    BY <1>4 DEF ApplyProbe
  <2>2. probe.good \subseteq Models /\ probe.bad \subseteq Models
    BY <1>0 DEF OthersTyped
  <2>3. probe.good # {} => FirstOf(probe.good) \in Models
    BY <2>2, FirstOfIsOne DEF ChainInv, ProbesAreSettled
  <2>4. CacheTyped'
    BY <1>0, <2>1, <2>2, <2>3 DEF RefreshFromResults, CacheTyped, Named
  <2>5. OthersTyped'
    BY <1>0, <2>1 DEF OthersTyped, Probe
  <2> QED
    BY <1>a, <1>b, <2>1, <2>4, <2>5 DEF ChainTypes
<1>5. ASSUME NEW m \in Named, NEW ok \in BOOLEAN, TestModel(m, ok) PROVE ChainTypes'
  <2>1. (MarkAlive(m) \/ MarkDead(m)) /\ UNCHANGED <<turn, warned>> /\ Meanwhile
    BY <1>5 DEF TestModel
  <2>2. warned' \subseteq Turns
    BY <1>0, <2>1 DEF OthersTyped
  <2> QED
    BY <1>0, <1>a, <1>d, <2>1, <2>2, MarkingTypes DEF ChainTypes
<1>6. ASSUME NEW f \in Families, SideFamilyOut(f) PROVE ChainTypes'
  <2>1. MarkFamilyDead(f) /\ UNCHANGED <<turn, warned>> /\ Meanwhile
    BY <1>6 DEF SideFamilyOut
  <2>2. warned' \subseteq Turns
    BY <1>0, <2>1 DEF OthersTyped
  <2> QED
    BY <1>0, <1>a, <1>d, <2>1, <2>2, MarkingTypes DEF ChainTypes
<1>7. ASSUME NEW f \in Families, NEW k \in Keys, SideKeyOut(f, k) \/ SideRekeys(f, k) PROVE ChainTypes'
  <2>1. /\ MarkKeyOut(k) \/ MarkFamilyDead(f) \/ UNCHANGED cacheVars
        /\ side' = Side("rekeying", {f}, {k}) \/ side' = NoSide
        /\ UNCHANGED <<turn, endpointVars, probe, warned>>
        /\ Other \/ UNCHANGED chainSpent
    BY <1>7 DEF SideKeyOut, SideRekeys
  <2>2. OthersTyped'
    BY <1>0, <2>1, OtherCounts DEF OthersTyped, Side, NoSide
  <2> QED
    BY <1>0, <1>a, <1>b, <2>1, <2>2, MarkingTypes DEF ChainTypes
<1>8. CASE Forget \/ ClearCache
  <2>1. /\ working' \in {working, NoModel} /\ dead' \subseteq dead /\ deadFamilies' \subseteq deadFamilies
        /\ outKeys' \subseteq outKeys /\ warned' \subseteq warned /\ UNCHANGED turn /\ Meanwhile
    BY <1>8 DEF Forget, ClearCache, cacheVars
  <2>2. CacheTyped' /\ warned' \subseteq Turns
    BY <1>0, <2>1 DEF CacheTyped, OthersTyped
  <2> QED
    BY <1>a, <1>d, <2>1, <2>2 DEF ChainTypes
<1>9. CASE EndpointStep
  <2>1. StoreOnly
    BY <1>9 DEF EndpointStep, AddEndpoint, DeleteEndpoint, SetTextEndpoint, SetImageEndpoint
  <2>2. FramesTyped' /\ CacheTyped' /\ OthersTyped'
    <3>1. Other /\ UNCHANGED <<cacheVars, turn, probe, side, warned>>
      BY <2>1 DEF StoreOnly
    <3>2. warned' \subseteq Turns
      BY <1>0, <3>1 DEF OthersTyped
    <3> QED
      BY <1>0, <1>a, <1>c, <3>1, <3>2, MarkingTypes
  <2>3. ASSUME NEW e \in Endpoints, AddEndpoint(e) PROVE EndpointsTyped'
    BY <1>0, <2>3 DEF AddEndpoint, EndpointsTyped
  <2>4. ASSUME NEW e \in Endpoints, DeleteEndpoint(e) PROVE EndpointsTyped'
    <3>1. PICK heir \in IF endpoints \ {e} = {} THEN {NoModel} ELSE endpoints \ {e} :
            /\ endpoints' = endpoints \ {e}
            /\ textEndpoint' = IF textEndpoint = e THEN heir ELSE textEndpoint
            /\ imageEndpoint' = IF imageEndpoint = e THEN heir ELSE imageEndpoint
      BY <2>4 DEF DeleteEndpoint
    <3>2. heir \in (endpoints \ {e}) \cup {NoModel}
      BY <3>1
    <3> QED
      BY <1>0, <3>1, <3>2 DEF EndpointsTyped
  <2>5. ASSUME NEW e \in Endpoints \cup {NoModel}, SetTextEndpoint(e) \/ SetImageEndpoint(e) PROVE EndpointsTyped'
    BY <1>0, <2>5 DEF SetTextEndpoint, SetImageEndpoint, EndpointsTyped
  <2> QED
    BY <1>9, <2>2, <2>3, <2>4, <2>5 DEF EndpointStep, ChainTypes
<1>10. CASE UNCHANGED chainVars
  <2>1. UNCHANGED <<cacheVars, turn, endpointVars, probe, side, warned, chainSpent>>
    BY <1>10 DEF chainVars
  <2>2. OthersTyped'
    BY <1>0, <2>1 DEF OthersTyped
  <2> QED
    BY <1>0, <1>a, <1>b, <2>1, <2>2, MarkingTypes DEF ChainTypes
<1> QED
  BY <1>1, <1>2, <1>3, <1>4, <1>5, <1>6, <1>7, <1>8, <1>9, <1>10 DEF ChainNext, CacheStep

LEMMA ChainTypesStart == ChainInit => ChainTypes
<1> SUFFICES ASSUME ChainInit PROVE ChainTypes
  OBVIOUS
<1>1. NoFrame \in FrameShape /\ FrameTyped(NoFrame)
  BY NoFrameIsTyped DEF FrameTyped
<1>2. FramesTyped
  BY <1>1 DEF ChainInit, FramesTyped
<1>3. OthersTyped
  BY DEF ChainInit, OthersTyped, Probe, NoSide, Side
<1> QED
  BY <1>2, <1>3 DEF ChainInit, ChainTypes, CacheTyped, EndpointsTyped

LEMMA ChainTypesHold == ChainTypes => ChainTypeOK
<1> SUFFICES ASSUME ChainTypes PROVE ChainTypeOK
  OBVIOUS
<1>1. ASSUME NEW t \in Turns
      PROVE  /\ turn[t].pc \in {"idle", "skip", "prefer", "trying", "rekeying", "failed"}
             /\ turn[t].kind \in Kinds \cup {"plain"}
             /\ turn[t].order \in Seq(Models \cup {Byok})
             /\ turn[t].pc # "idle" => turn[t].at \in 1..Len(turn[t].order)
             /\ turn[t].attempt \in 1..MaxRetries
             /\ turn[t].keys \in [Families -> Keys \cup {NoModel}]
             /\ turn[t].called \subseteq Models \cup {Byok}
             /\ turn[t].out \subseteq Families
  <2>1. FrameTyped(turn[t])
    BY DEF ChainTypes, FramesTyped
  <2>2. Keyed \subseteq Models \cup {Byok}
    BY DEF Keyed
  <2>3. turn[t].order \in Seq(Models \cup {Byok})
    BY <2>1, <2>2, FrameFieldsAre
  <2> QED
    BY <2>1, <2>3 DEF FrameTyped, FrameShape
<1>2. {textEndpoint, imageEndpoint} \subseteq endpoints \cup {NoModel} /\ endpoints \subseteq Endpoints
  BY DEF ChainTypes, EndpointsTyped
<1>3. /\ probe.pc \in {"idle", "probing"} /\ {probe.good, probe.bad} \subseteq SUBSET Models
      /\ side.pc \in {"idle", "rekeying"} /\ side.family \subseteq Families /\ side.key \subseteq Keys
      /\ warned \subseteq Turns /\ chainSpent \in [{"runs", "others"} -> Nat]
  BY DEF ChainTypes, OthersTyped
<1> QED
  BY <1>1, <1>2, <1>3 DEF ChainTypes, CacheTyped, ChainTypeOK
----------------------------------------------------------------------------
(* Memory: every post a run or its records speak of is in the thread.       *)

(* Every post a part of the memory speaks of is in the thread.              *)
PostsFit(h, n) == PostsIn(h) \subseteq 1..n
RunFits(r, n) ==
  /\ r.post \in 0..n /\ r.own \subseteq 1..n
  /\ PostsFit(r.base, n) /\ PostsFit(r.history, n) /\ PostsFit(r.messages, n) /\ PostsFit(r.progress, n) /\ PostsFit(r.result, n)
MemoryFits ==
  /\ PostsFit(memory.messages, thread) /\ memory.seen \in 0..thread
  /\ ToSet(steerQueue) \subseteq 1..thread
  /\ RunFits(run, thread)
  /\ PostsFit(checkpoint.messages, thread) /\ checkpoint.post \in 0..thread
  /\ letGo \subseteq 1..thread
MemoryBounds == thread \in 0..MaxThreadPosts /\ memoryFaults \in 0..MaxMemoryFaults

LEMMA EmptyFits == \A n : PostsFit(<<>>, n) /\ ToSet(<<>>) = {}
BY DEF PostsFit, PostsIn, ToSet

LEMMA AppendFits ==
  ASSUME NEW h \in Seq(Kept), NEW m \in Kept, NEW n, PostsFit(h, n), m.posts \subseteq 1..n
  PROVE  PostsFit(Append(h, m), n)
BY AppendKeeps DEF PostsFit

(* A message of the turn's own making. *)
LEMMA OwnMessages ==
  ASSUME NEW k \in {"request", "call", "result", "answer"}, NEW ps \in SUBSET Nat, k = "call" => ps = {}, NEW b \in BOOLEAN
  PROVE  Msg(k, ps, b) \in Kept /\ Msg(k, ps, b).posts = ps
BY DEF Msg, Kept

LEMMA QueueGrows ==
  ASSUME NEW s \in Seq(Nat), NEW x \in Nat
  PROVE  ToSet(Append(s, x)) = ToSet(s) \cup {x}
<1>1. /\ DOMAIN s = 1..Len(s) /\ Len(s) \in Nat /\ DOMAIN Append(s, x) = 1..(Len(s) + 1)
      /\ \A i \in 1..Len(s) : Append(s, x)[i] = s[i]
      /\ Append(s, x)[Len(s) + 1] = x
  OBVIOUS
<1> QED
  BY <1>1 DEF ToSet

LEMMA FreshFits ==
  ASSUME NEW n \in Nat, NEW p \in 0..n, NEW own \in SUBSET (1..n), NEW base, PostsFit(base, n), NEW fetched
  PROVE  RunFits(NewRun(p, own, base, fetched), n)
BY EmptyFits DEF RunFits, NewRun

LEMMA NoRunFits == \A n \in Nat : RunFits(NoRun, n) /\ NoMemory.seen \in 0..n /\ PostsFit(NoMemory.messages, n)
                                  /\ NoRecord.post \in 0..n /\ PostsFit(NoRecord.messages, n)
<1> SUFFICES ASSUME NEW n \in Nat
             PROVE  RunFits(NoRun, n) /\ NoMemory.seen \in 0..n /\ PostsFit(NoMemory.messages, n)
                    /\ NoRecord.post \in 0..n /\ PostsFit(NoRecord.messages, n)
  OBVIOUS
<1>1. RunFits(NoRun, n)
  BY EmptyFits DEF RunFits, NoRun, NewRun
<1> QED
  BY <1>1, EmptyFits DEF NoMemory, NoRecord

LEMMA OverFits ==
  ASSUME NEW n, RunFits(run, n), NEW h, PostsFit(h, n), NEW skipped
  PROVE  RunFits(OverWith(h, skipped), n)
BY EmptyFits DEF RunFits, OverWith, NewRun

LEMMA StoredFits ==
  ASSUME MemoryFits, thread \in Nat
  PROVE  PostsFit(StoredMemory.messages, thread) /\ StoredMemory.seen \in 0..thread
BY NoRunFits DEF MemoryFits, StoredMemory

LEMMA EndTurnFits ==
  ASSUME MemoryFits, thread \in Nat, steerQueue \in Seq(Nat), NEW stored, PostsFit(stored.messages, thread), EndTurn(stored)
  PROVE  /\ RunFits(run', thread) /\ ToSet(steerQueue') \subseteq 1..thread
         /\ PostsFit(checkpoint'.messages, thread) /\ checkpoint'.post \in 0..thread
<1>1. CASE steerQueue = <<>>
  <2>1. run' = NoRun /\ checkpoint' = NoRecord /\ steerQueue' = <<>>
    BY <1>1 DEF EndTurn
  <2> QED
    BY <2>1, NoRunFits, EmptyFits
<1>2. CASE steerQueue # <<>>
  <2> DEFINE p == Last(steerQueue)
             own == ToSet(steerQueue)
  <2>1. /\ run' = NewRun(p, own, stored.messages, FALSE)
        /\ checkpoint' = [NoRecord EXCEPT !.post = p] /\ steerQueue' = <<>>
    BY <1>2 DEF EndTurn
  <2>2. own \in SUBSET (1..thread) /\ p \in own
    <3>1. Len(steerQueue) \in DOMAIN steerQueue
      BY <1>2
    <3>2. p = steerQueue[Len(steerQueue)] /\ own = {steerQueue[i] : i \in DOMAIN steerQueue}
      BY DEF Last, ToSet
    <3> QED
      BY <3>1, <3>2 DEF MemoryFits
  <2>3. p \in 0..thread
    BY <2>2
  <2> HIDE DEF p, own
  <2>4. RunFits(run', thread)
    BY <2>1, <2>2, <2>3, FreshFits
  <2>5. checkpoint'.post = p /\ checkpoint'.messages = <<>>
    BY <2>1 DEF NoRecord
  <2> QED
    BY <2>1, <2>3, <2>4, <2>5, EmptyFits
<1> QED
  BY <1>1, <1>2

(* A step that leaves the thread and its memory alone. *)
LEMMA RunMoves ==
  ASSUME MemoryFits, UNCHANGED <<thread, memory, letGo, checkpoint>>, RunFits(run', thread),
         steerQueue' = steerQueue \/ steerQueue' = <<>>
  PROVE  MemoryFits'
BY EmptyFits DEF MemoryFits

LEMMA FitsStep ==
  ASSUME MemoryInv, MemoryFits, MemoryBounds, MemoryNext
  PROVE  MemoryFits'
<1>0. /\ MemoryTypes /\ thread \in Nat /\ run \in RunShape /\ RunFits(run, thread) /\ steerQueue \in Seq(Nat)
      /\ run.base \in Seq(Kept) /\ run.history \in Seq(Kept) /\ run.messages \in Seq(Kept)
      /\ run.progress \in Seq(Kept) /\ run.result \in Seq(Kept)
      /\ run.own \in SUBSET (1..thread) /\ run.own \in SUBSET Nat
      /\ PostsFit(run.base, thread) /\ PostsFit(run.history, thread) /\ PostsFit(run.messages, thread)
      /\ PostsFit(run.progress, thread) /\ PostsFit(run.result, thread)
  BY DEF MemoryInv, MemoryTypes, MemoryFits, RunFits, RunShape
<1>1. ASSUME NEW b \in BOOLEAN, WriteInThread(b) PROVE MemoryFits'
  <2>1. thread' = thread + 1 /\ 1..thread \subseteq 1..thread' /\ 0..thread \subseteq 0..thread'
        /\ UNCHANGED <<memory, run, checkpoint, letGo>>
    BY <1>0, <1>1 DEF WriteInThread
  <2>2. \A h : PostsFit(h, thread) => PostsFit(h, thread')
    BY <2>1 DEF PostsFit
  <2>3. RunFits(run', thread')
    BY <2>1, <2>2, <1>0 DEF RunFits
  <2>4. ToSet(steerQueue') \subseteq 1..thread'
    <3>1. ToSet(steerQueue) \subseteq 1..thread'
      BY <2>1 DEF MemoryFits
    <3>2. CASE steerQueue' = Append(steerQueue, thread')
      <4>1. thread' \in Nat /\ thread' \in 1..thread'
        BY <1>0, <2>1
      <4> QED
        BY <1>0, <3>1, <3>2, <4>1, QueueGrows
    <3>3. CASE steerQueue' = steerQueue
      BY <3>1, <3>3
    <3> QED
      BY <1>1, <3>2, <3>3 DEF WriteInThread
  <2> QED
    BY <2>1, <2>2, <2>3, <2>4 DEF MemoryFits
<1>2. ASSUME NEW b \in BOOLEAN, BeforeTool(b) PROVE MemoryFits'
  <2> DEFINE safe == SafeForResume(run.messages)
  <2>1. /\ run.at = "calling" /\ UNCHANGED <<thread, memory, steerQueue, checkpoint, letGo>>
        /\ run' = IF b THEN OverWith(safe, FALSE) ELSE [run EXCEPT !.at = "tool", !.progress = safe, !.moved = TRUE]
    BY <1>2 DEF BeforeTool
  <2>2. Pairing(run.messages)
    BY <2>1 DEF MemoryInv, MessagesAreSound, Sending, IsReady
  <2>3. PostsFit(safe, thread)
    BY <1>0, <2>2, SafeKeeps DEF PostsFit
  <2> HIDE DEF safe
  <2>4. RunFits([run EXCEPT !.at = "tool", !.progress = safe, !.moved = TRUE], thread)
    BY <1>0, <2>3 DEF RunFits, RunShape
  <2> QED
    BY <1>0, <2>1, <2>3, <2>4, OverFits, RunMoves
<1>3. ASSUME NEW b \in BOOLEAN, ToolResult(b) PROVE MemoryFits'
  <2> DEFINE q == IF b THEN ToSet(steerQueue) ELSE {}
             m == Msg("result", q, FALSE)
  <2>1. UNCHANGED <<thread, memory, checkpoint, letGo>> /\ (steerQueue' = steerQueue \/ steerQueue' = <<>>)
        /\ run' = [run EXCEPT !.at = "asking", !.messages = Append(run.messages, m)]
    BY <1>3 DEF ToolResult
  <2>2. q \subseteq 1..thread /\ q \in SUBSET Nat
    BY <1>0 DEF MemoryFits
  <2> HIDE DEF q
  <2>3. m \in Kept /\ m.posts \subseteq 1..thread
    BY <2>2, OwnMessages
  <2> HIDE DEF m
  <2>4. PostsFit(Append(run.messages, m), thread)
    BY <1>0, <2>3, AppendFits
  <2>5. RunFits(run', thread)
    BY <1>0, <2>1, <2>4 DEF RunFits, RunShape
  <2> QED
    BY <2>1, <2>5, RunMoves
<1>4. ASSUME NEW b \in BOOLEAN, SkipTurn(b) PROVE MemoryFits'
  <2>1. UNCHANGED <<thread, memory, steerQueue, checkpoint, letGo>>
        /\ run' = OverWith(IF b THEN run.progress ELSE run.base, ~b)
    BY <1>4 DEF SkipTurn
  <2>2. PostsFit(IF b THEN run.progress ELSE run.base, thread)
    BY <1>0
  <2> QED
    BY <1>0, <2>1, <2>2, OverFits, RunMoves
<1>5. ASSUME NEW b \in BOOLEAN, SaveMemory(b) PROVE MemoryFits'
  <2> DEFINE msgs  == MaybeObserve(run.result, run.window, 0, b)
             seen  == IF run.post > StoredMemory.seen THEN run.post ELSE StoredMemory.seen
             saved == [messages |-> msgs, seen |-> seen]
             gone  == IF ~run.fetched THEN 1..run.post \ PostsIn(saved.messages)
                      ELSE IF run.skipped THEN run.own ELSE {}
  <2>1. run.at = "saving" /\ memory' = saved /\ letGo' = letGo \cup gone /\ EndTurn(saved) /\ UNCHANGED thread
    BY <1>5 DEF SaveMemory
  <2>2. Pairing(run.result) /\ run.window \in [observeAt : Nat, keep : Nat \ {0}]
    BY <1>0, <2>1, PairedIsPairing DEF MemoryInv, ResultIsSound, RunShape
  <2>3. PostsFit(msgs, thread)
    <3>1. PostsIn(msgs) = PostsIn(run.result)
      BY <1>0, <2>2, ObserveKeeps
    <3> QED
      BY <1>0, <3>1 DEF PostsFit
  <2> HIDE DEF msgs
  <2>4. seen \in 0..thread /\ gone \subseteq 1..thread
    <3>1. run.post \in 0..thread /\ StoredMemory.seen \in 0..thread
      BY <1>0, StoredFits DEF RunFits
    <3>2. 1..run.post \subseteq 1..thread
      BY <1>0, <3>1
    <3> QED
      BY <1>0, <3>1, <3>2
  <2> HIDE DEF seen, gone
  <2>5. saved.messages = msgs /\ saved.seen = seen
    OBVIOUS
  <2> HIDE DEF saved
  <2>6. /\ RunFits(run', thread) /\ ToSet(steerQueue') \subseteq 1..thread
        /\ PostsFit(checkpoint'.messages, thread) /\ checkpoint'.post \in 0..thread
    BY <1>0, <2>1, <2>3, <2>5, EndTurnFits
  <2> QED
    BY <2>1, <2>3, <2>4, <2>5, <2>6 DEF MemoryFits
<1>6. ASSUME NEW p \in unheard, AnswerThread(p) PROVE MemoryFits'
  <2> DEFINE stored == StoredMemory
             unseen == Unseen(p, stored)
  <2>1. PICK fetched \in BOOLEAN, echoes \in SUBSET unseen :
          LET visible == IF fetched THEN Shown(Reached(unseen, stored) \ echoes) ELSE {} IN
          /\ run' = NewRun(p, {p}, IF visible = {} THEN stored.messages
                                   ELSE Append(stored.messages, Msg("request", visible, FALSE)), fetched)
          /\ letGo' = letGo \cup (IF fetched THEN {q \in unseen \ visible : q < p} ELSE {})
    BY <1>6 DEF AnswerThread
  <2> DEFINE visible == IF fetched THEN Shown(Reached(unseen, stored) \ echoes) ELSE {}
             base  == IF visible = {} THEN stored.messages
                      ELSE Append(stored.messages, Msg("request", visible, FALSE))
  <2>2. checkpoint' = [NoRecord EXCEPT !.post = p] /\ UNCHANGED <<thread, memory, steerQueue>>
    BY <1>6 DEF AnswerThread
  <2>3. p \in 1..thread /\ unseen \subseteq 1..thread /\ visible \subseteq 1..thread
    BY <1>0 DEF MemoryTypes, Unseen, Shown, Reached
  <2>4. stored.messages \in Seq(Kept) /\ PostsFit(stored.messages, thread)
    BY <1>0, StoredIsKnown, StoredFits DEF MemoryInv
  <2> HIDE DEF stored, unseen, visible
  <2>5. PostsFit(base, thread)
    <3> DEFINE m == Msg("request", visible, FALSE)
    <3>0. visible \in SUBSET Nat
      BY <1>0, <2>3
    <3>1. m \in Kept /\ m.posts = visible
      BY <3>0, OwnMessages
    <3> HIDE DEF m
    <3>2. PostsFit(Append(stored.messages, m), thread)
      BY <2>3, <2>4, <3>1, AppendFits
    <3> QED
      BY <2>4, <3>2 DEF m
  <2>6. run' = NewRun(p, {p}, base, fetched) /\ letGo' = letGo \cup (IF fetched THEN {q \in unseen \ visible : q < p} ELSE {})
    BY <2>1 DEF visible
  <2> HIDE DEF base
  <2>7. p \in 0..thread /\ {p} \in SUBSET (1..thread)
    BY <1>0, <2>3
  <2>8. RunFits(run', thread)
    BY <1>0, <2>5, <2>6, <2>7, FreshFits
  <2>9. checkpoint'.post = p /\ checkpoint'.messages = <<>>
    BY <2>2 DEF NoRecord
  <2>10. letGo' \subseteq 1..thread
    BY <2>3, <2>6 DEF MemoryFits
  <2> QED
    BY <2>2, <2>7, <2>8, <2>9, <2>10, EmptyFits DEF MemoryFits
<1>7. ASSUME NEW w \in Windows, NEW noted \in BOOLEAN, Try(w, noted) PROVE MemoryFits'
  <2> DEFINE keepFrom == IF run.prompt THEN 0 ELSE TurnRequest(run.history)
             fitted   == MaybeObserve(run.history, w, keepFrom, noted)
             asked      == Msg("request", run.own, fitted = <<>>)
             sent     == IF run.prompt THEN Append(fitted, asked) ELSE fitted
             at       == IF Last(sent).kind = "call" THEN "calling" ELSE "asking"
  <2>1. /\ run.at = "trying" /\ UNCHANGED <<thread, memory, steerQueue, checkpoint, letGo>>
        /\ run' = [run EXCEPT !.history = fitted, !.messages = sent, !.window = w, !.at = at]
    BY <1>7 DEF Try
  <2>2. /\ Pairing(run.history) /\ run.own # {} /\ w \in [observeAt : Nat, keep : Nat \ {0}]
        /\ ~run.prompt => AsksOwn(run.history, run.own)
    BY <2>1, MemoryAssumption DEF MemoryInv, HistoryIsSound, Attempting, TurnIsOne
  <2>3. keepFrom = 0 \/ \E own : keepFrom = TurnRequest(run.history) /\ own # {} /\ AsksOwn(run.history, own)
    BY <2>2
  <2> HIDE DEF keepFrom
  <2>4. fitted \in Seq(Kept) /\ PostsIn(fitted) = PostsIn(run.history)
    BY <1>0, <2>2, <2>3, ObserveKeeps
  <2> HIDE DEF fitted
  <2>5. asked \in Kept /\ asked.posts = run.own
    <3>1. (fitted = <<>>) \in BOOLEAN
      OBVIOUS
    <3> QED
      BY <1>0, <3>1, OwnMessages
  <2> HIDE DEF asked
  <2>6. PostsFit(fitted, thread) /\ PostsFit(sent, thread)
    <3>1. PostsFit(fitted, thread)
      BY <1>0, <2>4 DEF PostsFit
    <3>2. PostsFit(Append(fitted, asked), thread)
      BY <1>0, <2>4, <2>5, <3>1, AppendFits
    <3> QED
      BY <3>1, <3>2
  <2> HIDE DEF sent, at
  <2>7. RunFits(run', thread)
    BY <1>0, <2>1, <2>6 DEF RunFits, RunShape
  <2> QED
    BY <2>1, <2>7, RunMoves
<1>8. ASSUME Prepare PROVE MemoryFits'
  <2> DEFINE h    == WithSystemPrompt(run.base)
             req  == Msg("request", run.own, run.base = <<>>)
             toolCall == Msg("call", {}, FALSE)
  <2>1. /\ run.at = "starting" /\ UNCHANGED <<thread, memory, steerQueue, checkpoint, letGo>>
        /\ \/ run' = [run EXCEPT !.at = "trying", !.history = h]
           \/ run' = [run EXCEPT !.at = "trying", !.prompt = FALSE, !.history = h \o <<req, toolCall>>]
    BY <1>8 DEF Prepare
  <2>2. Pairing(run.base)
    BY <1>0, <2>1, PairedIsPairing DEF MemoryInv, BaseIsSound
  <2>3. h \in Seq(Kept) /\ PostsFit(h, thread)
    BY <1>0, <2>2, SystemPromptKeeps DEF PostsFit
  <2> HIDE DEF h
  <2>4. req \in Kept /\ req.posts = run.own /\ toolCall \in Kept /\ toolCall.posts = {}
    <3>1. (run.base = <<>>) \in BOOLEAN
      OBVIOUS
    <3> QED
      BY <1>0, <3>1, OwnMessages
  <2> HIDE DEF req, toolCall
  <2>5. PostsFit(h \o <<req, toolCall>>, thread)
    <3>1. h \o <<req, toolCall>> = Append(Append(h, req), toolCall)
      BY <2>3, <2>4
    <3>2. PostsFit(Append(h, req), thread) /\ Append(h, req) \in Seq(Kept)
      BY <1>0, <2>3, <2>4, AppendFits
    <3> QED
      BY <2>4, <3>1, <3>2, AppendFits
  <2>6. RunFits(run', thread)
    BY <1>0, <2>1, <2>3, <2>5 DEF RunFits, RunShape
  <2> QED
    BY <2>1, <2>6, RunMoves
<1>9. ASSUME AskModel PROVE MemoryFits'
  <2>1. /\ checkpoint' = [checkpoint EXCEPT !.messages = run.messages] /\ run' = [run EXCEPT !.at = "model"]
        /\ UNCHANGED <<thread, memory, steerQueue, letGo>>
    BY <1>9 DEF AskModel
  <2>2. checkpoint'.messages = run.messages /\ checkpoint'.post = checkpoint.post
    BY <1>0, <2>1 DEF MemoryTypes
  <2>3. RunFits(run', thread)
    BY <1>0, <2>1 DEF RunFits, RunShape
  <2> QED
    BY <1>0, <2>1, <2>2, <2>3 DEF MemoryFits
<1>10. ASSUME Call PROVE MemoryFits'
  <2> DEFINE m == Msg("call", {}, FALSE)
  <2>1. UNCHANGED <<thread, memory, steerQueue, checkpoint, letGo>>
        /\ run' = [run EXCEPT !.at = "calling", !.calls = @ + 1, !.messages = Append(@, m)]
    BY <1>10 DEF Call
  <2>2. m \in Kept /\ m.posts = {}
    BY OwnMessages
  <2> HIDE DEF m
  <2>3. PostsFit(Append(run.messages, m), thread)
    BY <1>0, <2>2, AppendFits
  <2>4. RunFits(run', thread)
    BY <1>0, <2>1, <2>3 DEF RunFits, RunShape
  <2> QED
    BY <2>1, <2>4, RunMoves
<1>11. ASSUME TryFails PROVE MemoryFits'
  <2>1. /\ UNCHANGED <<thread, memory, steerQueue, checkpoint, letGo>>
        /\ \/ run' = [run EXCEPT !.at = "trying", !.history = run.progress, !.prompt = FALSE, !.moved = FALSE]
           \/ run' = [run EXCEPT !.at = "trying"]
    BY <1>11 DEF TryFails
  <2>2. RunFits(run', thread)
    BY <1>0, <2>1 DEF RunFits, RunShape
  <2> QED
    BY <2>1, <2>2, RunMoves
<1>12. ASSUME Reply PROVE MemoryFits'
  <2> DEFINE m == Msg("answer", {}, FALSE)
  <2>1. UNCHANGED <<thread, memory, steerQueue, checkpoint, letGo>>
        /\ run' = OverWith(Append(run.messages, m), FALSE)
    BY <1>12 DEF Reply
  <2>2. m \in Kept /\ m.posts = {}
    BY OwnMessages
  <2> HIDE DEF m
  <2>3. PostsFit(Append(run.messages, m), thread)
    BY <1>0, <2>2, AppendFits
  <2> QED
    BY <1>0, <2>1, <2>3, OverFits, RunMoves
<1>13. ASSUME TurnGivesUp PROVE MemoryFits'
  <2>1. EndTurn(StoredMemory) /\ UNCHANGED <<thread, memory, letGo>>
    BY <1>13 DEF TurnGivesUp
  <2>2. /\ RunFits(run', thread) /\ ToSet(steerQueue') \subseteq 1..thread
        /\ PostsFit(checkpoint'.messages, thread) /\ checkpoint'.post \in 0..thread
    BY <1>0, <2>1, StoredFits, EndTurnFits
  <2> QED
    BY <2>1, <2>2 DEF MemoryFits
<1>14. ASSUME ForgetExpired PROVE MemoryFits'
  <2>1. memory' = NoMemory /\ letGo' = letGo \cup 1..memory.seen
        /\ UNCHANGED <<thread, steerQueue, run, checkpoint>>
    BY <1>14 DEF ForgetExpired
  <2>2. letGo' \subseteq 1..thread
    <3>1. memory.seen \in 0..thread
      BY DEF MemoryFits
    <3>2. 1..memory.seen \subseteq 1..thread
      BY <1>0, <3>1
    <3> QED
      BY <2>1, <3>2 DEF MemoryFits
  <2>3. PostsFit(memory'.messages, thread) /\ memory'.seen \in 0..thread
    BY <1>0, <2>1, NoRunFits
  <2> QED
    BY <2>1, <2>2, <2>3 DEF MemoryFits
<1>15. ASSUME RestartTurn PROVE MemoryFits'
  <2> DEFINE fresh == NewRun(checkpoint.post, run.own, StoredMemory.messages, FALSE)
             h     == WithSystemPrompt(checkpoint.messages)
  <2>1. /\ steerQueue' = <<>> /\ letGo' = letGo \cup ToSet(steerQueue)
        /\ UNCHANGED <<thread, memory, checkpoint>>
        /\ run' = IF checkpoint.messages = <<>> THEN fresh
                  ELSE [fresh EXCEPT !.at = "trying", !.prompt = FALSE, !.history = h]
    BY <1>15 DEF RestartTurn
  <2>2. checkpoint.post \in 0..thread /\ PostsFit(checkpoint.messages, thread) /\ checkpoint.messages \in Seq(Kept)
    BY <1>0 DEF MemoryFits, MemoryTypes
  <2>3. RunFits(fresh, thread) /\ fresh \in RunShape
    <3>1. PostsFit(StoredMemory.messages, thread) /\ StoredMemory.messages \in Seq(Kept)
      BY <1>0, StoredFits, StoredIsKnown DEF MemoryInv
    <3>2. checkpoint.post \in Nat
      BY <1>0, <2>2
    <3> QED
      BY <1>0, <2>2, <3>1, <3>2, FreshFits, FreshRuns
  <2> HIDE DEF fresh
  <2>4. checkpoint.messages # <<>> => PostsFit(h, thread)
    <3>1. checkpoint.messages # <<>> => Pairing(checkpoint.messages)
      BY DEF MemoryInv, CheckpointIsSound, IsReady
    <3> QED
      BY <2>2, <3>1, SystemPromptKeeps DEF PostsFit
  <2> HIDE DEF h
  <2>5. RunFits(run', thread)
    <3>1. CASE checkpoint.messages = <<>>
      BY <2>1, <2>3, <3>1
    <3>2. CASE checkpoint.messages # <<>>
      BY <2>1, <2>3, <2>4, <3>2 DEF RunFits, RunShape
    <3> QED
      BY <3>1, <3>2
  <2> QED
    BY <2>1, <2>5, EmptyFits DEF MemoryFits
<1> QED
  BY <1>1, <1>2, <1>3, <1>4, <1>5, <1>6, <1>7, <1>8, <1>9, <1>10, <1>11, <1>12, <1>13, <1>14, <1>15 DEF MemoryNext

LEMMA BoundsStep == MemoryBounds /\ [MemoryNext]_memoryVars => MemoryBounds'
<1> SUFFICES ASSUME MemoryBounds, [MemoryNext]_memoryVars PROVE MemoryBounds'
  OBVIOUS
<1>1. /\ UNCHANGED thread \/ (thread < MaxThreadPosts /\ thread' = thread + 1)
      /\ UNCHANGED memoryFaults \/ MemoryFault
  BY DEF MemoryNext, WriteInThread, BeforeTool, ToolResult, SkipTurn, SaveMemory, AnswerThread, Try, Prepare,
         AskModel, Call, TryFails, Reply, TurnGivesUp, ForgetExpired, RestartTurn, memoryVars
<1> QED
  BY <1>1, MemoryAssumption DEF MemoryBounds, MemoryFault

LEMMA MemoryRestStep ==
  ASSUME MemoryInv, MemoryFits, MemoryBounds, [MemoryNext]_memoryVars
  PROVE  MemoryFits' /\ MemoryBounds'
<1>1. CASE MemoryNext
  BY <1>1, FitsStep, BoundsStep
<1>2. CASE UNCHANGED memoryVars
  BY <1>2, BoundsStep DEF memoryVars, MemoryFits
<1> QED
  BY <1>1, <1>2

LEMMA MemoryRestStart == MemoryInit => MemoryFits /\ MemoryBounds
<1> SUFFICES ASSUME MemoryInit PROVE MemoryFits /\ MemoryBounds
  OBVIOUS
<1>1. thread = 0 /\ memoryFaults = 0 /\ memory = NoMemory /\ run = NoRun /\ checkpoint = NoRecord
      /\ steerQueue = <<>> /\ letGo = {}
  BY DEF MemoryInit
<1> QED
  BY <1>1, NoRunFits, EmptyFits, MemoryAssumption DEF MemoryFits, MemoryBounds

LEMMA MemoryTypesHold == MemoryInv /\ MemoryFits /\ MemoryBounds => MemoryTypeOK
<1> SUFFICES ASSUME MemoryInv, MemoryFits, MemoryBounds PROVE MemoryTypeOK
  OBVIOUS
<1>1. MemoryTypes /\ thread \in 0..MaxThreadPosts /\ run \in RunShape
  BY DEF MemoryInv, MemoryTypes, MemoryBounds
<1>2. \A h \in Histories : h \in Seq(Kept) /\ PostsFit(h, thread)
  BY <1>1 DEF Histories, MemoryTypes, MemoryFits, RunFits, RunShape
<1>3. ASSUME NEW h \in Histories, NEW i \in DOMAIN h
      PROVE  /\ h[i].kind \in {"log", "request", "call", "result", "answer"}
             /\ h[i].posts \subseteq 1..thread /\ h[i].system \in BOOLEAN
  <2>1. h[i] \in Kept
    BY <1>2
  <2>2. h[i].posts \subseteq PostsIn(h)
    BY PostsAre
  <2> QED
    BY <1>2, <2>1, <2>2 DEF PostsFit, Kept
<1>4. unheard \cup letGo \subseteq 1..MaxThreadPosts
  BY <1>1, MemoryAssumption DEF MemoryTypes, MemoryFits
<1>5. memory.seen \in 0..thread /\ memoryFaults \in 0..MaxMemoryFaults
  BY DEF MemoryFits, MemoryBounds
<1> QED
  BY <1>1, <1>3, <1>4, <1>5 DEF MemoryTypeOK, RunShape
----------------------------------------------------------------------------
(* Plans: the bounds of a turn.                                             *)

(* The bounds of a turn's attempts and of what happens to it.               *)
PlanBounds == showing.attempts \in 0..MaxAttempts /\ planEvents \in 0..MaxPlanEvents

LEMMA PlanCounts ==
  ASSUME PlanBounds, PlanEvent \/ Calm
  PROVE  planEvents' \in 0..MaxPlanEvents
BY PlanAssumption DEF PlanBounds, PlanEvent, Calm

LEMMA ShowsOrFails == ASSUME NEW tasks, UpdatePlanMessage(tasks) \/ LastUpdate(tasks) PROVE PlanEvent \/ Calm
BY DEF UpdatePlanMessage, LastUpdate

LEMMA PlanBoundsStep == PlanInv /\ PlanBounds /\ [PlanNext]_planVars => PlanBounds'
<1> SUFFICES ASSUME PlanInv, PlanBounds, [PlanNext]_planVars PROVE PlanBounds'
  OBVIOUS
<1>0. /\ showing \in [at : PlanPlaces, pending : SUBSET ToolCalls, running : SUBSET ToolCalls,
                      made : SUBSET StepNames, attempts : Nat]
      /\ showing.attempts \in 0..MaxAttempts /\ MaxAttempts \in Nat
  BY PlanAssumption DEF PlanInv, PlanTyped, PlanBounds
<1>a. ASSUME PlanEvent \/ Calm, UNCHANGED showing \/ showing'.attempts = showing.attempts PROVE PlanBounds'
  BY <1>0, <1>a, PlanCounts DEF PlanBounds
<1>b. ASSUME NEW from, NEW to, Goes(from, to) PROVE showing'.attempts = showing.attempts
  BY <1>0, <1>b DEF Goes
<1>1. CASE SendPlanMessage
  <2>1. PlanEvent \/ Calm
    BY <1>1 DEF SendPlanMessage
  <2>2. Goes("begin", "session")
    BY <1>1 DEF SendPlanMessage
  <2> QED
    BY <1>a, <1>b, <2>1, <2>2
<1>2. CASE SetModelTask
  <2>1. /\ showing.attempts < MaxAttempts
        /\ showing' = [showing EXCEPT !.at = "model", !.attempts = @ + 1]
        /\ PlanEvent \/ Calm
    BY <1>2, ShowsOrFails DEF SetModelTask
  <2>2. showing'.attempts = showing.attempts + 1
    BY <1>0, <2>1
  <2> QED
    BY <1>0, <2>1, <2>2, PlanCounts DEF PlanBounds
<1>3. CASE StopHalts \/ AttemptEnds \/ PostAnswer \/ SaveTurn
  BY <1>a, <1>b, <1>3 DEF StopHalts, AttemptEnds, PostAnswer, SaveTurn
<1>4. CASE FinalizePlan \/ CompletePlan \/ SetPlanError
  <2>1. PlanEvent \/ Calm
    BY <1>4, ShowsOrFails DEF FinalizePlan, CompletePlan, SetPlanError
  <2>2. showing'.attempts = showing.attempts
    BY <1>b, <1>4 DEF FinalizePlan, CompletePlan, SetPlanError
  <2> QED
    BY <1>a, <2>1, <2>2
<1>5. CASE DeletePlan \/ StopSession
  <2>1. PlanEvent \/ Calm
    BY <1>5 DEF DeletePlan, StopSession
  <2>2. showing'.attempts = showing.attempts
    BY <1>b, <1>5 DEF DeletePlan, StopSession
  <2> QED
    BY <1>a, <2>1, <2>2
<1>6. CASE Tick \/ TickCalls \/ EndSessionNow
  BY <1>a, <1>6 DEF Tick, TickCalls, EndSessionNow
<1>7. CASE PlanDeath
  BY <1>a, <1>7 DEF PlanDeath, NoCalls
<1>8. ASSUME NEW b \in BOOLEAN, StartSession(b) PROVE PlanBounds'
  <2>1. (PlanEvent \/ Calm) /\ Goes("session", "attempt")
    BY <1>8 DEF StartSession
  <2> QED
    BY <1>a, <1>b, <2>1
<1>9. ASSUME NEW cs \in SUBSET ToolCalls, NEW ts \in SUBSET Thoughts, AfterModel(cs, ts) PROVE PlanBounds'
  <2>1. PlanEvent \/ Calm
    BY <1>9, ShowsOrFails DEF AfterModel
  <2>2. showing'.attempts = showing.attempts
    BY <1>0, <1>9 DEF AfterModel
  <2> QED
    BY <1>a, <2>1, <2>2
<1>10. ASSUME NEW c \in ToolCalls, ShowResult(c) PROVE PlanBounds'
  <2>1. PlanEvent \/ Calm
    BY <1>10, ShowsOrFails DEF ShowResult, ShowEnd
  <2>2. showing'.attempts = showing.attempts
    BY <1>0, <1>10 DEF ShowResult
  <2> QED
    BY <1>a, <2>1, <2>2
<1>11. ASSUME NEW c \in ToolCalls, NEW b \in BOOLEAN, ShowCall(c, b) PROVE PlanBounds'
  <2>1. PlanEvent \/ Calm
    BY <1>11, ShowsOrFails DEF ShowCall
  <2>2. showing'.attempts = showing.attempts
    BY <1>0, <1>11 DEF ShowCall
  <2> QED
    BY <1>a, <2>1, <2>2
<1>12. ASSUME NEW c \in ToolCalls, NEW to \in {"attempt", "skipped", "preserved"}, OnToolError(c, to)
       PROVE  PlanBounds'
  <2>1. PlanEvent \/ Calm
    BY <1>12, ShowsOrFails DEF OnToolError, ShowEnd
  <2>2. showing'.attempts = showing.attempts
    BY <1>0, <1>12 DEF OnToolError
  <2> QED
    BY <1>a, <2>1, <2>2
<1>13. CASE UNCHANGED planVars
  BY <1>13 DEF planVars, PlanBounds
<1> QED
  BY <1>1, <1>2, <1>3, <1>4, <1>5, <1>6, <1>7, <1>8, <1>9, <1>10, <1>11, <1>12, <1>13 DEF PlanNext

LEMMA PlanBoundsStart == PlanInit => PlanBounds
BY PlanAssumption DEF PlanInit, NoCalls, PlanBounds

LEMMA PlanTypesHold == PlanInv /\ PlanBounds => PlanTypeOK
<1> SUFFICES ASSUME PlanInv, PlanBounds PROVE PlanTypeOK
  OBVIOUS
<1>1. /\ showing \in [at : PlanPlaces, pending : SUBSET ToolCalls, running : SUBSET ToolCalls,
                      made : SUBSET StepNames, attempts : Nat]
      /\ plans \in Seq(TaskMaps)
      /\ session \in [status : {"active", "processing"}, kept : BOOLEAN, ticking : BOOLEAN]
      /\ stuck \in BOOLEAN
  BY DEF PlanInv, PlanTyped
<1>2. /\ block.ts \in {0} \cup DOMAIN plans /\ block.earlier \cup spoilt \subseteq DOMAIN plans
      /\ showing.pending \cup showing.running \subseteq showing.made
  BY DEF PlanInv, PlanIsPosted
<1>3. ASSUME NEW m \in DOMAIN plans PROVE InStatus(plans[m], {InProgress} \cup Finished) = DOMAIN plans[m]
  <2>1. plans[m] \in TaskMaps
    BY <1>1
  <2>2. plans[m] \in [DOMAIN plans[m] -> {InProgress} \cup Finished]
    BY <2>1, TaskMapIs
  <2> QED
    BY <2>2 DEF InStatus
<1>4. showing.made \subseteq ToolCalls \cup Thoughts
  BY <1>1 DEF StepNames
<1>5. showing.pending \cup showing.running \subseteq ToolCalls \cap showing.made
  BY <1>1, <1>2
<1> QED
  BY <1>1, <1>2, <1>3, <1>4, <1>5 DEF PlanTypeOK, PlanBounds
----------------------------------------------------------------------------
(* The talk in a huddle: its invariant has its types.                       *)

LEMMA TalkTypesHold == TalkInv => TalkTypeOK
<1> SUFFICES ASSUME TalkInv PROVE TalkTypeOK
  OBVIOUS
<1>1. RestTyped /\ TalkState(talk) /\ EarState(talk, ear)
  BY DEF TalkInv, TalkGood
<1>2. /\ talk.heard \in Seq(SUBSET Lines) /\ talk.replies \in Seq(ReplyRecord)
      /\ {talk.reply, talk.spec} \subseteq 0..Len(talk.replies)
  BY <1>1 DEF TalkState, TalkRecord
<1>3. ear.spec \in 0..Len(talk.replies) /\ ear.line \in Lines \cup {NoLine}
  BY <1>1 DEF EarState, EarRecord
<1>4. hand.reply \in 0..Len(talk.replies) /\ hand.line \in Lines \cup {NoLine}
  BY <1>1 DEF RestTyped
<1>5. ASSUME NEW r \in DOMAIN talk.replies
      PROVE  talk.replies[r].lines \subseteq Lines /\ talk.replies[r].at \in {"running", "cancelled", "over"}
  <2>1. talk.replies[r] \in ReplyRecord
    BY <1>2
  <2> QED
    BY <2>1 DEF ReplyRecord
<1> QED
  BY <1>1, <1>2, <1>3, <1>4, <1>5 DEF TalkTypeOK, RestTyped
----------------------------------------------------------------------------
(* Web conversations: what WebInv leaves open.                              *)

(* The rest of a web conversation's state.                                  *)
StoreTyped ==
  /\ listing \in {"none", "untitled", "derived", "byHand"}
  /\ deleting \in {"idle", "unlisted", "removed", "done"}
  /\ bootStage \in {"starting", "resumed", "up"} /\ resuming \in BOOLEAN
TurnTyped == webRun \subseteq WebWorkers /\ webSteered \in Nat /\ webRecord \in BOOLEAN
WebRest   == StoreTyped /\ TurnTyped

LEMMA WebRestStep == WebRest /\ [WebNext]_webVars => WebRest'
<1> SUFFICES ASSUME WebRest, [WebNext]_webVars PROVE WebRest'
  OBVIOUS
<1> USE DEF WebRest
<1>a. ASSUME UNCHANGED storeVars PROVE StoreTyped'
  BY <1>a DEF storeVars, StoreTyped
<1>b. ASSUME UNCHANGED turnVars PROVE TurnTyped'
  BY <1>b DEF turnVars, TurnTyped
<1>1. ASSUME NEW m \in WebMessages, Message(m) PROVE WebRest'
  <2>1. ASSUME NameIt(m) PROVE WebRest'
    BY <1>b, <2>1 DEF NameIt, StoreTyped
  <2>2. ASSUME SteerMessage(m) PROVE WebRest'
    BY <1>a, <2>2 DEF SteerMessage, TurnTyped
  <2>3. ASSUME NEW w \in WebWorkers, SubmitTurn(m, w) PROVE WebRest'
    BY <1>a, <1>b, <2>3 DEF SubmitTurn
  <2>4. ASSUME \/ PostMessage(m) \/ RefuseMessage(m) \/ EndRefused(m) \/ SeeTitle(m) \/ SeeRun(m)
               \/ CheckMark(m)
        PROVE  WebRest'
    BY <1>a, <1>b, <2>4 DEF PostMessage, RefuseMessage, EndRefused, SeeTitle, SeeRun, CheckMark
  <2> QED
    BY <1>1, <2>1, <2>2, <2>3, <2>4 DEF Message
<1>2. ASSUME NEW w \in WebWorkers, WorkerStep(w) PROVE WebRest'
  <2>1. ASSUME EnterTurn(w) \/ ShowStep(w) \/ LeaveRun(w) \/ DrainQueue(w) PROVE WebRest'
    <3>1. UNCHANGED storeVars
      BY <2>1 DEF EnterTurn, ShowStep, LeaveRun, DrainQueue
    <3>2. ASSUME EnterTurn(w) PROVE TurnTyped'
      <4>1. webRun' \in {webRun, {w}} /\ UNCHANGED webSteered /\ (webRecord' = TRUE \/ UNCHANGED webRecord)
        BY <3>2 DEF EnterTurn
      <4> QED
        BY <4>1 DEF TurnTyped
    <3>3. ASSUME ShowStep(w) PROVE TurnTyped'
      BY <3>3 DEF ShowStep, TurnTyped
    <3>4. ASSUME LeaveRun(w) PROVE TurnTyped'
      BY <3>4 DEF LeaveRun, TurnTyped
    <3>5. ASSUME DrainQueue(w) PROVE TurnTyped'
      BY <3>5 DEF DrainQueue, TurnTyped
    <3> QED
      BY <1>a, <2>1, <3>1, <3>2, <3>3, <3>4, <3>5
  <2>2. ASSUME ResumeOrphan(w) PROVE WebRest'
    BY <2>2 DEF ResumeOrphan, StoreTyped, TurnTyped
  <2>3. ASSUME SubmitWoken(w) \/ ShowStart(w) \/ ReportFailure(w) \/ FinishTurn(w) \/ NoteRestart(w)
        PROVE  WebRest'
    BY <1>a, <1>b, <2>3 DEF SubmitWoken, ShowStart, ReportFailure, FinishTurn, NoteRestart
  <2> QED
    BY <1>2, <2>1, <2>2, <2>3 DEF WorkerStep
<1>3. ASSUME NEW s \in Streams, Connect(s) \/ Replay(s) \/ GoLive(s) \/ PassOn(s) \/ Disconnect(s)
      PROVE  WebRest'
  BY <1>a, <1>b, <1>3 DEF Connect, Replay, GoLive, PassOn, Disconnect
<1>4. ASSUME NEW t \in Writers, Tell(t) PROVE WebRest'
  BY <1>a, <1>b, <1>4 DEF Tell
<1>5. ASSUME SeeNoRun \/ WakeConversation PROVE WebRest'
  BY <1>a, <1>b, <1>5 DEF SeeNoRun, WakeConversation
<1>6. ASSUME Rename \/ Unlist \/ RemoveLog \/ ForgetConversation PROVE WebRest'
  BY <1>b, <1>6 DEF Rename, Unlist, RemoveLog, ForgetConversation, StoreTyped
<1>7. ASSUME WebDies PROVE WebRest'
  BY <1>7 DEF WebDies, StoreTyped, TurnTyped
<1>8. ASSUME ReadForRepair \/ EndOrphan PROVE WebRest'
  BY <1>b, <1>8 DEF ReadForRepair, EndOrphan, StoreTyped
<1>9. ASSUME UNCHANGED webVars PROVE WebRest'
  BY <1>a, <1>b, <1>9 DEF webVars, storeVars, turnVars
<1> QED
  BY <1>1, <1>2, <1>3, <1>4, <1>5, <1>6, <1>7, <1>8, <1>9 DEF WebNext

LEMMA WebRestStart == WebInit => WebRest
<1>1. WebInit => StoreTyped
  BY DEF WebInit, StoreTyped
<1>2. WebInit => webRecord \in BOOLEAN
  <2>1. WebInit => webRecord = FALSE
    BY DEF WebInit
  <2> QED
    BY <2>1, Zenon
<1>3. WebInit => TurnTyped
  BY <1>2 DEF WebInit, TurnTyped
<1> QED
  BY <1>1, <1>3 DEF WebRest

LEMMA WebTypesHold == WebInv /\ WebRest => WebTypeOK
<1> SUFFICES ASSUME WebInv, WebRest PROVE WebTypeOK
  OBVIOUS
<1>1. StoreTyped /\ TurnTyped /\ WebTyped /\ NumbersRise
  BY DEF WebInv, WebRest
<1>2. {webRecord, resuming} \subseteq BOOLEAN
  BY <1>1 DEF StoreTyped, TurnTyped
<1>3. /\ \A i \in DOMAIN eventLog : eventLog[i] \in LogEvents
      /\ \A u \in untold : u.seq \in Nat /\ u.by \in Writers
      /\ lastSeq \in Nat /\ DOMAIN writer = Writers
  BY <1>1 DEF WebTyped
<1> QED
  BY <1>1, <1>2, <1>3 DEF WebTypeOK, StoreTyped, TurnTyped, NumbersRise, LogEvents
----------------------------------------------------------------------------
(* All the parts: the one that moves keeps its invariant and its types.     *)
ServicesInv ==
  /\ focus = "chain" => ChainInv /\ ChainTypes
  /\ focus = "consent" => ConsentTypeInv
  /\ focus = "skills" => SkillInv /\ SkillTypes
  /\ focus = "access" => AccessInv /\ AccessTypes
  /\ focus = "mentions" => MentionsInv /\ MentionsRest
  /\ focus = "tasks" => TasksInv
  /\ focus = "reminders" => RemindersInv
  /\ focus = "waits" => WaitsInv
  /\ focus = "rotation" => RotationInv
  /\ focus = "web" => WebInv /\ WebRest
  /\ focus = "huddle" => HuddleInv
  /\ focus = "talk" => TalkInv
  /\ focus = "memory" => MemoryInv /\ MemoryFits /\ MemoryBounds
  /\ focus = "plan" => PlanInv /\ PlanBounds
  /\ focus = "subagents" => BudgetInv
  /\ focus = "bots" => InstallInv

LEMMA ServicesStart == Init => ServicesInv
BY ChainStart, ChainTypesStart, ConsentTypeInit, SkillsStart, SkillTypesStart, AccessStart, AccessTypesStart, MentionsStart, MentionsRestStart, TasksStart, RemindersStart, WaitsStart, RotationStart, WebAtFirst, WebRestStart, HuddleAtFirst, TalkAtFirst, MemoryStart, MemoryRestStart, PlanAtFirst, PlanBoundsStart, BudgetHoldsAtFirst, InstallHoldsAtFirst
DEF Init, ServicesInv

(* A step of the instance is one of the part it lets move, or none of it's. *)
LEMMA OnePartMoves ==
  ASSUME [Next]_vars
  PROVE  /\ focus' = focus
         /\ focus = "chain" => [ChainNext]_chainVars
         /\ focus = "consent" => [ConsentNext]_consentVars
         /\ focus = "skills" => [SkillsNext]_skillVars
         /\ focus = "access" => [AccessNext]_accessVars
         /\ focus = "mentions" => [MentionsNext]_mentionVars
         /\ focus = "tasks" => [TasksNext]_taskVars
         /\ focus = "reminders" => [RemindersNext]_reminderVars
         /\ focus = "waits" => [WaitsNext]_waitVars
         /\ focus = "rotation" => [RotationNext]_rotationVars
         /\ focus = "web" => [WebNext]_webVars
         /\ focus = "huddle" => [HuddleNext]_huddleVars
         /\ focus = "talk" => [TalkNext]_talkVars
         /\ focus = "memory" => [MemoryNext]_memoryVars
         /\ focus = "plan" => [PlanNext]_planVars
         /\ focus = "subagents" => [SubagentNext]_subagentVars
         /\ focus = "bots" => [BotNext]_botVars
<1>1. CASE UNCHANGED vars
  BY <1>1 DEF vars
<1>2. CASE Next
  BY <1>2 DEF Next
<1> QED
  BY <1>1, <1>2

LEMMA ServicesStep == ServicesInv /\ [Next]_vars => ServicesInv'
<1> SUFFICES ASSUME ServicesInv, [Next]_vars PROVE ServicesInv'
  OBVIOUS
<1>1. focus' = "chain" => (ChainInv /\ ChainTypes)'
  BY OnePartMoves, ChainStep, ChainTypesStep DEF ServicesInv
<1>2. focus' = "consent" => ConsentTypeInv'
  BY OnePartMoves, ConsentTypeStep DEF ServicesInv
<1>3. focus' = "skills" => (SkillInv /\ SkillTypes)'
  BY OnePartMoves, SkillsStep, SkillTypesStep DEF ServicesInv
<1>4. focus' = "access" => (AccessInv /\ AccessTypes)'
  BY OnePartMoves, AccessStep, AccessTypesStep DEF ServicesInv
<1>5. focus' = "mentions" => (MentionsInv /\ MentionsRest)'
  BY OnePartMoves, MentionsStep, MentionsRestStep DEF ServicesInv
<1>6. focus' = "tasks" => TasksInv'
  BY OnePartMoves, TasksStep DEF ServicesInv
<1>7. focus' = "reminders" => RemindersInv'
  BY OnePartMoves, RemindersStep DEF ServicesInv
<1>8. focus' = "waits" => WaitsInv'
  BY OnePartMoves, WaitsStep DEF ServicesInv
<1>9. focus' = "rotation" => RotationInv'
  BY OnePartMoves, RotationStep DEF ServicesInv
<1>10. focus' = "web" => (WebInv /\ WebRest)'
  BY OnePartMoves, WebInvStep, WebRestStep DEF ServicesInv
<1>11. focus' = "huddle" => HuddleInv'
  BY OnePartMoves, HuddleStep DEF ServicesInv
<1>12. focus' = "talk" => TalkInv'
  BY OnePartMoves, TalkStep DEF ServicesInv
<1>13. focus' = "memory" => (MemoryInv /\ MemoryFits /\ MemoryBounds)'
  BY OnePartMoves, MemoryStep, MemoryRestStep DEF ServicesInv
<1>14. focus' = "plan" => (PlanInv /\ PlanBounds)'
  BY OnePartMoves, PlanInvStep, PlanBoundsStep DEF ServicesInv
<1>15. focus' = "subagents" => BudgetInv'
  BY OnePartMoves, BudgetStep DEF ServicesInv
<1>16. focus' = "bots" => InstallInv'
  BY OnePartMoves, InstallStep DEF ServicesInv
<1> QED
  BY <1>1, <1>2, <1>3, <1>4, <1>5, <1>6, <1>7, <1>8, <1>9, <1>10, <1>11, <1>12, <1>13, <1>14, <1>15, <1>16 DEF ServicesInv

(* Whichever part of the bot runs beside its turns, the state it keeps has  *)
(* the shape its code gives it: every record, queue, file and counter of    *)
(* the providers, stores, listeners, schedules, web conversations, huddles, *)
(* memory, plans, subagents and installs holds what it is declared to hold. *)
THEOREM ServicesAreTyped == Spec => []ServicesTypeOK
<1>1. ServicesInv => ServicesTypeOK
  BY ChainTypesHold, SkillTypesHold, AccessTypesHold, MentionsTypesHold, WebTypesHold, TalkTypesHold, MemoryTypesHold, PlanTypesHold
     DEF ServicesInv, ServicesTypeOK, TasksInv, RemindersInv, WaitsInv, RotationInv, HuddleInv, BudgetInv, InstallInv, ConsentTypeInv
<1> QED
  BY <1>1, ServicesStart, ServicesStep, PTL DEF Spec
============================================================================
