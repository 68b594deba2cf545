---------------------------- MODULE SkillReview ----------------------------
(***************************************************************************)
(* Changes of the skills every turn is offered (agent.py's skill tools,    *)
(* agent/skill_review.py): the maintainer's own apply at once, anyone      *)
(* else's and kevinton's wait as proposals for the maintainer's click.     *)
(* Nothing serialises two changes on disk, so each is a few steps.         *)
(*                                                                         *)
(* A call is one use of a skill tool, and the id of the proposal it may    *)
(* become.  A SKILL.md is the calls that wrote its two parts.              *)
(***************************************************************************)
EXTENDS Naturals, FiniteSets

CONSTANTS
  SkillCalls,
  Slugs,
  Origin,         (* a SKILL.md's parts before any call                      *)
  Requesters,     (* who asks: people, and kevinton                          *)
  Maintainer,
  AutoAccept,     (* AUTO_ACCEPT_SKILLS                                      *)
  MaxPending,     (* MAX_PENDING_PER_REQUESTER                               *)
  MaxSkillDeaths  (* bound: restarts                                         *)

ASSUME SkillReviewAssumption ==
  /\ Origin \notin SkillCalls
  /\ AutoAccept \in BOOLEAN
  /\ MaxPending \in Nat /\ MaxSkillDeaths \in Nat

VARIABLES
  tree,       (* the skill folders: "skills" (own) and ".agents/skills"      *)
  staged,     (* the calls whose staging directory exists                    *)
  proposals,  (* skill_proposals.json: the calls that wait for a click       *)
  skillCall,  (* each call: where it stands and what it is to change         *)
  skillDeaths

skillVars == <<tree, staged, proposals, skillCall, skillDeaths>>

Folders  == {"own", "agents"}
SkillOps == {"create", "install", "rename", "update", "delete"}

(* What is at a path: nothing, a folder without SKILL.md, or a skill.       *)
Nothing == [kind |-> "none", description |-> Origin, body |-> Origin]
Bare    == [kind |-> "bare", description |-> Origin, body |-> Origin]
SkillMd(d, b) == [kind |-> "skill", description |-> d, body |-> b]

SkillCall(l, o, w, s, t, md, f) ==
  [pc |-> l, op |-> o, who |-> w, slug |-> s, to |-> t, md |-> md, folder |-> f]
NoSkillCall == SkillCall("new", "create", Maintainer, {}, {}, Nothing, "own")

At(f, s)  == tree[<<f, s>>]
Slug(c)   == CHOOSE s \in skillCall[c].slug : TRUE
ToSlug(c) == CHOOSE s \in skillCall[c].to : TRUE

(* _resolve_skill: the first folder that has it, SKILL.md and all.          *)
Homes(s) == {f \in Folders : At(f, s).kind = "skill"}
Home(s)  == IF "own" \in Homes(s) THEN "own" ELSE "agents"

NeedsReview(w) == w # Maintainer /\ ~AutoAccept
PendingOf(w)   == {c \in proposals : skillCall[c].who = w}

----------------------------------------------------------------------------
SkillsInit ==
  /\ tree = [p \in Folders \X Slugs |-> IF p[1] = "own" THEN SkillMd(Origin, Origin) ELSE Nothing]
  /\ staged = {} /\ proposals = {}
  /\ skillCall = [c \in SkillCalls |-> NoSkillCall]
  /\ skillDeaths = 0

(* The tool's own checks passed: it submits the change or applies it.       *)
Begin(c, o, w, s, t, md) ==
  /\ skillCall[c] = NoSkillCall
  /\ skillCall' = [skillCall EXCEPT ![c] =
       SkillCall(IF NeedsReview(w) THEN "submitting" ELSE "applying", o, w, s, t, md, "own")]
  /\ UNCHANGED <<tree, proposals, skillDeaths>>

CreateSkill(c, w, s) ==
  /\ At("own", s).kind = "none"
  /\ Begin(c, "create", w, {s}, {}, SkillMd(c, c))
  /\ UNCHANGED staged

(* install_skill: what the sandbox fetched is staged first. *)
InstallSkill(c, w, s) ==
  /\ Begin(c, "install", w, {s}, {}, SkillMd(c, c))
  /\ staged' = staged \cup {c}

RenameSkill(c, w, s, t) ==
  /\ Homes(s) # {}
  /\ At(Home(s), t).kind = "none"
  /\ Begin(c, "rename", w, {s}, {t}, Nothing)
  /\ UNCHANGED staged

(* update_skill: the part that is not given is the one there is now. *)
UpdateSkill(c, w, s, part) ==
  LET old == At(Home(s), s) IN
  /\ Homes(s) # {}
  /\ Begin(c, "update", w, {s}, {},
       CASE part = "description" -> SkillMd(c, old.body)
         [] part = "body" -> SkillMd(old.description, c)
         [] part = "both" -> SkillMd(c, c))
  /\ UNCHANGED staged

DeleteSkill(c, w, s) ==
  /\ Homes(s) # {}
  /\ Begin(c, "delete", w, {s}, {}, Nothing)
  /\ UNCHANGED staged

(* Mutant of Submit: a refused install leaves its staged files behind.      *)
SubmitKeeping(c) ==
  /\ skillCall[c].pc = "submitting"
  /\ IF Cardinality(PendingOf(skillCall[c].who)) >= MaxPending
       THEN UNCHANGED <<proposals, staged>> /\ skillCall' = [skillCall EXCEPT ![c].pc = "done"]
       ELSE /\ proposals' = proposals \cup {c} /\ UNCHANGED staged
            /\ skillCall' = [skillCall EXCEPT ![c].pc = "waiting"]
  /\ UNCHANGED <<tree, skillDeaths>>

(* skill_review.submit, under its lock. *)
Submit(c) ==
  /\ skillCall[c].pc = "submitting"
  /\ IF Cardinality(PendingOf(skillCall[c].who)) >= MaxPending
       THEN /\ staged' = staged \ {c} /\ UNCHANGED proposals
            /\ skillCall' = [skillCall EXCEPT ![c].pc = "done"]
       ELSE /\ proposals' = proposals \cup {c} /\ UNCHANGED staged
            /\ skillCall' = [skillCall EXCEPT ![c].pc = "waiting"]
  /\ UNCHANGED <<tree, skillDeaths>>

(* The maintainer's click, whose first taker pops the proposal; a reject    *)
(* discards it, an approval applies it in the click's thread.               *)
Approve(c) ==
  /\ c \in proposals
  /\ proposals' = proposals \ {c}
  /\ skillCall' = [skillCall EXCEPT ![c].pc = "applying"]
  /\ UNCHANGED <<tree, staged, skillDeaths>>

Reject(c) ==
  /\ c \in proposals
  /\ proposals' = proposals \ {c}
  /\ skillCall' = [skillCall EXCEPT ![c].pc = "discarding"]
  /\ UNCHANGED <<tree, staged, skillDeaths>>

Discard(c) ==
  /\ skillCall[c].pc = "discarding"
  /\ staged' = staged \ {c}
  /\ skillCall' = [skillCall EXCEPT ![c].pc = "done"]
  /\ UNCHANGED <<tree, proposals, skillDeaths>>

----------------------------------------------------------------------------
(* apply_skill_change: it looks at the folders again, then changes them.    *)
Applies(c, o) == skillCall[c].pc = "applying" /\ skillCall[c].op = o
CallGoes(c, l) == skillCall' = [skillCall EXCEPT ![c].pc = l] /\ UNCHANGED <<proposals, skillDeaths>>
Put(f, s, md) == tree' = [tree EXCEPT ![<<f, s>>] = md]

(* makedirs refuses a folder that is there, whoever made it. *)
MakeFolder(c) ==
  /\ Applies(c, "create")
  /\ IF At("own", Slug(c)).kind = "none"
       THEN Put("own", Slug(c), Bare) /\ CallGoes(c, "writing")
       ELSE UNCHANGED tree /\ CallGoes(c, "done")
  /\ UNCHANGED staged

(* Into whatever the folder holds by now. *)
WriteNew(c) ==
  /\ skillCall[c].pc = "writing" /\ skillCall[c].op = "create"
  /\ IF At("own", Slug(c)).kind = "none" THEN UNCHANGED tree ELSE Put("own", Slug(c), skillCall[c].md)
  /\ UNCHANGED staged
  /\ CallGoes(c, "done")

(* rmtree of the installed one, then move; a move into a folder that came   *)
(* back meanwhile lands inside it.                                          *)
RemoveInstalled(c) ==
  /\ Applies(c, "install")
  /\ Put("agents", Slug(c), Nothing)
  /\ UNCHANGED staged
  /\ CallGoes(c, "moving")

MoveStaged(c) ==
  /\ skillCall[c].pc = "moving"
  /\ IF At("agents", Slug(c)).kind = "none" THEN Put("agents", Slug(c), skillCall[c].md) ELSE UNCHANGED tree
  /\ UNCHANGED staged
  /\ CallGoes(c, "discarding")

(* The folder the skill is in now, or an error. *)
ResolveSkill(c) ==
  /\ skillCall[c].pc = "applying" /\ skillCall[c].op \in {"rename", "update", "delete"}
  /\ LET home == Home(Slug(c))
         good == /\ Homes(Slug(c)) # {}
                 /\ skillCall[c].op = "rename" => At(home, ToSlug(c)).kind = "none"
     IN skillCall' = [skillCall EXCEPT ![c].pc = IF good THEN "writing" ELSE "done", ![c].folder = home]
  /\ UNCHANGED <<tree, staged, proposals, skillDeaths>>

(* os.rename takes the place of an empty folder, and of nothing else.  (The *)
(* name line rewritten after it is not modelled.)                           *)
MoveSkill(c) ==
  LET f == skillCall[c].folder IN
  /\ skillCall[c].pc = "writing" /\ skillCall[c].op = "rename"
  /\ IF At(f, Slug(c)).kind # "none" /\ At(f, ToSlug(c)).kind # "skill"
       THEN tree' = [tree EXCEPT ![<<f, ToSlug(c)>>] = At(f, Slug(c)), ![<<f, Slug(c)>>] = Nothing]
       ELSE UNCHANGED tree
  /\ UNCHANGED staged
  /\ CallGoes(c, "done")

WriteUpdate(c) ==
  LET f == skillCall[c].folder IN
  /\ skillCall[c].pc = "writing" /\ skillCall[c].op = "update"
  /\ IF At(f, Slug(c)).kind = "none" THEN UNCHANGED tree ELSE Put(f, Slug(c), skillCall[c].md)
  /\ UNCHANGED staged
  /\ CallGoes(c, "done")

RemoveSkill(c) ==
  /\ skillCall[c].pc = "writing" /\ skillCall[c].op = "delete"
  /\ Put(skillCall[c].folder, Slug(c), Nothing)
  /\ UNCHANGED staged
  /\ CallGoes(c, "done")

(* The process dies: the calls and clicks under way end where they are.     *)
SkillsDie ==
  /\ skillDeaths < MaxSkillDeaths
  /\ skillDeaths' = skillDeaths + 1
  /\ skillCall' = [c \in SkillCalls |->
       IF skillCall[c].pc \in {"new", "waiting", "done"} THEN skillCall[c]
       ELSE [skillCall[c] EXCEPT !.pc = "cut"]]
  /\ UNCHANGED <<tree, staged, proposals>>

----------------------------------------------------------------------------
ApplyStep(c) ==
  \/ MakeFolder(c) \/ WriteNew(c) \/ RemoveInstalled(c) \/ MoveStaged(c)
  \/ ResolveSkill(c) \/ MoveSkill(c) \/ WriteUpdate(c) \/ RemoveSkill(c)

SkillsNext ==
  \/ \E c \in SkillCalls, w \in Requesters, s \in Slugs :
       \/ CreateSkill(c, w, s) \/ InstallSkill(c, w, s) \/ DeleteSkill(c, w, s)
       \/ \E t \in Slugs : RenameSkill(c, w, s, t)
       \/ \E part \in {"description", "body", "both"} : UpdateSkill(c, w, s, part)
  \/ \E c \in SkillCalls : Submit(c) \/ Approve(c) \/ Reject(c) \/ Discard(c) \/ ApplyStep(c)
  \/ SkillsDie

SkillsSpec == SkillsInit /\ [][SkillsNext]_skillVars

----------------------------------------------------------------------------
SkillsTypeOK ==
  /\ tree \in [Folders \X Slugs -> [kind : {"none", "bare", "skill"},
                 description : SkillCalls \cup {Origin}, body : SkillCalls \cup {Origin}]]
  /\ staged \subseteq SkillCalls /\ proposals \subseteq SkillCalls
  /\ \A c \in SkillCalls :
       /\ skillCall[c].pc \in {"new", "submitting", "waiting", "applying", "writing", "moving", "discarding", "done", "cut"}
       /\ skillCall[c].op \in SkillOps /\ skillCall[c].who \in Requesters \cup {Maintainer}
       /\ {skillCall[c].slug, skillCall[c].to} \subseteq SUBSET Slugs
  /\ skillDeaths \in Nat

(* Staged files are kept for a proposal that still waits or a call that is  *)
(* still running, and for nothing else: a refusal, a rejection, an approval *)
(* that fails and one that succeeds all clean up after themselves.          *)
StagedIsPending ==
  \A c \in staged : c \in proposals \/ skillCall[c].pc \notin {"new", "waiting", "done"}
============================================================================
