----------------------------- MODULE MCServices -----------------------------
(* The parts of the bot that share no state with one another: the instance  *)
(* lets one of them act from its initial states while the others keep       *)
(* still, in one of their initial states, so that it has the sum of their   *)
(* states instead of the product.                                           *)
EXTENDS ProviderChain, PolicyConsent, SkillReview, SandboxAccess, Mentions, ScheduledTasks,
        Reminders, Waits, TokenRotation, WebConversation, Huddle, HuddleTalk, ThreadMemory,
        PlanBlock, Subagents, BotInstalls, TLC

CONSTANTS hcai_0, hcai_1, groq, jev, byok, HcaiFamily, GroqFamily, ByokFamily, k1, k2, k3

MCPriority   == <<hcai_0, groq, hcai_1>>
MCFamily     == (hcai_0 :> HcaiFamily) @@ (hcai_1 :> HcaiFamily) @@ (groq :> GroqFamily)
                @@ (jev :> HcaiFamily) @@ (byok :> ByokFamily)
MCFamilyKeys == (HcaiFamily :> <<k1, k2>>) @@ (GroqFamily :> <<k3>>) @@ (ByokFamily :> <<>>)
MCWindows    == {[observeAt |-> 2, keep |-> 1]}
MCWebSpent   == [wakes: {0}, tabs: 0..2, faults: 0..1] \cup [wakes: 0..1, tabs: {0}, faults: {0}]

VARIABLE focus

vars == <<focus, chainVars, consentVars, skillVars, accessVars, mentionVars, taskVars, reminderVars,
          waitVars, rotationVars, webVars, huddleVars, talkVars, memoryVars, planVars, subagentVars,
          botVars>>

Init ==
  /\ focus \in {"chain", "consent", "skills", "access", "mentions", "tasks", "reminders", "waits",
               "rotation", "web", "huddle", "talk", "memory", "plan", "subagents", "bots"}
  /\ ChainInit /\ ConsentInit /\ SkillsInit /\ AccessInit /\ MentionsInit /\ TasksInit /\
     RemindersInit /\ WaitsInit /\ RotationInit /\ WebInit /\ HuddleInit /\ TalkInit /\
     MemoryInit /\ PlanInit /\ SubagentInit /\ BotInit
  /\ focus # "consent" => members = {}
  /\ focus # "access" => box = CHOOSE b \in Boxes : TRUE
  /\ focus # "mentions" => channel.kind = "none"
  /\ focus # "huddle" => live = 0

Next ==
  /\ UNCHANGED focus
  /\ \/ focus = "chain" /\ ChainNext
        /\ UNCHANGED <<consentVars, skillVars, accessVars, mentionVars, taskVars,
                        reminderVars, waitVars, rotationVars, webVars, huddleVars, talkVars,
                        memoryVars, planVars, subagentVars, botVars>>
     \/ focus = "consent" /\ ConsentNext
        /\ consentSpent'.moves + consentSpent'.outs + consentSpent'.deaths <= 2
        /\ UNCHANGED <<chainVars, skillVars, accessVars, mentionVars, taskVars,
                        reminderVars, waitVars, rotationVars, webVars, huddleVars, talkVars,
                        memoryVars, planVars, subagentVars, botVars>>
     \/ focus = "skills" /\ SkillsNext
        /\ UNCHANGED <<chainVars, consentVars, accessVars, mentionVars, taskVars,
                        reminderVars, waitVars, rotationVars, webVars, huddleVars, talkVars,
                        memoryVars, planVars, subagentVars, botVars>>
     \/ focus = "access" /\ AccessNext
        /\ proxyStarts' + Cardinality(old') <= 1
        /\ ((\E q \in Requests : request'[q].kind # "tools") => old' = {} /\ Cardinality(issued') <= 1)
        /\ UNCHANGED <<chainVars, consentVars, skillVars, mentionVars, taskVars,
                        reminderVars, waitVars, rotationVars, webVars, huddleVars, talkVars,
                        memoryVars, planVars, subagentVars, botVars>>
     \/ focus = "mentions" /\ MentionsNext
        /\ mentionSpent'.news + mentionSpent'.late + mentionSpent'.reboots <= 2
        /\ UNCHANGED <<chainVars, consentVars, skillVars, accessVars, taskVars,
                        reminderVars, waitVars, rotationVars, webVars, huddleVars, talkVars,
                        memoryVars, planVars, subagentVars, botVars>>
     \/ focus = "tasks" /\ TasksNext
        /\ UNCHANGED <<chainVars, consentVars, skillVars, accessVars, mentionVars,
                        reminderVars, waitVars, rotationVars, webVars, huddleVars, talkVars,
                        memoryVars, planVars, subagentVars, botVars>>
     \/ focus = "reminders" /\ RemindersNext
        /\ reminderSpent'.lost + reminderSpent'.saves + reminderSpent'.boots <= 2
        /\ UNCHANGED <<chainVars, consentVars, skillVars, accessVars, mentionVars, taskVars,
                        waitVars, rotationVars, webVars, huddleVars, talkVars, memoryVars,
                        planVars, subagentVars, botVars>>
     \/ focus = "waits" /\ WaitsNext
        /\ waitSpent'.ends + waitSpent'.outages + waitSpent'.faults <= 2
        /\ UNCHANGED <<chainVars, consentVars, skillVars, accessVars, mentionVars, taskVars,
                        reminderVars, rotationVars, webVars, huddleVars, talkVars,
                        memoryVars, planVars, subagentVars, botVars>>
     \/ focus = "rotation" /\ RotationNext
        /\ UNCHANGED <<chainVars, consentVars, skillVars, accessVars, mentionVars, taskVars,
                        reminderVars, waitVars, webVars, huddleVars, talkVars, memoryVars,
                        planVars, subagentVars, botVars>>
     \/ focus = "web" /\ WebNext
        /\ webSpent' \in MCWebSpent
        /\ UNCHANGED <<chainVars, consentVars, skillVars, accessVars, mentionVars, taskVars,
                        reminderVars, waitVars, rotationVars, huddleVars, talkVars,
                        memoryVars, planVars, subagentVars, botVars>>
     \/ focus = "huddle" /\ HuddleNext
        /\ huddleSpent' + huddleCount' <= (IF \A t \in Joiners : joiner'[t].pc # "idle" THEN 2 ELSE 4)
        /\ UNCHANGED <<chainVars, consentVars, skillVars, accessVars, mentionVars, taskVars,
                        reminderVars, waitVars, rotationVars, webVars, talkVars, memoryVars,
                        planVars, subagentVars, botVars>>
     \/ focus = "talk" /\ TalkNext
        /\ Cardinality({l \in Lines : sentLines'[l] # "unsent"}) + Len(talk'.replies) <= 4
        /\ UNCHANGED <<chainVars, consentVars, skillVars, accessVars, mentionVars, taskVars,
                        reminderVars, waitVars, rotationVars, webVars, huddleVars,
                        memoryVars, planVars, subagentVars, botVars>>
     \/ focus = "memory" /\ MemoryNext
        /\ (thread' <= 2 \/ (memoryFaults' = 0 /\ run'.calls = 0))
        /\ UNCHANGED <<chainVars, consentVars, skillVars, accessVars, mentionVars, taskVars,
                        reminderVars, waitVars, rotationVars, webVars, huddleVars, talkVars,
                        planVars, subagentVars, botVars>>
     \/ focus = "plan" /\ PlanNext
        /\ planEvents' + showing'.attempts <= 2
        /\ UNCHANGED <<chainVars, consentVars, skillVars, accessVars, mentionVars, taskVars,
                        reminderVars, waitVars, rotationVars, webVars, huddleVars, talkVars,
                        memoryVars, subagentVars, botVars>>
     \/ focus = "subagents" /\ SubagentNext
        /\ toolUses' + runEvents' <= 4
        /\ UNCHANGED <<chainVars, consentVars, skillVars, accessVars, mentionVars, taskVars,
                        reminderVars, waitVars, rotationVars, webVars, huddleVars, talkVars,
                        memoryVars, planVars, botVars>>
     \/ focus = "bots" /\ BotNext
        /\ ~crossed' /\ botFaults' + Cardinality({a \in Apps : installLink'[a] = "expired"}) + (IF secretsFile' = NoApp THEN 0 ELSE 1) <= 1
        /\ UNCHANGED <<chainVars, consentVars, skillVars, accessVars, mentionVars, taskVars,
                        reminderVars, waitVars, rotationVars, webVars, huddleVars, talkVars,
                        memoryVars, planVars, subagentVars>>

Spec == Init /\ [][Next]_vars

(* The shape of every part's state: those that keep still are in one of     *)
(* their initial states, which are checked when it is their turn.           *)
ServicesTypeOK ==
  /\ focus = "chain" => ChainTypeOK
  /\ focus = "consent" => ConsentTypeOK
  /\ focus = "skills" => SkillsTypeOK
  /\ focus = "access" => AccessTypeOK
  /\ focus = "mentions" => MentionsTypeOK
  /\ focus = "tasks" => TasksTypeOK
  /\ focus = "reminders" => RemindersTypeOK
  /\ focus = "waits" => WaitsTypeOK
  /\ focus = "rotation" => RotationTypeOK
  /\ focus = "web" => WebTypeOK
  /\ focus = "huddle" => HuddleTypeOK
  /\ focus = "talk" => TalkTypeOK
  /\ focus = "memory" => MemoryTypeOK
  /\ focus = "plan" => PlanTypeOK
  /\ focus = "subagents" => SubagentTypeOK
  /\ focus = "bots" => BotTypeOK
============================================================================
