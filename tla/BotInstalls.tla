----------------------------- MODULE BotInstalls -----------------------------
(***************************************************************************)
(* The Slack bots coolton makes for people (agent/tools/slack_bot_deploy.py*)
(* and web/bot_oauth.py): a turn creates the app, a person's browser comes *)
(* back from Slack's install dialog with a code, a turn may register the   *)
(* tokens by hand, and deploys the bot with them from the sandbox. They    *)
(* share ~/.coolton_bots.json, which each of them loads and saves whole,   *)
(* without a lock.                                                         *)
(***************************************************************************)
EXTENDS Naturals

CONSTANTS
  Apps,           (* app ids; the bots' uuids                                *)
  BotUsers,       (* attribution_user_id of the people who ask               *)
  BotMaintainer,  (* ADMIN_USER_ID                                           *)
  BotCalls,       (* tool calls and callbacks under way at once              *)
  NoApp,
  MaxBotFaults    (* bound: failed reads, writes and removals                *)

ASSUME BotInstallsAssumption ==
  NoApp \notin Apps \cup BotUsers /\ MaxBotFaults \in Nat

VARIABLES
  botStore,       (* STORE: each bot's owner and token                       *)
  botCall,        (* each call: where it stands, its app, the store it read  *)
  installLink,    (* each app's oauth_authorize_url: its signed state        *)
  saidInstalled,  (* apps whose callback answered "App installed"            *)
  secretsFile,    (* .env_slack of the working directory: whose secrets      *)
  crossed,        (* history: a save was of a store that had changed         *)
  botFaults

botVars == <<botStore, botCall, installLink, saidInstalled, secretsFile, crossed, botFaults>>

Bot(u, t)  == [owner |-> u, token |-> t]
BotRecords == [owner : BotUsers \cup {NoApp}, token : {"none", "given", "installed"}]
NoBot      == Bot(NoApp, "none")
NoBots     == [a \in Apps |-> NoBot]
BotStores  == [Apps -> BotRecords]

BotCall(l, o, a, u, s) == [pc |-> l, op |-> o, app |-> a, by |-> u, copy |-> s]
BotCallStates ==
  [pc : {"idle", "made", "saving", "exchanging", "exchanged", "connecting", "deploying"},
   op : {"create", "register", "install", "deploy"}, app : Apps \cup {NoApp},
   by : BotUsers \cup {NoApp}, copy : BotStores]
NoBotCall == BotCall("idle", "deploy", NoApp, NoApp, NoBots)

(* _owned_record: its owner, or the maintainer.                             *)
Manages(u, a, s) == s[a] # NoBot /\ u \in {s[a].owner, BotMaintainer}

(* check_bot_install_status. *)
InstallStatus(a) == IF botStore[a].token = "none" THEN "not_installed" ELSE "installed"

Saving(c) == botCall[c].pc = "saving"

BotCallGoes(c, l) == botCall' = [botCall EXCEPT ![c].pc = l]
BotCallEnds(c)    == botCall' = [botCall EXCEPT ![c] = NoBotCall]

BotFault == botFaults < MaxBotFaults /\ botFaults' = botFaults + 1

----------------------------------------------------------------------------
BotInit ==
  /\ botStore = NoBots
  /\ botCall = [c \in BotCalls |-> NoBotCall]
  /\ installLink = [a \in Apps |-> "none"]
  /\ saidInstalled = {}
  /\ secretsFile = NoApp
  /\ crossed = FALSE
  /\ botFaults = 0

(* _load: a file that cannot be read is an empty store. What a call loads   *)
(* while another is between its load and its save crosses that save.        *)
LoadStore(c, s) ==
  /\ \/ s = botStore /\ UNCHANGED botFaults
     \/ s = NoBots /\ BotFault
  /\ crossed' = (crossed \/ s # botStore \/ \E d \in BotCalls \ {c} : Saving(d))

(* create_slack_bot: Slack validates the manifest and makes the app, ...    *)
CreateApp(c, u, a) ==
  /\ botCall[c] = NoBotCall
  /\ installLink[a] = "none" /\ botStore[a] = NoBot
  /\ \A d \in BotCalls : botCall[d].app # a
  /\ botCall' = [botCall EXCEPT ![c] = BotCall("made", "create", a, u, NoBots)]
  /\ UNCHANGED <<botStore, installLink, saidInstalled, secretsFile, crossed, botFaults>>

(* ... and the store is read, to be saved with the new record.              *)
AddBot(c, s) ==
  LET call == botCall[c] IN
  /\ call.pc = "made"
  /\ LoadStore(c, s)
  /\ botCall' = [botCall EXCEPT ![c] =
                   BotCall("saving", call.op, call.app, NoApp, [s EXCEPT ![call.app] = Bot(call.by, "none")])]
  /\ UNCHANGED <<botStore, installLink, saidInstalled, secretsFile>>

(* register_bot_tokens: the owner's own tokens.                             *)
RegisterTokens(c, u, a, s) ==
  /\ botCall[c] = NoBotCall
  /\ Manages(u, a, s)
  /\ LoadStore(c, s)
  /\ botCall' = [botCall EXCEPT ![c] =
                   BotCall("saving", "register", a, NoApp, [s EXCEPT ![a] = Bot(s[a].owner, "given")])]
  /\ UNCHANGED <<botStore, installLink, saidInstalled, secretsFile>>

(* _save; then create_slack_bot signs the link, and a callback says so.     *)
SaveStore(c) ==
  LET call == botCall[c] IN
  /\ Saving(c)
  /\ botStore' = call.copy
  /\ installLink' = IF call.op = "create" THEN [installLink EXCEPT ![call.app] = "live"] ELSE installLink
  /\ saidInstalled' = IF call.op = "install" THEN saidInstalled \cup {call.app} ELSE saidInstalled
  /\ BotCallEnds(c)
  /\ UNCHANGED <<secretsFile, crossed, botFaults>>

SaveStoreFails(c) ==
  /\ Saving(c)
  /\ BotFault
  /\ BotCallEnds(c)
  /\ UNCHANGED <<botStore, installLink, saidInstalled, secretsFile, crossed>>

----------------------------------------------------------------------------
(* verify: the link's state was signed here for this app, ...               *)
LinkIsGood(a) == installLink[a] = "live"

(* ... and verify_install_state: less than a day ago.                       *)
LinkExpires(a) ==
  /\ LinkIsGood(a)
  /\ installLink' = [installLink EXCEPT ![a] = "expired"]
  /\ UNCHANGED <<botStore, botCall, saidInstalled, secretsFile, crossed, botFaults>>

(* bot_oauth_callback: the state and the record are good, and a code came.  *)
InstallCallback(c, a) ==
  /\ botCall[c] = NoBotCall
  /\ LinkIsGood(a) /\ botStore[a] # NoBot
  /\ botCall' = [botCall EXCEPT ![c] = BotCall("exchanging", "install", a, NoApp, botStore)]
  /\ UNCHANGED <<botStore, installLink, saidInstalled, secretsFile, crossed, botFaults>>

(* _exchange_code, half a minute at most: a bot token, or none.             *)
ExchangeCode(c) ==
  /\ botCall[c].pc = "exchanging"
  /\ BotCallGoes(c, "exchanged") \/ BotCallEnds(c)
  /\ UNCHANGED <<botStore, installLink, saidInstalled, secretsFile, crossed, botFaults>>

(* Mutant of StoreInstalled: the token goes into the store read before.     *)
StoreStale(c, s) ==
  LET call == botCall[c] IN
  /\ call.pc = "exchanged"
  /\ LoadStore(c, s)
  /\ botCall' = [botCall EXCEPT ![c] = BotCall("saving", "install", call.app, NoApp,
                   [call.copy EXCEPT ![call.app] = Bot(call.copy[call.app].owner, "installed")])]
  /\ UNCHANGED <<botStore, installLink, saidInstalled, secretsFile>>

(* store_installed_bot_token: the store is read again, and may no longer    *)
(* have the app.                                                            *)
StoreInstalled(c, s) ==
  LET call == botCall[c] IN
  /\ call.pc = "exchanged"
  /\ LoadStore(c, s)
  /\ IF s[call.app] = NoBot THEN BotCallEnds(c)
     ELSE botCall' = [botCall EXCEPT ![c] = BotCall("saving", "install", call.app, NoApp,
                        [s EXCEPT ![call.app] = Bot(s[call.app].owner, "installed")])]
  /\ UNCHANGED <<botStore, installLink, saidInstalled, secretsFile>>

----------------------------------------------------------------------------
(* wrangler_bot_deploy: the record is read; the sandbox is found; ...       *)
DeployBot(c, u, a) ==
  /\ botCall[c] = NoBotCall
  /\ Manages(u, a, botStore) /\ InstallStatus(a) = "installed"
  /\ botCall' = [botCall EXCEPT ![c] = BotCall("connecting", "deploy", a, NoApp, NoBots)]
  /\ UNCHANGED <<botStore, installLink, saidInstalled, secretsFile, crossed, botFaults>>

(* ... the secrets are written, or the sandbox or the write fails, and then *)
(* whatever lies there is removed, ...                                      *)
WriteSecrets(c) ==
  /\ botCall[c].pc = "connecting"
  /\ \/ secretsFile' = botCall[c].app /\ BotCallGoes(c, "deploying")
     \/ secretsFile' \in {secretsFile, NoApp} /\ BotCallEnds(c)
  /\ UNCHANGED <<botStore, installLink, saidInstalled, crossed, botFaults>>

(* ... and whatever wrangler does, they are removed; that may fail unheard. *)
RemoveSecrets(c) ==
  /\ botCall[c].pc = "deploying"
  /\ BotCallEnds(c)
  /\ \/ secretsFile' = NoApp /\ UNCHANGED botFaults
     \/ BotFault /\ UNCHANGED secretsFile
  /\ UNCHANGED <<botStore, installLink, saidInstalled, crossed>>

----------------------------------------------------------------------------
BotNext ==
  \/ \E c \in BotCalls :
       \/ SaveStore(c) \/ SaveStoreFails(c) \/ ExchangeCode(c) \/ WriteSecrets(c) \/ RemoveSecrets(c)
       \/ \E s \in {botStore, NoBots} : AddBot(c, s) \/ StoreInstalled(c, s)
       \/ \E a \in Apps : InstallCallback(c, a)
       \/ \E a \in Apps, u \in BotUsers : CreateApp(c, u, a) \/ DeployBot(c, u, a)
       \/ \E a \in Apps, u \in BotUsers, s \in {botStore, NoBots} : RegisterTokens(c, u, a, s)
  \/ \E a \in Apps : LinkExpires(a)

BotSpec == BotInit /\ [][BotNext]_botVars

----------------------------------------------------------------------------
BotTypeOK ==
  /\ botStore \in BotStores
  /\ botCall \in [BotCalls -> BotCallStates]
  /\ installLink \in [Apps -> {"none", "live", "expired"}]
  /\ saidInstalled \subseteq Apps
  /\ secretsFile \in Apps \cup {NoApp}
  /\ crossed \in BOOLEAN
  /\ botFaults \in Nat

(* A bot whose install page said "App installed" is one a turn can deploy,  *)
(* unless two calls saved the store over each other or could not read it:   *)
(* the exchange with Slack lasts half a minute, and others create, register *)
(* and install meanwhile.                                                   *)
InstallIsKept == ~crossed => \A a \in saidInstalled : InstallStatus(a) = "installed"
============================================================================
