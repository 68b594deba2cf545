--------------------------- MODULE SandboxAccess ---------------------------
(***************************************************************************)
(* What a program in the sandbox reaches on the host: GitHub through       *)
(* github_proxy.py, a service of its own with its list of sandbox tokens,  *)
(* and coolton's tools through agent/tool_proxy.py, which runs each call   *)
(* with the deps of the code_mode run registered for its token.            *)
(*                                                                         *)
(* One thread's sandbox; a code_mode run stands for the deps it registers. *)
(* A token is old after TOKEN_REFRESH_AFTER_SECONDS and expires after      *)
(* TOKEN_TTL_SECONDS.                                                      *)
(***************************************************************************)
EXTENDS Naturals, FiniteSets

CONSTANTS
  Tokens,         (* bound: tokens ever issued                               *)
  Boxes,          (* bound: sandboxes the thread ever has                    *)
  CodeRuns,
  Requests,       (* requests of the scripts                                 *)
  AdminThreads,   (* of the proxy's admin server                             *)
  Unset,
  MaxProxyStarts  (* bound: restarts of github_proxy                         *)

ASSUME SandboxAccessAssumption ==
  Unset \notin Tokens \cup Boxes \cup CodeRuns /\ MaxProxyStarts \in Nat

VARIABLES
  accepted,       (* allowlist._expiry: the tokens let in                    *)
  tokensFile,     (* TOKENS_FILE                                             *)
  old,            (* tokens past the refresh age                             *)
  issued,
  admin,          (* each admin call: where it stands, token and snapshot    *)
  box,            (* the thread's sandbox                                    *)
  proxyCache,     (* _proxy_cache: each sandbox's token                      *)
  registered,     (* _registrations: each token's sandbox and run            *)
  codeRun,        (* each code_mode call: where it stands, sandbox and token *)
  request,        (* each request, who made it, and whose deps it runs with  *)
  proxyStarts

accessVars == <<accepted, tokensFile, old, issued, admin, box, proxyCache, registered,
                codeRun, request, proxyStarts>>
proxyVars  == <<accepted, tokensFile, admin, proxyStarts>>

AdminCall(l, o, t, s) == [pc |-> l, op |-> o, token |-> t, snapshot |-> s]
NoAdminCall == AdminCall("idle", "add", Unset, {})
CodeRun(l, b, t) == [pc |-> l, box |-> b, token |-> t]
NoCodeRun == CodeRun("idle", Unset, Unset)
Request(l, k, r, t, b, d) == [pc |-> l, kind |-> k, run |-> r, token |-> t, box |-> b, deps |-> d]
NoRequest == Request("idle", "tools", Unset, Unset, Unset, Unset)

(* What a request is for: coolton's tools; an upstream that gets the PAT;   *)
(* a Pages host, which does not; a host that is not GitHub's; a call        *)
(* _forbidden_reason names; a body that is refused.                         *)
RequestKinds == {"tools", "github", "pages", "elsewhere", "forbidden", "badbody"}

CodeLockFree == \A r \in CodeRuns : codeRun[r].pc \in {"idle", "done", "unwritten"}

----------------------------------------------------------------------------
AccessInit ==
  /\ accepted = {} /\ tokensFile = {} /\ old = {} /\ issued = {}
  /\ admin = [a \in AdminThreads |-> NoAdminCall]
  /\ box \in Boxes
  /\ proxyCache = [b \in Boxes |-> Unset]
  /\ registered = [t \in Tokens |-> {}]
  /\ codeRun = [r \in CodeRuns |-> NoCodeRun]
  /\ request = [q \in Requests |-> NoRequest]
  /\ proxyStarts = 0

(* An admin call arrives, perhaps while another is under way.               *)
AdminArrives(a, o, t) ==
  /\ admin[a] = NoAdminCall
  /\ admin' = [admin EXCEPT ![a] = AdminCall("called", o, t, {})]
  /\ UNCHANGED <<accepted, tokensFile, proxyStarts>>

(* allowlist.add or remove: one lock.                                       *)
ChangeAllowlist(a) ==
  /\ admin[a].pc = "called"
  /\ accepted' = IF admin[a].op = "add" THEN accepted \cup {admin[a].token} ELSE accepted \ {admin[a].token}
  /\ admin' = [admin EXCEPT ![a].pc = "changed"]
  /\ UNCHANGED <<tokensFile, old, issued, box, proxyCache, registered, codeRun, request, proxyStarts>>

(* allowlist.save: what is live now, under the lock again, ...              *)
SnapshotTokens(a) ==
  /\ admin[a].pc = "changed"
  /\ admin' = [admin EXCEPT ![a].pc = "writing", ![a].snapshot = accepted]
  /\ UNCHANGED <<accepted, tokensFile, old, issued, box, proxyCache, registered, codeRun, request, proxyStarts>>

(* ... and written without it. *)
WriteTokens(a) ==
  /\ admin[a].pc = "writing"
  /\ tokensFile' = admin[a].snapshot
  /\ admin' = [admin EXCEPT ![a].pc = "replied"]
  /\ UNCHANGED <<accepted, old, issued, box, proxyCache, registered, codeRun, request, proxyStarts>>

(* start_proxy after its death: the tokens of the file. *)
ProxyRestarts ==
  /\ proxyStarts < MaxProxyStarts
  /\ proxyStarts' = proxyStarts + 1
  /\ accepted' = tokensFile
  /\ admin' = [a \in AdminThreads |-> IF admin[a].pc = "idle" THEN NoAdminCall ELSE [admin[a] EXCEPT !.pc = "failed"]]
  /\ request' = [q \in Requests |-> IF request[q].pc \in {"idle", "running"} THEN request[q] ELSE [request[q] EXCEPT !.pc = "failed"]]
  /\ UNCHANGED <<tokensFile, old, issued, box, proxyCache, registered, codeRun>>

(* Hours pass. *)
TokenAges(t) ==
  /\ t \in issued
  /\ IF t \notin old THEN old' = old \cup {t} /\ UNCHANGED <<accepted, tokensFile>>
     ELSE accepted' = accepted \ {t} /\ tokensFile' = tokensFile \ {t} /\ UNCHANGED old
  /\ \A a \in AdminThreads : admin[a].pc \in {"idle", "replied", "failed"}
  /\ UNCHANGED <<issued, admin, box, proxyCache, registered, codeRun, request, proxyStarts>>

----------------------------------------------------------------------------
(* Mutant of Enter: two runs of the thread at once.                         *)
EnterUnlocked(r) ==
  /\ codeRun[r] = NoCodeRun
  /\ codeRun' = [codeRun EXCEPT ![r] = CodeRun("entered", box, Unset)]
  /\ UNCHANGED <<proxyVars, old, issued, box, proxyCache, registered, request>>

(* code_mode: one run of the thread at a time.                              *)
Enter(r) ==
  /\ codeRun[r] = NoCodeRun
  /\ CodeLockFree
  /\ codeRun' = [codeRun EXCEPT ![r] = CodeRun("entered", box, Unset)]
  /\ UNCHANGED <<proxyVars, old, issued, box, proxyCache, registered, request>>

(* _fresh_proxy_info: the sandbox's token, unless there is none or it is old. *)
ReuseToken(r) ==
  LET t == proxyCache[codeRun[r].box] IN
  /\ codeRun[r].pc = "entered"
  /\ t # Unset /\ t \notin old
  /\ codeRun' = [codeRun EXCEPT ![r].pc = "ready", ![r].token = t]
  /\ UNCHANGED <<proxyVars, old, issued, box, proxyCache, registered, request>>

IssueToken(r, a, t) ==
  /\ codeRun[r].pc = "entered"
  /\ proxyCache[codeRun[r].box] \in old \cup {Unset}
  /\ t \in Tokens \ issued
  /\ AdminArrives(a, "add", t)
  /\ issued' = issued \cup {t}
  /\ codeRun' = [codeRun EXCEPT ![r].pc = "issuing", ![r].token = t]
  /\ UNCHANGED <<old, box, proxyCache, registered, request>>

(* The call came back; one that fails ends the run.                         *)
TokenIssued(r, a) ==
  /\ codeRun[r].pc = "issuing"
  /\ admin[a].token = codeRun[r].token /\ admin[a].op = "add"
  /\ admin[a].pc \in {"replied", "failed"}
  /\ admin' = [admin EXCEPT ![a] = NoAdminCall]
  /\ IF admin[a].pc = "replied"
       THEN /\ proxyCache' = [proxyCache EXCEPT ![codeRun[r].box] = codeRun[r].token]
            /\ codeRun' = [codeRun EXCEPT ![r].pc = "ready"]
       ELSE codeRun' = [codeRun EXCEPT ![r].pc = "done"] /\ UNCHANGED proxyCache
  /\ UNCHANGED <<accepted, tokensFile, old, issued, box, registered, request, proxyStarts>>

(* register_sandbox. *)
RegisterRun(r) ==
  /\ codeRun[r].pc = "ready"
  /\ registered' = [registered EXCEPT ![codeRun[r].token] = {<<codeRun[r].box, r>>}]
  /\ codeRun' = [codeRun EXCEPT ![r].pc = "registered"]
  /\ UNCHANGED <<proxyVars, old, issued, box, proxyCache, request>>

(* The module and the script are written to the sandbox, and the script     *)
(* starts; a write that raises ends the call ahead of the try whose finally *)
(* unregisters it.                                                          *)
WriteScript(r) ==
  /\ codeRun[r].pc = "registered"
  /\ \E l \in {"running", "unwritten"} : codeRun' = [codeRun EXCEPT ![r].pc = l]
  /\ UNCHANGED <<proxyVars, old, issued, box, proxyCache, registered, request>>

(* The script has exited, so none of its requests is still on its way in,   *)
(* though a tool it called may run on. (A script cut off by its 600 seconds *)
(* could leave one; that is not modelled.)                                  *)
ScriptIsOver(r) == \A q \in Requests : request[q].run = r => request[q].pc \notin {"asked", "admitted"}

(* The command returns or fails: unregister_sandbox, by the sandbox's id,   *)
(* which is also the end of what an earlier call of the sandbox left there. *)
UnregisterRun(r) ==
  /\ codeRun[r].pc = "running"
  /\ ScriptIsOver(r)
  /\ registered' = [t \in Tokens |-> {e \in registered[t] : e[1] # codeRun[r].box}]
  /\ codeRun' = [codeRun EXCEPT ![r].pc = "done"]
  /\ UNCHANGED <<proxyVars, old, issued, box, proxyCache, request>>

(* _recycle_dead_sandbox, in another tool call of the thread: the thread    *)
(* gets a new sandbox, and the dead one's token is revoked.                 *)
RecycleBox(b, a) ==
  /\ b # box /\ proxyCache[b] = Unset
  /\ box' = b
  /\ proxyCache' = [proxyCache EXCEPT ![box] = Unset]
  /\ IF proxyCache[box] = Unset THEN UNCHANGED proxyVars ELSE AdminArrives(a, "remove", proxyCache[box])
  /\ UNCHANGED <<old, issued, registered, codeRun, request>>

(* revoke_sandbox_token, whose failure is only logged. *)
Revoked(a) ==
  /\ admin[a].op = "remove" /\ admin[a].pc \in {"replied", "failed"}
  /\ admin' = [admin EXCEPT ![a] = NoAdminCall]
  /\ UNCHANGED <<accepted, tokensFile, old, issued, box, proxyCache, registered, codeRun, request, proxyStarts>>

----------------------------------------------------------------------------
(* A script's request, first at github_proxy: _forward asks the allowlist.  *)
SendRequest(q, r, k) ==
  /\ request[q] = NoRequest
  /\ codeRun[r].pc = "running"
  /\ request' = [request EXCEPT ![q] = Request("asked", k, r, codeRun[r].token, codeRun[r].box, Unset)]
  /\ UNCHANGED <<proxyVars, old, issued, box, proxyCache, registered, codeRun>>

RequestGoes(q, l) ==
  /\ request' = [request EXCEPT ![q].pc = l]
  /\ UNCHANGED <<proxyVars, old, issued, box, proxyCache, registered, codeRun>>

Admit(q) ==
  /\ request[q].pc = "asked"
  /\ RequestGoes(q, IF request[q].token \in accepted THEN "admitted" ELSE "denied")

(* The other checks of _forward, in its order: the upstream's host, ...     *)
IsAllowedUpstream(k) == k # "elsewhere"

(* ... the body, which must be small enough and decoded to be checked, ...  *)
BodyError(k) == k = "badbody"

(* ... and the calls that are refused.                                      *)
ForbiddenReason(k) == k = "forbidden"

(* Pages hosts are anyone's: they get no PAT. *)
NeedsAuth(k) == k # "pages"

Relay(q) ==
  LET k == request[q].kind IN
  /\ request[q].pc = "admitted" /\ k # "tools"
  /\ RequestGoes(q, IF ~IsAllowedUpstream(k) \/ BodyError(k) \/ ForbiddenReason(k) THEN "denied"
                    ELSE IF NeedsAuth(k) THEN "relayed" ELSE "relayedbare")

(* _forward_to_tools, and do_POST of the tool proxy: the registration of    *)
(* the token, for this sandbox; its deps serve the call to its end.         *)
LookUp(q) ==
  LET found == {e \in registered[request[q].token] : e[1] = request[q].box} IN
  /\ request[q].pc = "admitted" /\ request[q].kind = "tools"
  /\ IF found = {} THEN RequestGoes(q, "denied")
     ELSE /\ request' = [request EXCEPT ![q].pc = "running", ![q].deps = (CHOOSE e \in found : TRUE)[2]]
          /\ UNCHANGED <<proxyVars, old, issued, box, proxyCache, registered, codeRun>>

(* The tool returns, or refuses: an abuse report, a spent Slack budget.     *)
ToolAnswers(q) ==
  /\ request[q].pc = "running"
  /\ RequestGoes(q, "answered")

----------------------------------------------------------------------------
AccessNext ==
  \/ \E a \in AdminThreads : ChangeAllowlist(a) \/ SnapshotTokens(a) \/ WriteTokens(a) \/ Revoked(a)
  \/ ProxyRestarts
  \/ \E t \in Tokens : TokenAges(t)
  \/ \E r \in CodeRuns :
       \/ Enter(r) \/ ReuseToken(r) \/ RegisterRun(r) \/ WriteScript(r) \/ UnregisterRun(r)
       \/ \E a \in AdminThreads : TokenIssued(r, a) \/ \E t \in Tokens : IssueToken(r, a, t)
       \/ \E q \in Requests, k \in RequestKinds : SendRequest(q, r, k)
  \/ \E b \in Boxes, a \in AdminThreads : RecycleBox(b, a)
  \/ \E q \in Requests : Admit(q) \/ Relay(q) \/ LookUp(q) \/ ToolAnswers(q)

AccessSpec == AccessInit /\ [][AccessNext]_accessVars

----------------------------------------------------------------------------
AccessTypeOK ==
  /\ {accepted, tokensFile, old, issued} \subseteq SUBSET Tokens
  /\ \A a \in AdminThreads : admin[a] \in
       [pc : {"idle", "called", "changed", "writing", "replied", "failed"}, op : {"add", "remove"},
        token : Tokens \cup {Unset}, snapshot : SUBSET Tokens]
  /\ box \in Boxes /\ proxyCache \in [Boxes -> Tokens \cup {Unset}]
  /\ registered \in [Tokens -> SUBSET (Boxes \X CodeRuns)]
  /\ \A r \in CodeRuns : codeRun[r] \in
       [pc : {"idle", "entered", "issuing", "ready", "registered", "running", "done", "unwritten"},
        box : Boxes \cup {Unset}, token : Tokens \cup {Unset}]
  /\ \A q \in Requests : request[q].kind \in RequestKinds /\ request[q].deps \in CodeRuns \cup {Unset}
  /\ proxyStarts \in Nat

(* A tool called by a script runs with the deps of the very run that        *)
(* started the script, whatever another run left registered: the runs of a  *)
(* thread share its sandbox and token, and old tokens, recycled sandboxes   *)
(* and restarts of the proxy change both under them. And a run that is over *)
(* stays registered only where its files could not be written.              *)
CodeRunsAsItself ==
  /\ \A q \in Requests : request[q].pc \in {"running", "answered"} /\ request[q].kind = "tools"
       => request[q].deps = request[q].run
  /\ \A t \in Tokens, b \in Boxes, r \in CodeRuns :
       <<b, r>> \in registered[t] => codeRun[r].pc \in {"registered", "running", "unwritten"}
============================================================================
