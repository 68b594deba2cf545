------------------------------ MODULE MCTurns ------------------------------
(* One thread's turns.  The instance is the union of six: a state is        *)
(* explored when it is within one plan, a smaller set of bounds.             *)
EXTENDS MCThreadTurns

(* Three messages of two people: steering and draining. *)
Busy == [messages |-> {m1, m2, m3}, crashes |-> 0, stops |-> 0, bans |-> 0, stale |-> FALSE, disk |-> FALSE]

(* Two messages, as in the plans below: deaths and restarts, while the      *)
(* turns run or start.                                                      *)
Dying == [messages |-> {m1, m2}, crashes |-> 2, stops |-> 0, bans |-> 0, stale |-> FALSE, disk |-> FALSE]

(* A death, and writes of inflight_runs.json that fail. *)
Failing == [messages |-> {m1, m2}, crashes |-> 1, stops |-> 0, bans |-> 0, stale |-> FALSE, disk |-> TRUE]

(* A death, and runs that outlive their mark. *)
Overlapping == [messages |-> {m1, m2}, crashes |-> 1, stops |-> 0, bans |-> 0, stale |-> TRUE, disk |-> FALSE]

(* A stop, a ban, and runs that outlive their mark. *)
Barring == [messages |-> {m1, m2}, crashes |-> 0, stops |-> 1, bans |-> 1, stale |-> TRUE, disk |-> FALSE]

(* Three messages, the early one only after the death: an early turn beside *)
(* the resumption of a turn that had folded a message in.                   *)
Folding == [messages |-> {m1, m2, m3}, crashes |-> 1, stops |-> 0, bans |-> 0, stale |-> FALSE, disk |-> FALSE]

(* Two turns at once without a death: a run outlived its mark. *)
Outlived == "overlap" \in mishaps /\ spent.crashes = 0

(* In the plan Folding, m3 is folded into m2's turn, coolton dies before the *)
(* turn has an outcome, and m1 comes while it starts again.                 *)
AsFolding ==
  /\ pc[m3] \notin LivePC
  /\ \A w \in Live : turn[w].depth = 0
  /\ IF spent.crashes = 0 THEN pc[m1] = "sent" /\ settled = {}
     ELSE pc[m3] # "sent" /\ (proc = "up" => pc[m1] # "sent" /\ pc[Resumer] = "starting")

Within(plan) ==
  /\ \A m \in Messages \ plan.messages : pc[m] = "sent"
  /\ spent.crashes <= plan.crashes /\ spent.stops <= plan.stops /\ spent.bans <= plan.bans
  /\ Outlived => plan.stale
  /\ "disk" \in mishaps => plan.disk
  /\ plan = Folding => AsFolding

WithinPlans == \E plan \in {Busy, Folding, Dying, Failing, Overlapping, Barring} : Within(plan)

(* A run outlives its mark only where the plan lets it. *)
MarksGoStale ==
  (\E m \in Messages : pc[m] = "sent" /\ pc'[m] = "starting" /\ IsRunActive)
    => Within(Overlapping)' \/ Within(Barring)'

MCSpec == Init /\ [][Next]_vars
============================================================================
