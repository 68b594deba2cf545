----------------------------- MODULE MCSandbox -----------------------------
(* One thread's sandbox.  The instance is the sum of two: each behaviour    *)
(* follows one plan, a smaller set of bounds, from its start to its end.    *)
EXTENDS Sandbox, TLC

CONSTANTS c1, c2, s1, s2, t1, t2

MCSymmetry == Permutations({c1, c2}) \cup Permutations({t1, t2}) \cup Permutations({s1, s2})

MCNoHandover == CallKinds \ {"hand", "unhand"}

(* Two calls at once in one turn, and a sandbox E2B recycles. *)
Together == [turns |-> 1, calls |-> 2, screens |-> 0, deletes |-> 0, losses |-> 1, failures |-> 0,
             crashes |-> 0, timers |-> 2]

(* Two turns with a call each, and what can go wrong around them. *)
Faulty == [turns |-> 2, calls |-> 1, screens |-> 0, deletes |-> 1, losses |-> 0, failures |-> 1,
           crashes |-> 1, timers |-> 1]

(* A call beside the huddle's capture, over two turns. *)
Watched == [turns |-> 2, calls |-> 1, screens |-> 1, deletes |-> 0, losses |-> 0, failures |-> 1,
            crashes |-> 0, timers |-> 1]

VARIABLE plan

MCInit == Init /\ plan \in {Together, Faulty, Watched}

MCNext ==
  /\ Next
  /\ \A k \in Bounded : spent'[k] <= plan[k]
  /\ Cardinality({x \in Timers : timer'[x] # "free"}) <= plan.timers
  /\ UNCHANGED plan

MCSpec == MCInit /\ [][MCNext]_<<vars, plan>>
============================================================================
