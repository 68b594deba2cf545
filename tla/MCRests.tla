------------------------------ MODULE MCRests ------------------------------
(* What must eventually happen in the background: a thread's sandbox and    *)
(* its jobs, its reminders and its waits.  They share no state, so one of   *)
(* them acts from its initial states while the others keep still: the sum   *)
(* of their states instead of the product.                                  *)
EXTENDS Sandbox, Reminders, Waits

VARIABLE focus

RestsInit ==
  /\ focus \in {"sandbox", "reminders", "waits"}
  /\ Init /\ RemindersInit /\ WaitsInit

RestsNext ==
  /\ UNCHANGED focus
  /\ \/ focus = "sandbox" /\ Next /\ UNCHANGED <<reminderVars, waitVars>>
     \/ focus = "reminders" /\ RemindersNext /\ UNCHANGED <<vars, waitVars>>
     \/ focus = "waits" /\ WaitsNext /\ UNCHANGED <<vars, reminderVars>>

(* Each part's own fairness, while it is the one that acts; nothing of the  *)
(* sandbox's is enabled while it keeps still.                               *)
RestsSpec ==
  /\ RestsInit /\ [][RestsNext]_<<focus, vars, reminderVars, waitVars>>
  /\ Fairness
  /\ WF_reminderVars(focus = "reminders" /\ ReminderJob)
  /\ \A r \in Reminders :
       /\ WF_reminderVars(focus = "reminders" /\ Grow(r))
       /\ WF_reminderVars(focus = "reminders" /\ BackoffEnds(r))
  /\ \A w \in WaitIds : WF_waitVars(focus = "waits" /\ WaitIsServed(w))
  /\ \A k \in Wakers : WF_waitVars(focus = "waits" /\ WakerStep(k))
============================================================================
