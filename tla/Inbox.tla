------------------------------- MODULE Inbox -------------------------------
(* What a thread promises to the messages sent into it, whichever handler,  *)
(* queue, tool result, drained turn or file carries them: a message either  *)
(* starts a turn or waits in line; waiting messages are taken from the      *)
(* front, by one turn; a message leaves a turn's hands with an outcome; and *)
(* when coolton dies, a message is either resumed or given up on.           *)
(* ThreadTurns implements it.                                               *)
EXTENDS Naturals, SequencesExt

CONSTANT Messages

VARIABLES
  waiting,   (* the messages in line                                         *)
  taken,     (* those in a turn's hands                                      *)
  answered,  (* those that got a reply, an error or a deliberate skip        *)
  dropped,   (* those given up on                                            *)
  saved      (* while coolton is down or starting: those it can resume       *)

inboxVars == <<waiting, taken, answered, dropped, saved>>

Init == waiting = <<>> /\ taken = {} /\ answered = {} /\ dropped = {} /\ saved = {}

Fresh(m) == m \notin ToSet(waiting) \cup taken \cup answered \cup dropped

(* A turn may let go of what it holds once that has an outcome. *)
Keeps(some) ==
  /\ taken' \subseteq taken \cup some
  /\ (taken \cup some) \ taken' \subseteq answered' \cup dropped'

Begin(m) ==
  /\ Fresh(m)
  /\ taken' = taken \cup {m}
  /\ UNCHANGED <<waiting, answered, dropped>>

Queue(m) ==
  /\ Fresh(m)
  /\ waiting' = Append(waiting, m)
  /\ UNCHANGED <<taken, answered, dropped>>

(* The first n in line go to one turn. *)
Take(n) ==
  /\ waiting' = SubSeq(waiting, n + 1, Len(waiting))
  /\ Keeps(ToSet(SubSeq(waiting, 1, n)))
  /\ ToSet(SubSeq(waiting, 1, n)) \subseteq taken'
  /\ UNCHANGED <<answered, dropped>>

(* Messages in hand, or saved for nothing, get their outcome. *)
Settle ==
  /\ \E some \in SUBSET taken : answered' = answered \cup some
  /\ \E some \in SUBSET (taken \cup saved) : dropped' = dropped \cup (some \ answered)
  /\ Keeps({})
  /\ UNCHANGED waiting

(* The line is given up on as a whole. *)
DropLine ==
  /\ waiting # <<>>
  /\ waiting' = <<>>
  /\ dropped' = dropped \cup ToSet(waiting)
  /\ Keeps({})
  /\ UNCHANGED answered

(* A turn that starts early may replace what was saved, or be paired with   *)
(* what an ended one left.                                                  *)
KeepsSaved ==
  /\ saved' \subseteq saved \cup taken \cup taken' \cup answered \cup dropped
  /\ saved \ saved' \subseteq taken' \cup answered' \cup dropped'

(* The line is lost with the process; what a turn had is saved or lost. *)
Die ==
  /\ waiting' = <<>> /\ taken' = {}
  /\ saved' \subseteq saved \cup taken \cup answered \cup dropped
  /\ (ToSet(waiting) \cup taken \cup saved) \ saved' \subseteq answered \cup dropped'
  /\ \E some \in SUBSET Messages : dropped' = dropped \cup some
  /\ UNCHANGED answered

(* What is saved is taken again, or found to be gone. *)
Resume ==
  /\ \E some \in SUBSET saved : Keeps(some)
  /\ saved' \subseteq saved
  /\ saved \ saved' \subseteq taken' \cup answered \cup dropped'
  /\ dropped' \subseteq dropped \cup saved \cup taken
  /\ dropped \ dropped' \subseteq taken'
  /\ UNCHANGED <<waiting, answered>>

Carry ==
  \/ \E m \in Messages : Begin(m) \/ Queue(m)
  \/ \E n \in 1..Len(waiting) : Take(n)
  \/ Settle \/ DropLine

Next == (Carry /\ KeepsSaved) \/ Die \/ Resume

Spec == Init /\ [][Next]_inboxVars
============================================================================
