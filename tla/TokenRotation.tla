--------------------------- MODULE TokenRotation ---------------------------
(***************************************************************************)
(* The Slack CLI's token pair (agent/token_rotation.py): a refresh token   *)
(* is spent by the call that trades it in, so the answer is the only copy  *)
(* of the next one until it is on disk.  A rotator is a thread in          *)
(* check_and_rotate: the initial check's or the scheduler's.               *)
(*                                                                         *)
(* A pair is a number: Slack's is the one it accepts next.                 *)
(***************************************************************************)
EXTENDS Naturals, FiniteSets

CONSTANTS
  Rotators,
  MaxPairs,     (* bound: pairs Slack hands out                              *)
  MaxBadCalls,  (* bound: calls whose answer is lost, and saves that raise   *)
  MaxStops      (* bound: process deaths                                     *)

ASSUME TokenRotationAssumption == {MaxPairs, MaxBadCalls, MaxStops} \subseteq Nat

VARIABLES
  slackPair,    (* Slack: the pair it accepts                                *)
  filePair,     (* xoxe_tokens.json                                          *)
  expiring,     (* the pair on disk expires soon, or nobody knows when       *)
  cache,        (* _cache: {} when not loaded                                *)
  rotating,     (* _rotating                                                 *)
  rotator,      (* each rotator: where it stands and the pair it holds       *)
  presented,    (* history: the pairs traded in so far                       *)
  forfeited,    (* history: the pairs whose successor was lost               *)
  rotationSpent (* history: the bounded events so far                        *)

rotationVars == <<slackPair, filePair, expiring, cache, rotating, rotator, presented, forfeited, rotationSpent>>

Pairs == 0..MaxPairs
Rotator(l, p) == [pc |-> l, pair |-> p]
NoRotator == Rotator("idle", 0)

RotationEvent(k) == rotationSpent' = [rotationSpent EXCEPT ![k] = @ + 1]

(* _load reads the file once. *)
Loaded == IF cache = {} THEN {filePair} ELSE cache

----------------------------------------------------------------------------
RotationInit ==
  /\ slackPair = 0 /\ filePair = 0
  /\ expiring = TRUE
  /\ cache = {}
  /\ rotating = FALSE
  /\ rotator = [k \in Rotators |-> NoRotator]
  /\ presented = {}
  /\ forfeited = {}
  /\ rotationSpent = [k \in {"calls", "stops"} |-> 0]

(* Twelve hours go by. *)
Expire ==
  /\ ~expiring
  /\ expiring' = TRUE
  /\ UNCHANGED <<slackPair, filePair, cache, rotating, rotator, presented, forfeited, rotationSpent>>

(* check_and_rotate: it is due, and rotate_token does not ask again. *)
CheckRotation(k) ==
  /\ rotator[k] = NoRotator
  /\ expiring
  /\ cache' = Loaded
  /\ rotator' = [rotator EXCEPT ![k] = Rotator("due", 0)]
  /\ UNCHANGED <<slackPair, filePair, expiring, rotating, presented, forfeited, rotationSpent>>

(* rotate_token: the flag, under the lock. *)
EnterRotation(k) ==
  /\ rotator[k].pc = "due"
  /\ rotating' = TRUE
  /\ rotator' = [rotator EXCEPT ![k] = IF rotating THEN NoRotator ELSE Rotator("reading", 0)]
  /\ UNCHANGED <<slackPair, filePair, expiring, cache, presented, forfeited, rotationSpent>>

ReadRefreshToken(k) ==
  /\ rotator[k].pc = "reading"
  /\ cache' = Loaded
  /\ \E p \in Loaded : rotator' = [rotator EXCEPT ![k] = Rotator("calling", p)]
  /\ UNCHANGED <<slackPair, filePair, expiring, rotating, presented, forfeited, rotationSpent>>

(* tooling.tokens.rotate: Slack trades the pair in, or refuses a spent one, *)
(* or the call fails, before or after Slack answered it.                    *)
CallRotate(k) ==
  LET p == rotator[k].pair IN
  /\ rotator[k].pc = "calling"
  /\ \/ /\ p = slackPair /\ p < MaxPairs
        /\ slackPair' = p + 1
        /\ presented' = presented \cup {p}
        /\ \/ /\ rotator' = [rotator EXCEPT ![k] = Rotator("saving", p + 1)]
              /\ UNCHANGED <<forfeited, rotationSpent>>
           \/ /\ rotationSpent.calls < MaxBadCalls
              /\ RotationEvent("calls")
              /\ forfeited' = forfeited \cup {p}
              /\ rotator' = [rotator EXCEPT ![k] = Rotator("leaving", 0)]
     \/ /\ rotator' = [rotator EXCEPT ![k] = Rotator("leaving", 0)]
        /\ UNCHANGED <<slackPair, presented, forfeited, rotationSpent>>
  /\ UNCHANGED <<filePair, expiring, cache, rotating>>

(* Mutant of PersistPair: the new pair is only cached. *)
PersistNothing(k) ==
  /\ rotator[k].pc = "saving"
  /\ expiring' = FALSE
  /\ rotator' = [rotator EXCEPT ![k].pc = "caching"]
  /\ UNCHANGED <<slackPair, filePair, cache, rotating, presented, forfeited, rotationSpent>>

(* _persist: the file, then the cache. *)
PersistPair(k) ==
  /\ rotator[k].pc = "saving"
  /\ \/ /\ filePair' = rotator[k].pair
        /\ expiring' = FALSE
        /\ rotator' = [rotator EXCEPT ![k].pc = "caching"]
        /\ UNCHANGED <<forfeited, rotationSpent>>
     \/ /\ rotationSpent.calls < MaxBadCalls
        /\ RotationEvent("calls")
        /\ forfeited' = forfeited \cup {rotator[k].pair - 1}
        /\ rotator' = [rotator EXCEPT ![k] = Rotator("leaving", 0)]
        /\ UNCHANGED <<filePair, expiring>>
  /\ UNCHANGED <<slackPair, cache, rotating, presented>>

CachePair(k) ==
  /\ rotator[k].pc = "caching"
  /\ cache' = {rotator[k].pair}
  /\ rotator' = [rotator EXCEPT ![k] = Rotator("leaving", 0)]
  /\ UNCHANGED <<slackPair, filePair, expiring, rotating, presented, forfeited, rotationSpent>>

LeaveRotation(k) ==
  /\ rotator[k].pc = "leaving"
  /\ rotating' = FALSE
  /\ rotator' = [rotator EXCEPT ![k] = NoRotator]
  /\ UNCHANGED <<slackPair, filePair, expiring, cache, presented, forfeited, rotationSpent>>

(* The process dies and starts again: a pair that was not saved is lost. *)
RestartRotation ==
  /\ rotationSpent.stops < MaxStops
  /\ RotationEvent("stops")
  /\ forfeited' = forfeited \cup {rotator[k].pair - 1 : k \in {x \in Rotators : rotator[x].pc = "saving"}}
  /\ cache' = {}
  /\ rotating' = FALSE
  /\ rotator' = [k \in Rotators |-> NoRotator]
  /\ UNCHANGED <<slackPair, filePair, expiring, presented>>

RotatorStep(k) ==
  \/ CheckRotation(k) \/ EnterRotation(k) \/ ReadRefreshToken(k) \/ CallRotate(k)
  \/ PersistPair(k) \/ CachePair(k) \/ LeaveRotation(k)

RotationNext == Expire \/ RestartRotation \/ \E k \in Rotators : RotatorStep(k)

RotationSpec == RotationInit /\ [][RotationNext]_rotationVars

----------------------------------------------------------------------------
RotationTypeOK ==
  /\ {slackPair, filePair} \subseteq Pairs
  /\ {expiring, rotating} \subseteq BOOLEAN
  /\ cache \in SUBSET Pairs
  /\ rotator \in [Rotators -> [pc : {"idle", "due", "reading", "calling", "saving", "caching", "leaving"},
                               pair : Pairs]]
  /\ presented \subseteq Pairs
  /\ forfeited \subseteq Pairs
  /\ rotationSpent \in [{"calls", "stops"} -> Nat]

(* The pair coolton would trade in next is the one Slack accepts: on disk   *)
(* and in the cache, whenever no rotation is under way, unless the          *)
(* successor of a pair was lost (a lost answer, a save that raised, a death *)
(* before the save), which nothing coolton does repairs.                    *)
PairIsAccepted ==
  forfeited = {} /\ (\A k \in Rotators : rotator[k].pc \notin {"saving", "caching"}) =>
    filePair = slackPair /\ cache \subseteq {slackPair}
============================================================================
