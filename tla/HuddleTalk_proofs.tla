-------------------------- MODULE HuddleTalk_proofs --------------------------
(***************************************************************************)
(* What is proved of HuddleTalk for any number of lines, replies and tasks *)
(* and any room for context: what is said to coolton in a huddle is in one *)
(* place (LinesAreKept).                                                   *)
(*                                                                         *)
(* A line moves between the queue, the context, the reply being said and   *)
(* the history by the session's methods, each a map from one record of the *)
(* session to another.  So the proof first says where lines are (Placed)   *)
(* and when a prompt fits the context (Fits) as facts about sequences and  *)
(* sets, then what each method does to the record, and only then what each *)
(* action does to the session, the turn being heard and the worker.        *)
(***************************************************************************)
EXTENDS HuddleTalk, TLAPS

----------------------------------------------------------------------------
(* A line is among what was heard as context.                               *)
Among(heard, l) == \E i \in DOMAIN heard : l \in heard[i]

(* Where every line is that was said (or typed, or brought back by a task): *)
(* waiting, heard as context, being answered, in the history, or let go of; *)
(* and but for the last of these, in no two of them.                        *)
Placed(heard, recalled, doing, over, waiting, said) ==
  /\ \A l \in said : l \in waiting \cup recalled \cup doing \cup over \/ Among(heard, l)
  /\ \A l \in waiting \cup recalled \cup doing : l \in said
  /\ \A l \in waiting : l \notin recalled \cup doing
  /\ \A l \in doing : l \notin recalled
  /\ \A i \in DOMAIN heard : \A l \in heard[i] :
       /\ l \in said /\ l \notin waiting \cup recalled \cup doing
       /\ \A j \in DOMAIN heard : l \in heard[j] => i = j

(* A prompt made of the first `consumed' lines of the context and of        *)
(* others: it has those first ones whole, and nothing of what is heard      *)
(* after them, in the history or being answered.  To confirm it takes from  *)
(* the context what it answers, and nothing else.                           *)
Fits(heard, recalled, doing, lines, consumed) ==
  /\ consumed <= Len(heard)
  /\ \A i \in DOMAIN heard : i <= consumed => heard[i] \subseteq lines
  /\ \A i \in DOMAIN heard : \A l \in heard[i] : l \in lines => i <= consumed
  /\ \A l \in lines : l \notin recalled \cup doing

(* What appending to a sequence, taking its tail, prepending, cutting its   *)
(* front and replacing an element do to its elements.                       *)
LEMMA SeqAppends ==
  ASSUME NEW S, NEW h \in Seq(S), NEW x \in S
  PROVE  /\ Append(h, x) \in Seq(S) /\ Len(h) \in Nat /\ DOMAIN h = 1..Len(h)
         /\ Len(Append(h, x)) = Len(h) + 1 /\ DOMAIN Append(h, x) = 1..(Len(h) + 1)
         /\ Append(h, x)[Len(h) + 1] = x /\ \A i \in 1..Len(h) : Append(h, x)[i] = h[i]
  OBVIOUS

LEMMA SeqTails ==
  ASSUME NEW S, NEW h \in Seq(S), h # <<>>
  PROVE  /\ Tail(h) \in Seq(S) /\ Len(h) \in Nat \ {0} /\ Len(Tail(h)) = Len(h) - 1
         /\ DOMAIN h = 1..Len(h) /\ DOMAIN Tail(h) = 1..(Len(h) - 1) /\ Head(h) = h[1]
         /\ \A i \in 1..(Len(h) - 1) : Tail(h)[i] = h[i + 1]
  OBVIOUS

LEMMA SeqPrepends ==
  ASSUME NEW S, NEW h \in Seq(S), NEW x \in S
  PROVE  /\ <<x>> \o h \in Seq(S) /\ Len(h) \in Nat /\ DOMAIN h = 1..Len(h)
         /\ DOMAIN (<<x>> \o h) = 1..(Len(h) + 1) /\ (<<x>> \o h)[1] = x
         /\ \A i \in 1..Len(h) : (<<x>> \o h)[i + 1] = h[i]
  OBVIOUS

LEMMA SeqSuffixes ==
  ASSUME NEW S, NEW h \in Seq(S), NEW n \in Nat
  PROVE  /\ SubSeq(h, n + 1, Len(h)) \in Seq(S) /\ Len(h) \in Nat /\ DOMAIN h = 1..Len(h)
         /\ DOMAIN SubSeq(h, n + 1, Len(h)) = 1..(Len(h) - n)
         /\ \A i \in 1..(Len(h) - n) : SubSeq(h, n + 1, Len(h))[i] = h[i + n]
  OBVIOUS

LEMMA SeqReplaces ==
  ASSUME NEW S, NEW q \in Seq(S), NEW r \in DOMAIN q, NEW x \in S
  PROVE  LET p == [q EXCEPT ![r] = x] IN
         /\ p \in Seq(S) /\ Len(p) = Len(q) /\ DOMAIN p = DOMAIN q /\ p[r] = x
         /\ \A i \in DOMAIN q : i # r => p[i] = q[i]
  OBVIOUS

LEMMA FunctionIsSeq ==
  ASSUME NEW S, NEW n \in Nat, NEW f \in [1..n -> S]
  PROVE  f \in Seq(S) /\ Len(f) = n /\ DOMAIN f = 1..n
  OBVIOUS

----------------------------------------------------------------------------
(* Where the lines are, and how that changes.                               *)

(* A line that waited is heard as context. *)
LEMMA PlacedRemembered ==
  ASSUME NEW heard \in Seq(SUBSET Lines), NEW recalled, NEW doing, NEW over, NEW waiting, NEW said,
         Placed(heard, recalled, doing, over, waiting, said), NEW l \in waiting, l \in Lines
  PROVE  Placed(Append(heard, {l}), recalled, doing, over, waiting \ {l}, said)
<1> DEFINE a == Append(heard, {l})
           n == Len(heard)
<1>1. /\ n \in Nat /\ DOMAIN heard = 1..n
      /\ DOMAIN a = 1..(n + 1) /\ a[n + 1] = {l} /\ \A i \in 1..n : a[i] = heard[i]
  BY SeqAppends, {l} \in SUBSET Lines
<1> HIDE DEF a, n
<1>2. \A i \in 1..(n + 1) : i \in 1..n \/ i = n + 1
  BY <1>1
<1>3. \A x : Among(a, x) <=> Among(heard, x) \/ x = l
  BY <1>1 DEF Among
<1>4. ASSUME NEW i \in DOMAIN a, NEW x \in a[i]
      PROVE  /\ x \in said /\ x \notin (waiting \ {l}) \cup recalled \cup doing
             /\ \A j \in DOMAIN a : x \in a[j] => i = j
  <2>1. CASE x = l
    BY <1>1, <1>2, <1>4, <2>1 DEF Placed
  <2>2. CASE x # l
    <3>1. i \in 1..n /\ x \in heard[i]
      BY <1>1, <1>2, <1>4, <2>2
    <3> QED
      BY <1>1, <1>2, <2>2, <3>1 DEF Placed
  <2> QED
    BY <2>1, <2>2
<1> QED
  BY <1>3, <1>4 DEF Placed, a

(* The oldest context is let go of. *)
LEMMA PlacedTrimmed ==
  ASSUME NEW heard \in Seq(SUBSET Lines), NEW recalled, NEW doing, NEW over, NEW waiting, NEW said,
         Placed(heard, recalled, doing, over, waiting, said), NEW k \in Nat, k <= Len(heard)
  PROVE  Placed(SubSeq(heard, k + 1, Len(heard)), recalled, doing, over \cup UNION {heard[i] : i \in 1..k}, waiting, said)
<1> DEFINE h == SubSeq(heard, k + 1, Len(heard))
           m == Len(heard)
           dropped == UNION {heard[i] : i \in 1..k}
<1>1. /\ DOMAIN heard = 1..m /\ m \in Nat /\ DOMAIN h = 1..(m - k)
      /\ \A i \in 1..(m - k) : h[i] = heard[i + k]
  BY SeqSuffixes
<1>2. \A i \in 1..k : heard[i] \subseteq dropped
  OBVIOUS
<1> HIDE DEF h, m, dropped
<1>3. \A i \in 1..m : i \in 1..k \/ (i - k \in 1..(m - k) /\ h[i - k] = heard[i])
  BY <1>1
<1>4. \A x : Among(heard, x) => x \in dropped \/ Among(h, x)
  BY <1>1, <1>2, <1>3 DEF Among
<1>5. \A i \in 1..(m - k) : i + k \in 1..m /\ i \in Int
  BY <1>1
<1>6. ASSUME NEW i \in DOMAIN h, NEW x \in h[i]
      PROVE  /\ x \in said /\ x \notin waiting \cup recalled \cup doing
             /\ \A j \in DOMAIN h : x \in h[j] => i = j
  <2>1. i + k \in DOMAIN heard /\ x \in heard[i + k] /\ i \in Int
    BY <1>1, <1>5, <1>6
  <2>2. \A j \in DOMAIN h : x \in h[j] => j + k \in DOMAIN heard /\ x \in heard[j + k] /\ j \in Int
    BY <1>1, <1>5
  <2> QED
    BY <2>1, <2>2 DEF Placed
<1> QED
  BY <1>4, <1>6 DEF Placed, h, dropped

(* Lines that waited are answered, with all that was heard.                 *)
LEMMA PlacedAnswered ==
  ASSUME NEW heard \in Seq(SUBSET Lines), NEW recalled, NEW over, NEW waiting, NEW said,
         Placed(heard, recalled, {}, over, waiting, said), NEW taken \in SUBSET waiting
  PROVE  Placed(<<>>, recalled, taken \cup UNION ToSet(heard), over, waiting \ taken, said)
<1>1. \A x : x \in UNION ToSet(heard) <=> Among(heard, x)
  BY DEF Among, ToSet
<1>2. DOMAIN <<>> = {}
  OBVIOUS
<1> QED
  BY <1>1, <1>2 DEF Placed, Among

(* A prompt that fits is confirmed: the context it was made of is taken.    *)
LEMMA PlacedConfirmed ==
  ASSUME NEW heard \in Seq(SUBSET Lines), NEW recalled, NEW over, NEW waiting, NEW said,
         Placed(heard, recalled, {}, over, waiting, said),
         NEW lines \in SUBSET said, NEW n \in Nat, Fits(heard, recalled, {}, lines, n)
  PROVE  Placed(SubSeq(heard, n + 1, Len(heard)), recalled, lines, over, waiting \ lines, said)
<1> DEFINE h == SubSeq(heard, n + 1, Len(heard))
           m == Len(heard)
<1>1. /\ DOMAIN heard = 1..m /\ m \in Nat /\ DOMAIN h = 1..(m - n) /\ n <= m
      /\ \A i \in 1..(m - n) : h[i] = heard[i + n]
  BY SeqSuffixes DEF Fits
<1> HIDE DEF h, m
<1>2. \A i \in 1..(m - n) : i + n \in 1..m /\ ~(i + n <= n) /\ i \in Int
  BY <1>1
<1>3. \A i \in 1..m : i <= n \/ (i - n \in 1..(m - n) /\ h[i - n] = heard[i])
  BY <1>1
<1>4. \A x : Among(heard, x) => x \in lines \/ Among(h, x)
  BY <1>1, <1>3 DEF Fits, Among
<1>5. ASSUME NEW i \in DOMAIN h, NEW x \in h[i]
      PROVE  /\ x \in said /\ x \notin (waiting \ lines) \cup recalled \cup lines
             /\ \A j \in DOMAIN h : x \in h[j] => i = j
  <2>1. i + n \in DOMAIN heard /\ x \in heard[i + n] /\ ~(i + n <= n) /\ i \in Int
    BY <1>1, <1>2, <1>5
  <2>2. x \notin lines
    BY <2>1 DEF Fits
  <2>3. \A j \in DOMAIN h : x \in h[j] => j + n \in DOMAIN heard /\ x \in heard[j + n] /\ j \in Int
    BY <1>1, <1>2
  <2> QED
    BY <2>1, <2>2, <2>3 DEF Placed
<1> QED
  BY <1>4, <1>5 DEF Placed, Fits, h

(* What was being answered is in the history, let go of, or context again.  *)
LEMMA PlacedInterrupted ==
  ASSUME NEW heard \in Seq(SUBSET Lines), NEW recalled, NEW doing \in SUBSET Lines, NEW over, NEW waiting, NEW said,
         Placed(heard, recalled, doing, over, waiting, said)
  PROVE  /\ Placed(heard, recalled \cup doing, {}, over, waiting, said)
         /\ Placed(heard, recalled, {}, over \cup doing, waiting, said)
         /\ Placed(<<doing>> \o heard, recalled, {}, over, waiting, said)
<1> DEFINE h == <<doing>> \o heard
           n == Len(heard)
<1>1. /\ n \in Nat /\ DOMAIN heard = 1..n /\ DOMAIN h = 1..(n + 1) /\ h[1] = doing
      /\ \A i \in 1..n : h[i + 1] = heard[i]
  BY SeqPrepends, doing \in SUBSET Lines
<1> HIDE DEF h, n
<1>2. \A i \in 1..(n + 1) : i = 1 \/ (i - 1 \in 1..n /\ h[i] = heard[i - 1] /\ i \in Int)
  BY <1>1
<1>3. \A i \in 1..n : i + 1 \in 1..(n + 1) /\ i \in Int
  BY <1>1
<1>4. \A x : Among(h, x) <=> x \in doing \/ Among(heard, x)
  <2>1. ASSUME NEW x, Among(h, x) PROVE x \in doing \/ Among(heard, x)
    BY <1>1, <1>2, <2>1 DEF Among
  <2>2. ASSUME NEW x, x \in doing PROVE Among(h, x)
    <3>1. 1 \in DOMAIN h
      BY <1>1
    <3> QED
      BY <1>1, <2>2, <3>1 DEF Among
  <2>3. ASSUME NEW x, Among(heard, x) PROVE Among(h, x)
    BY <1>1, <1>3, <2>3 DEF Among
  <2> QED
    BY <2>1, <2>2, <2>3
<1>5. ASSUME NEW i \in DOMAIN h, NEW x \in h[i]
      PROVE  /\ x \in said /\ x \notin waiting \cup recalled
             /\ \A j \in DOMAIN h : x \in h[j] => i = j
  <2>1. CASE x \in doing
    <3>1. ~Among(heard, x)
      BY <2>1 DEF Placed, Among
    <3> QED
      BY <1>1, <1>2, <1>5, <2>1, <3>1 DEF Placed, Among
  <2>2. CASE x \notin doing
    <3>1. i - 1 \in DOMAIN heard /\ x \in heard[i - 1] /\ i \in Int
      BY <1>1, <1>2, <1>5, <2>2
    <3>2. \A j \in DOMAIN h : x \in h[j] => j - 1 \in DOMAIN heard /\ x \in heard[j - 1] /\ j \in Int
      BY <1>1, <1>2, <2>2
    <3> QED
      BY <3>1, <3>2 DEF Placed
  <2> QED
    BY <2>1, <2>2
<1> QED
  BY <1>4, <1>5 DEF Placed, h

(* A line is said, or let go of. *)
LEMMA PlacedSaid ==
  ASSUME NEW heard, NEW recalled, NEW doing, NEW over, NEW waiting, NEW said,
         Placed(heard, recalled, doing, over, waiting, said), NEW l
  PROVE  /\ l \notin said => Placed(heard, recalled, doing, over, waiting \cup {l}, said \cup {l})
         /\ Placed(heard, recalled, doing, over \cup {l}, waiting \ {l}, said)
BY DEF Placed

(* A reply just started, for a line that waits, fits.                       *)
LEMMA FitsAtFirst ==
  ASSUME NEW heard \in Seq(SUBSET Lines), NEW recalled, NEW doing, NEW over, NEW waiting, NEW said,
         Placed(heard, recalled, doing, over, waiting, said), NEW l \in waiting,
         NEW lines, lines = {l} \cup UNION ToSet(heard), NEW n, n = Len(heard)
  PROVE  Fits(heard, recalled, doing, lines, n)
<1>1. \A x : x \in UNION ToSet(heard) <=> Among(heard, x)
  BY DEF Among, ToSet
<1>2. n \in Nat /\ DOMAIN heard = 1..n
  OBVIOUS
<1>3. \A x : x \in lines <=> x = l \/ Among(heard, x)
  BY <1>1
<1>4. Fits(heard, recalled, doing, lines, n)
  <2>1. \A i \in DOMAIN heard : i <= n /\ heard[i] \subseteq lines
    BY <1>2, <1>3 DEF Among
  <2>2. \A x \in lines : x \notin recalled \cup doing
    BY <1>3 DEF Placed, Among
  <2>3. n <= Len(heard)
    BY <1>2
  <2> QED
    BY <2>1, <2>2, <2>3 DEF Fits
<1> QED
  BY <1>4

(* It fits when a line it does not answer is heard after it, and when the   *)
(* oldest context is let go of and what it took is counted down.            *)
LEMMA FitsRemembered ==
  ASSUME NEW heard \in Seq(SUBSET Lines), NEW recalled, NEW doing, NEW lines, NEW n \in Nat,
         Fits(heard, recalled, doing, lines, n), NEW l \in Lines, l \notin lines
  PROVE  Fits(Append(heard, {l}), recalled, doing, lines, n)
<1> DEFINE a == Append(heard, {l})
           k == Len(heard)
<1>1. /\ k \in Nat /\ DOMAIN heard = 1..k /\ Len(a) = k + 1 /\ n <= k
      /\ DOMAIN a = 1..(k + 1) /\ a[k + 1] = {l} /\ \A i \in 1..k : a[i] = heard[i]
  BY SeqAppends, {l} \in SUBSET Lines DEF Fits
<1> HIDE DEF a, k
<1>2. \A i \in 1..(k + 1) : (i \in 1..k \/ i = k + 1) /\ i \in Int
  BY <1>1
<1>3. ~(k + 1 <= n)
  BY <1>1
<1>4. n <= Len(a)
  BY <1>1
<1> QED
  BY <1>1, <1>2, <1>3, <1>4 DEF Fits, a

LEMMA FitsTrimmed ==
  ASSUME NEW heard \in Seq(SUBSET Lines), NEW recalled, NEW doing, NEW lines, NEW n \in Nat,
         Fits(heard, recalled, doing, lines, n), NEW k \in Nat, k <= Len(heard),
         NEW m, m = (IF n > k THEN n - k ELSE 0)
  PROVE  Fits(SubSeq(heard, k + 1, Len(heard)), recalled, doing, lines, m)
<1> DEFINE h == SubSeq(heard, k + 1, Len(heard))
           z == Len(heard)
<1>1. /\ h \in Seq(SUBSET Lines) /\ DOMAIN heard = 1..z /\ z \in Nat /\ DOMAIN h = 1..(z - k) /\ n <= z
      /\ \A i \in 1..(z - k) : h[i] = heard[i + k]
  BY SeqSuffixes DEF Fits
<1>2. k <= z
  OBVIOUS
<1> HIDE DEF h, z
<1>3. m <= Len(h)
  <2>1. Len(h) = z - k
    BY <1>1, <1>2
  <2> QED
    BY <1>1, <1>2, <2>1
<1>4. ASSUME NEW i \in 1..(z - k) PROVE i + k \in 1..z /\ (i <= m <=> i + k <= n)
  <2>1. CASE n > k
    BY <1>1, <2>1
  <2>2. CASE ~(n > k)
    BY <1>1, <2>2
  <2> QED
    BY <2>1, <2>2
<1> QED
  BY <1>1, <1>3, <1>4 DEF Fits, h

(* What is being answered is over, or is in the history. *)
LEMMA FitsSettled ==
  ASSUME NEW heard, NEW recalled, NEW doing, NEW lines, NEW n, Fits(heard, recalled, doing, lines, n)
  PROVE  Fits(heard, recalled \cup doing, {}, lines, n) /\ Fits(heard, recalled, {}, lines, n)
BY DEF Fits

----------------------------------------------------------------------------
(* One session and its methods.                                             *)

(* The records of the model.                                                *)
ReplyRecord ==
  [lines : SUBSET Lines, consumed : Nat, confirmed : BOOLEAN, fixed : BOOLEAN, acted : BOOLEAN,
   spoke : BOOLEAN, delegated : BOOLEAN, settled : BOOLEAN, at : {"running", "cancelled", "over"}]

TalkRecord ==
  [heard : Seq(SUBSET Lines), reply : Nat, spec : Nat, barge : BOOLEAN, talking : BOOLEAN,
   replies : Seq(ReplyRecord), recalled : SUBSET Lines, over : SUBSET Lines, slipped : BOOLEAN]

TalkState(s) == s \in TalkRecord /\ {s.reply, s.spec} \subseteq 0..Len(s.replies)

(* Of a session that made no slip: the reply being said is confirmed and    *)
(* not settled; only it is confirmed and unfinished; a confirmed reply was  *)
(* cancelled by its interruption, which settled it.                         *)
InOrder(replies, reply) ==
  /\ reply # 0 => replies[reply].confirmed /\ ~replies[reply].settled
  /\ \A r \in DOMAIN replies :
       /\ replies[r].confirmed /\ replies[r].at = "running" => r = reply
       /\ replies[r].settled => replies[r].confirmed
       /\ replies[r].fixed => replies[r].lines = {}
       /\ replies[r].confirmed /\ replies[r].at = "cancelled" => replies[r].settled \/ replies[r].fixed

(* The lines that the reply being said answers.                             *)
Doing(s) == IF s.reply = 0 THEN {} ELSE s.replies[s.reply].lines

(* A reply is what it was, as far as the lines go. *)
SameReply(p, q, r) ==
  /\ r \in DOMAIN q
  /\ q[r].lines = p[r].lines /\ q[r].consumed = p[r].consumed /\ q[r].confirmed = p[r].confirmed
  /\ ~q[r].confirmed /\ q[r].at = "cancelled" => p[r].at = "cancelled"

(* What a session's fields are.                                             *)
LEMMA TalkFields ==
  ASSUME NEW s, TalkState(s)
  PROVE  /\ s.heard \in Seq(SUBSET Lines) /\ s.replies \in Seq(ReplyRecord) /\ DOMAIN s.replies = 1..Len(s.replies)
         /\ Len(s.replies) \in Nat /\ s.reply \in 0..Len(s.replies) /\ s.spec \in 0..Len(s.replies)
         /\ \A r \in DOMAIN s.replies : s.replies[r] \in ReplyRecord
         /\ s.recalled \subseteq Lines /\ s.over \subseteq Lines /\ Doing(s) \subseteq Lines
<1>1. s.heard \in Seq(SUBSET Lines) /\ s.replies \in Seq(ReplyRecord) /\ s.recalled \subseteq Lines /\ s.over \subseteq Lines
  BY DEF TalkState, TalkRecord
<1>2. /\ DOMAIN s.replies = 1..Len(s.replies) /\ Len(s.replies) \in Nat
      /\ \A r \in DOMAIN s.replies : s.replies[r] \in ReplyRecord
  BY <1>1
<1>3. s.reply \in 0..Len(s.replies) /\ s.spec \in 0..Len(s.replies)
  BY DEF TalkState
<1>4. Doing(s) \subseteq Lines
  <2>1. CASE s.reply = 0
    BY <2>1 DEF Doing
  <2>2. CASE s.reply # 0
    <3>1. s.reply \in DOMAIN s.replies
      BY <1>2, <1>3, <2>2
    <3> QED
      BY <1>2, <3>1 DEF Doing, ReplyRecord
  <2> QED
    BY <2>1, <2>2
<1> QED
  BY <1>1, <1>2, <1>3, <1>4

(* One reply's record changes. *)
LEMMA ReplyMoves ==
  ASSUME NEW s, TalkState(s), NEW r \in DOMAIN s.replies, NEW x \in ReplyRecord
  PROVE  LET p == [s.replies EXCEPT ![r] = x]
             t == [s EXCEPT !.replies = p]
         IN /\ TalkState(t) /\ t.replies = p /\ p \in Seq(ReplyRecord) /\ Len(p) = Len(s.replies)
            /\ DOMAIN p = DOMAIN s.replies /\ p[r] = x
            /\ \A q \in DOMAIN s.replies : q # r => p[q] = s.replies[q]
            /\ t.heard = s.heard /\ t.reply = s.reply /\ t.spec = s.spec /\ t.barge = s.barge
            /\ t.talking = s.talking /\ t.recalled = s.recalled /\ t.over = s.over /\ t.slipped = s.slipped
<1> DEFINE p == [s.replies EXCEPT ![r] = x]
           t == [s EXCEPT !.replies = p]
<1>1. s.replies \in Seq(ReplyRecord)
  BY TalkFields
<1>2. /\ p \in Seq(ReplyRecord) /\ Len(p) = Len(s.replies) /\ DOMAIN p = DOMAIN s.replies /\ p[r] = x
      /\ \A q \in DOMAIN s.replies : q # r => p[q] = s.replies[q]
  BY <1>1, SeqReplaces
<1> HIDE DEF p
<1>3. TalkState(t) /\ t.replies = p
  BY <1>2 DEF TalkState, TalkRecord
<1>4. /\ t.heard = s.heard /\ t.reply = s.reply /\ t.spec = s.spec /\ t.barge = s.barge
      /\ t.talking = s.talking /\ t.recalled = s.recalled /\ t.over = s.over /\ t.slipped = s.slipped
  BY DEF TalkState, TalkRecord
<1> QED
  BY <1>2, <1>3, <1>4 DEF p

(* One reply's record changes, and the one being said may: from a to b. *)
LEMMA OrderMoves ==
  ASSUME NEW q, NEW p, DOMAIN p = DOMAIN q, 0 \notin DOMAIN q, NEW r \in DOMAIN q, NEW a, NEW b,
         \A k \in DOMAIN q : k # r => p[k] = q[k],
         InOrder(q, a), a \in {b, r, 0}, b \in {a, r, 0},
         b = r => p[r].confirmed /\ ~p[r].settled,
         p[r].confirmed /\ p[r].at = "running" => r = b,
         p[r].settled => p[r].confirmed, p[r].fixed => p[r].lines = {},
         p[r].confirmed /\ p[r].at = "cancelled" => p[r].settled \/ p[r].fixed,
         b \in DOMAIN q \cup {0}
  PROVE  InOrder(p, b)
<1>1. ASSUME NEW k \in DOMAIN p
      PROVE  /\ p[k].confirmed /\ p[k].at = "running" => k = b
             /\ p[k].settled => p[k].confirmed
             /\ p[k].fixed => p[k].lines = {}
             /\ p[k].confirmed /\ p[k].at = "cancelled" => p[k].settled \/ p[k].fixed
  <2>1. CASE k = r
    BY <2>1
  <2>2. CASE k # r
    BY <1>1, <2>2 DEF InOrder
  <2> QED
    BY <2>1, <2>2
<1>2. b # 0 => p[b].confirmed /\ ~p[b].settled
  <2>1. CASE b = r
    BY <2>1
  <2>2. CASE b # r
    BY <2>2 DEF InOrder
  <2> QED
    BY <2>1, <2>2
<1> QED
  BY <1>1, <1>2 DEF InOrder

(* CancelTask changes where a reply stands, and nothing else.               *)
LEMMA CancelMoves ==
  ASSUME NEW s, TalkState(s), NEW r \in 0..Len(s.replies)
  PROVE  LET t == CancelTask(s, r) IN
         /\ TalkState(t) /\ DOMAIN t.replies = DOMAIN s.replies
         /\ t.heard = s.heard /\ t.reply = s.reply /\ t.spec = s.spec /\ t.barge = s.barge
         /\ t.talking = s.talking /\ t.recalled = s.recalled /\ t.over = s.over /\ t.slipped = s.slipped
         /\ \A q \in DOMAIN s.replies : /\ q # r => t.replies[q] = s.replies[q]
                                        /\ q # r \/ s.replies[q].confirmed => SameReply(s.replies, t.replies, q)
         /\ r # 0 => /\ t.replies[r].at # "running" /\ t.replies[r].settled = s.replies[r].settled
                     /\ t.replies[r].fixed = s.replies[r].fixed
         /\ (r # 0 => ~s.replies[r].confirmed) /\ InOrder(s.replies, s.reply) => InOrder(t.replies, t.reply)
<1>1. CASE r = 0 \/ s.replies[r].at # "running"
  BY <1>1 DEF CancelTask, SameReply
<1>2. CASE r # 0 /\ s.replies[r].at = "running"
  <2> DEFINE x == [s.replies[r] EXCEPT !.at = "cancelled"]
             t == [s EXCEPT !.replies = [s.replies EXCEPT ![r] = x]]
  <2>1. r \in DOMAIN s.replies /\ s.replies[r] \in ReplyRecord /\ s.reply \in Nat
    BY <1>2, TalkFields
  <2>2. /\ x \in ReplyRecord /\ x.lines = s.replies[r].lines /\ x.consumed = s.replies[r].consumed
        /\ x.confirmed = s.replies[r].confirmed /\ x.fixed = s.replies[r].fixed /\ x.settled = s.replies[r].settled
        /\ x.at = "cancelled"
    BY <2>1 DEF ReplyRecord
  <2>3. CancelTask(s, r) = t
    BY <1>2, <2>1 DEF CancelTask
  <2> HIDE DEF x
  <2>4. /\ TalkState(t) /\ DOMAIN t.replies = DOMAIN s.replies /\ t.replies[r] = x
        /\ \A q \in DOMAIN s.replies : q # r => t.replies[q] = s.replies[q]
        /\ t.heard = s.heard /\ t.reply = s.reply /\ t.spec = s.spec /\ t.barge = s.barge
        /\ t.talking = s.talking /\ t.recalled = s.recalled /\ t.over = s.over /\ t.slipped = s.slipped
    BY <2>1, <2>2, ReplyMoves
  <2> HIDE DEF t
  <2>5. \A q \in DOMAIN s.replies : q # r \/ s.replies[q].confirmed => SameReply(s.replies, t.replies, q)
    BY <2>2, <2>4 DEF SameReply
  <2>6. ASSUME ~s.replies[r].confirmed, InOrder(s.replies, s.reply) PROVE InOrder(t.replies, t.reply)
    <3>1. 0 \notin DOMAIN s.replies /\ s.reply \in DOMAIN s.replies \cup {0}
      BY TalkFields
    <3>2. s.reply # r /\ ~x.settled /\ (x.fixed => x.lines = {})
      BY <2>1, <2>2, <2>6, <3>1 DEF InOrder
    <3> QED
      BY <2>1, <2>2, <2>4, <2>6, <3>1, <3>2, OrderMoves
  <2>7. t.replies[r].at # "running" /\ t.replies[r].settled = s.replies[r].settled /\ t.replies[r].fixed = s.replies[r].fixed
    BY <2>2, <2>4
  <2> QED
    BY <1>2, <2>3, <2>4, <2>5, <2>6, <2>7
<1> QED
  BY <1>1, <1>2

(* SettleInterrupted: the prompt of a reply that did something is in the    *)
(* history, that of another is the oldest context.                          *)
LEMMA SettleMoves ==
  ASSUME NEW s, TalkState(s), NEW r \in DOMAIN s.replies
  PROVE  LET t == SettleInterrupted(s, r)
             reply == s.replies[r]
         IN /\ TalkState(t) /\ DOMAIN t.replies = DOMAIN s.replies
            /\ t.reply = s.reply /\ t.spec = s.spec /\ t.barge = s.barge
            /\ t.talking = s.talking /\ t.over = s.over /\ t.slipped = s.slipped
            /\ \A q \in DOMAIN s.replies : SameReply(s.replies, t.replies, q) /\ (q # r => t.replies[q] = s.replies[q])
            /\ t.replies[r].settled = (reply.settled \/ Settles(reply))
            /\ t.replies[r].fixed = reply.fixed /\ t.replies[r].at = reply.at
            /\ ~Settles(reply) => t = s
            /\ Settles(reply) =>
                 \/ reply.acted /\ t.heard = s.heard /\ t.recalled = s.recalled \cup reply.lines
                 \/ ~reply.acted /\ t.heard = <<reply.lines>> \o s.heard /\ t.recalled = s.recalled
<1> DEFINE reply == s.replies[r]
           x == [reply EXCEPT !.settled = TRUE]
           u == [s EXCEPT !.replies = [s.replies EXCEPT ![r] = x]]
<1>0. reply \in ReplyRecord /\ s.heard \in Seq(SUBSET Lines)
  BY TalkFields
<1>1. CASE ~Settles(reply)
  <2>1. SettleInterrupted(s, r) = s
    BY <1>1 DEF SettleInterrupted
  <2>2. reply.settled \in BOOLEAN
    BY <1>0 DEF ReplyRecord
  <2> QED
    BY <1>1, <2>1, <2>2 DEF SameReply
<1>2. CASE Settles(reply)
  <2>1. /\ x \in ReplyRecord /\ x.lines = reply.lines /\ x.consumed = reply.consumed
        /\ x.confirmed = reply.confirmed /\ x.fixed = reply.fixed /\ x.settled = TRUE /\ x.at = reply.at
        /\ reply.lines \in SUBSET Lines
    BY <1>0 DEF ReplyRecord
  <2>2. SettleInterrupted(s, r) = IF reply.acted THEN [u EXCEPT !.recalled = @ \cup reply.lines]
                                                 ELSE [u EXCEPT !.heard = <<reply.lines>> \o @]
    BY <1>2 DEF SettleInterrupted
  <2> HIDE DEF x
  <2>3. /\ TalkState(u) /\ DOMAIN u.replies = DOMAIN s.replies /\ u.replies[r] = x
        /\ \A q \in DOMAIN s.replies : q # r => u.replies[q] = s.replies[q]
        /\ u.heard = s.heard /\ u.reply = s.reply /\ u.spec = s.spec /\ u.barge = s.barge
        /\ u.talking = s.talking /\ u.recalled = s.recalled /\ u.over = s.over /\ u.slipped = s.slipped
    BY <2>1, ReplyMoves
  <2> HIDE DEF u
  <2>4. \A q \in DOMAIN s.replies : SameReply(s.replies, u.replies, q)
    BY <2>1, <2>3 DEF SameReply
  <2>5. CASE reply.acted
    <3> DEFINE t == [u EXCEPT !.recalled = @ \cup reply.lines]
    <3>1. /\ TalkState(t) /\ t.replies = u.replies /\ t.heard = u.heard /\ t.recalled = u.recalled \cup reply.lines
          /\ t.reply = u.reply /\ t.spec = u.spec /\ t.barge = u.barge
          /\ t.talking = u.talking /\ t.over = u.over /\ t.slipped = u.slipped
      BY <2>1, <2>3 DEF TalkState, TalkRecord
    <3>2. SettleInterrupted(s, r) = t
      BY <2>2, <2>5
    <3> HIDE DEF t
    <3>3. t.replies[r].settled = (reply.settled \/ Settles(reply)) /\ t.replies[r].fixed = reply.fixed /\ t.replies[r].at = reply.at
      BY <1>2, <2>1, <2>3, <3>1
    <3> QED
      BY <1>2, <2>3, <2>4, <2>5, <3>1, <3>2, <3>3
  <2>6. CASE ~reply.acted
    <3> DEFINE h == <<reply.lines>> \o u.heard
               t == [u EXCEPT !.heard = h]
    <3>1. h \in Seq(SUBSET Lines) /\ h = <<reply.lines>> \o s.heard
      BY <1>0, <2>1, <2>3, SeqPrepends
    <3> HIDE DEF h
    <3>2. /\ TalkState(t) /\ t.replies = u.replies /\ t.heard = h /\ t.recalled = u.recalled
          /\ t.reply = u.reply /\ t.spec = u.spec /\ t.barge = u.barge
          /\ t.talking = u.talking /\ t.over = u.over /\ t.slipped = u.slipped
      BY <3>1, <2>3 DEF TalkState, TalkRecord
    <3>3. SettleInterrupted(s, r) = t
      BY <2>2, <2>6 DEF h
    <3> HIDE DEF t
    <3>4. t.replies[r].settled = (reply.settled \/ Settles(reply)) /\ t.replies[r].fixed = reply.fixed /\ t.replies[r].at = reply.at
      BY <1>2, <2>1, <2>3, <3>2
    <3> QED
      BY <1>2, <2>3, <2>4, <2>6, <3>1, <3>2, <3>3, <3>4
  <2> QED
    BY <2>5, <2>6
<1> QED
  BY <1>1, <1>2

(* Interrupt leaves no reply being said, and what it answered in the        *)
(* history or in the context.                                               *)
LEMMA InterruptMoves ==
  ASSUME NEW s, TalkState(s)
  PROVE  LET t == Interrupt(s) IN
         /\ TalkState(t) /\ DOMAIN t.replies = DOMAIN s.replies /\ t.reply = 0 /\ ~t.barge
         /\ t.spec = s.spec /\ t.talking = s.talking /\ t.over = s.over /\ t.slipped = s.slipped
         /\ InOrder(s.replies, s.reply) =>
              /\ InOrder(t.replies, 0) /\ \A q \in DOMAIN s.replies : SameReply(s.replies, t.replies, q)
              /\ \/ ~Changes(s) /\ t.heard = s.heard /\ t.recalled = s.recalled /\ Doing(s) = {}
                 \/ Changes(s) /\ t.heard = s.heard /\ t.recalled = s.recalled \cup Doing(s)
                 \/ Changes(s) /\ t.heard = <<Doing(s)>> \o s.heard /\ t.recalled = s.recalled
<1> DEFINE u == [s EXCEPT !.barge = FALSE, !.reply = 0]
           r == s.reply
           v == SettleInterrupted(u, r)
<1>1. /\ TalkState(u) /\ u.replies = s.replies /\ u.heard = s.heard /\ u.reply = 0 /\ ~u.barge /\ u.spec = s.spec
      /\ u.talking = s.talking /\ u.recalled = s.recalled /\ u.over = s.over /\ u.slipped = s.slipped
  <2>1. Len(s.replies) \in Nat /\ s.spec \in 0..Len(s.replies)
    BY TalkFields
  <2>2. 0 \in 0..Len(s.replies)
    BY <2>1
  <2> QED
    BY <2>1, <2>2 DEF TalkState, TalkRecord
<1>2. r \in 0..Len(s.replies) /\ DOMAIN s.replies = 1..Len(s.replies) /\ Len(s.replies) \in Nat
  BY TalkFields
<1>3. Interrupt(s) = IF r = 0 THEN u ELSE CancelTask(v, r)
  BY DEF Interrupt
<1> HIDE DEF u
<1>4. CASE r = 0
  BY <1>1, <1>3, <1>4 DEF SameReply, Changes, Doing
<1>5. CASE r # 0
  <2> DEFINE t == CancelTask(v, r)
             reply == s.replies[r]
  <2>0. r \in DOMAIN u.replies /\ u.replies[r] = reply
    BY <1>1, <1>2, <1>5
  <2>1. /\ TalkState(v) /\ DOMAIN v.replies = DOMAIN u.replies
        /\ v.reply = u.reply /\ v.spec = u.spec /\ v.barge = u.barge
        /\ v.talking = u.talking /\ v.over = u.over /\ v.slipped = u.slipped
        /\ \A q \in DOMAIN u.replies : SameReply(u.replies, v.replies, q) /\ (q # r => v.replies[q] = u.replies[q])
        /\ v.replies[r].settled = (reply.settled \/ Settles(reply))
        /\ v.replies[r].fixed = reply.fixed /\ v.replies[r].at = reply.at
        /\ ~Settles(reply) => v = u
        /\ Settles(reply) =>
             \/ reply.acted /\ v.heard = u.heard /\ v.recalled = u.recalled \cup reply.lines
             \/ ~reply.acted /\ v.heard = <<reply.lines>> \o u.heard /\ v.recalled = u.recalled
    BY <1>1, <2>0, SettleMoves
  <2> HIDE DEF v
  <2>2. r \in 0..Len(v.replies)
    BY <1>1, <1>2, <2>0, <2>1, TalkFields
  <2>3. /\ TalkState(t) /\ DOMAIN t.replies = DOMAIN v.replies
        /\ t.heard = v.heard /\ t.reply = v.reply /\ t.spec = v.spec /\ t.barge = v.barge
        /\ t.talking = v.talking /\ t.recalled = v.recalled /\ t.over = v.over /\ t.slipped = v.slipped
        /\ \A q \in DOMAIN v.replies : /\ q # r => t.replies[q] = v.replies[q]
                                       /\ q # r \/ v.replies[q].confirmed => SameReply(v.replies, t.replies, q)
        /\ t.replies[r].at # "running" /\ t.replies[r].settled = v.replies[r].settled
        /\ t.replies[r].fixed = v.replies[r].fixed
    BY <1>5, <2>1, <2>2, CancelMoves
  <2> HIDE DEF t
  <2>4. \A q \in DOMAIN s.replies : q # r => t.replies[q] = s.replies[q]
    BY <1>1, <2>1, <2>3
  <2>7. \A q \in DOMAIN s.replies : q # r \/ reply.confirmed => SameReply(s.replies, t.replies, q)
    <3>1. v.replies[r].confirmed = reply.confirmed
      BY <1>1, <2>0, <2>1 DEF SameReply
    <3> QED
      BY <1>1, <2>1, <2>3, <3>1 DEF SameReply
  <2>5. Doing(s) = reply.lines
    BY <1>5 DEF Doing
  <2>6. ASSUME InOrder(s.replies, r)
        PROVE  /\ InOrder(t.replies, 0) /\ \A q \in DOMAIN s.replies : SameReply(s.replies, t.replies, q)
               /\ \/ ~Changes(s) /\ t.heard = s.heard /\ t.recalled = s.recalled /\ Doing(s) = {}
                  \/ Changes(s) /\ t.heard = s.heard /\ t.recalled = s.recalled \cup Doing(s)
                  \/ Changes(s) /\ t.heard = <<Doing(s)>> \o s.heard /\ t.recalled = s.recalled
    <3>1. r \in DOMAIN s.replies /\ reply.confirmed /\ ~reply.settled /\ (reply.fixed => reply.lines = {})
      BY <1>1, <1>5, <2>0, <2>6 DEF InOrder
    <3>2. Settles(reply) <=> ~reply.fixed
      BY <3>1 DEF Settles
    <3>3. Changes(s) <=> Settles(reply)
      BY <1>5 DEF Changes
    <3>4. InOrder(t.replies, 0)
      <4>1. /\ t.replies[r].confirmed = reply.confirmed /\ t.replies[r].lines = reply.lines
            /\ t.replies[r].fixed = reply.fixed /\ t.replies[r].settled = (reply.settled \/ Settles(reply))
        BY <1>1, <2>0, <2>1, <2>3, <2>7, <3>1 DEF SameReply
      <4>2. 0 \notin DOMAIN s.replies /\ DOMAIN t.replies = DOMAIN s.replies
        BY <1>1, <1>2, <2>1, <2>3
      <4>3. /\ ~(t.replies[r].at = "running") /\ (t.replies[r].settled => t.replies[r].confirmed)
            /\ (t.replies[r].fixed => t.replies[r].lines = {}) /\ (t.replies[r].settled \/ t.replies[r].fixed)
        BY <2>3, <3>1, <3>2, <4>1
      <4>4. \A k \in DOMAIN s.replies : k # r => t.replies[k] = s.replies[k]
        BY <2>4
      <4> HIDE DEF r, reply
      <4> QED
        BY <1>5, <2>6, <3>1, <4>2, <4>3, <4>4, OrderMoves
    <3>5. \A q \in DOMAIN s.replies : SameReply(s.replies, t.replies, q)
      BY <2>7, <3>1
    <3> QED
      BY <1>1, <2>1, <2>3, <2>5, <3>1, <3>2, <3>3, <3>4, <3>5
  <2> QED
    BY <1>1, <1>3, <1>5, <2>1, <2>3, <2>6 DEF t, v
<1> QED
  BY <1>4, <1>5

(* PutReply: unless it slips, no reply was being said or left unfinished.   *)
LEMMA PutMoves ==
  ASSUME NEW s, TalkState(s), NEW r \in DOMAIN s.replies
  PROVE  LET t == PutReply(s, r) IN
         /\ TalkState(t) /\ t.replies = s.replies /\ t.heard = s.heard /\ t.reply = r /\ t.spec = s.spec
         /\ t.barge = s.barge /\ t.talking = s.talking /\ t.recalled = s.recalled /\ t.over = s.over
         /\ ~t.slipped => /\ ~s.slipped /\ s.reply \in {0, r}
                          /\ \A q \in DOMAIN s.replies : s.replies[q].confirmed /\ s.replies[q].at = "running" => q = r
<1> DEFINE b == s.slipped \/ s.reply \notin {0, r} \/ Unfinished(s) \ {r} # {}
<1>1. PutReply(s, r) = [s EXCEPT !.reply = r, !.slipped = b]
  BY DEF PutReply, TalkState, TalkRecord
<1>2. b \in BOOLEAN
  BY DEF TalkState, TalkRecord
<1>3. r \in Nat /\ r \in 0..Len(s.replies)
  BY TalkFields
<1>4. ~b => /\ ~s.slipped /\ s.reply \in {0, r}
            /\ \A q \in DOMAIN s.replies : s.replies[q].confirmed /\ s.replies[q].at = "running" => q = r
  BY DEF Unfinished
<1> HIDE DEF b
<1> QED
  BY <1>1, <1>2, <1>3, <1>4 DEF TalkState, TalkRecord

(* A reply is made.                                                         *)
LEMMA AddMoves ==
  ASSUME NEW s, TalkState(s), NEW x \in ReplyRecord
  PROVE  LET p == Append(s.replies, x)
             t == [s EXCEPT !.replies = p]
             id == Len(s.replies) + 1
         IN /\ TalkState(t) /\ t.replies = p /\ DOMAIN p = 1..id /\ Len(p) = id /\ p[id] = x
            /\ \A q \in DOMAIN s.replies : q \in DOMAIN p /\ q # id /\ p[q] = s.replies[q]
            /\ t.heard = s.heard /\ t.reply = s.reply /\ t.spec = s.spec /\ t.barge = s.barge
            /\ t.talking = s.talking /\ t.recalled = s.recalled /\ t.over = s.over /\ t.slipped = s.slipped
<1> DEFINE p == Append(s.replies, x)
           t == [s EXCEPT !.replies = p]
           n == Len(s.replies)
<1>1. s.replies \in Seq(ReplyRecord) /\ s.reply \in 0..n /\ s.spec \in 0..n
  BY TalkFields
<1>2. /\ p \in Seq(ReplyRecord) /\ n \in Nat /\ DOMAIN s.replies = 1..n /\ Len(p) = n + 1
      /\ DOMAIN p = 1..(n + 1) /\ p[n + 1] = x /\ \A i \in 1..n : p[i] = s.replies[i]
  BY <1>1, SeqAppends
<1> HIDE DEF p, n
<1>3. s.reply \in 0..(n + 1) /\ s.spec \in 0..(n + 1)
  BY <1>1, <1>2
<1>4. TalkState(t) /\ t.replies = p
  BY <1>2, <1>3 DEF TalkState, TalkRecord
<1>5. \A q \in 1..n : q \in 1..(n + 1) /\ q # n + 1
  BY <1>2
<1>6. /\ t.heard = s.heard /\ t.reply = s.reply /\ t.spec = s.spec /\ t.barge = s.barge
      /\ t.talking = s.talking /\ t.recalled = s.recalled /\ t.over = s.over /\ t.slipped = s.slipped
  BY DEF TalkState, TalkRecord
<1> QED
  BY <1>2, <1>4, <1>5, <1>6 DEF p, n

(* The order of the replies, when the one added is the one being said. *)
LEMMA OrderAdds ==
  ASSUME NEW q, NEW p, NEW id, DOMAIN p = DOMAIN q \cup {id}, id \notin DOMAIN q, NEW a, NEW b,
         \A k \in DOMAIN q : p[k] = q[k], InOrder(q, a), ~p[id].settled,
         p[id].fixed => p[id].lines = {}, p[id].at = "running",
         \/ b = id /\ p[id].confirmed /\ \A k \in DOMAIN q : q[k].confirmed /\ q[k].at = "running" => k = id
         \/ b = a /\ ~p[id].confirmed /\ a \in DOMAIN q \cup {0}
  PROVE  InOrder(p, b)
<1>1. ASSUME NEW k \in DOMAIN p
      PROVE  /\ p[k].confirmed /\ p[k].at = "running" => k = b
             /\ p[k].settled => p[k].confirmed
             /\ p[k].fixed => p[k].lines = {}
             /\ p[k].confirmed /\ p[k].at = "cancelled" => p[k].settled \/ p[k].fixed
  <2>1. CASE k = id
    BY <2>1
  <2>2. CASE k \in DOMAIN q
    BY <2>2 DEF InOrder
  <2> QED
    BY <1>1, <2>1, <2>2
<1>2. b # 0 => p[b].confirmed /\ ~p[b].settled
  BY DEF InOrder
<1> QED
  BY <1>1, <1>2 DEF InOrder

(* Speak: a fixed line answers nothing.                                     *)
LEMMA SpeakMoves ==
  ASSUME NEW s, TalkState(s)
  PROVE  LET t == Speak(s)
             id == Len(s.replies) + 1
         IN /\ TalkState(t) /\ DOMAIN t.replies = 1..id /\ t.reply = id /\ id # 0
            /\ t.heard = s.heard /\ t.spec = s.spec /\ t.barge = s.barge /\ t.talking = s.talking
            /\ t.recalled = s.recalled /\ t.over = s.over /\ t.replies[id].lines = {}
            /\ \A q \in DOMAIN s.replies : SameReply(s.replies, t.replies, q)
            /\ ~t.slipped => ~s.slipped /\ s.reply = 0
            /\ ~t.slipped /\ InOrder(s.replies, s.reply) => InOrder(t.replies, t.reply)
<1> DEFINE x == NewReply({}, 0, TRUE, TRUE)
           p == Append(s.replies, x)
           u == [s EXCEPT !.replies = p]
           t == Speak(s)
           id == Len(s.replies) + 1
<1>1. /\ x \in ReplyRecord /\ x.lines = {} /\ x.consumed = 0 /\ x.confirmed /\ x.fixed /\ ~x.settled /\ x.at = "running"
  BY DEF NewReply, ReplyRecord
<1>2. t = PutReply(u, id)
  BY DEF Speak, TalkState, TalkRecord
<1> HIDE DEF x
<1>3. /\ TalkState(u) /\ u.replies = p /\ DOMAIN p = 1..id /\ Len(p) = id /\ p[id] = x
      /\ \A q \in DOMAIN s.replies : q \in DOMAIN p /\ q # id /\ p[q] = s.replies[q]
      /\ u.heard = s.heard /\ u.reply = s.reply /\ u.spec = s.spec /\ u.barge = s.barge
      /\ u.talking = s.talking /\ u.recalled = s.recalled /\ u.over = s.over /\ u.slipped = s.slipped
  BY <1>1, AddMoves
<1> HIDE DEF u, p
<1>4. id \in DOMAIN u.replies /\ DOMAIN s.replies = 1..(id - 1) /\ id \in Nat \ {0} /\ s.reply \in 0..(id - 1)
  BY <1>3, TalkFields
<1>5. /\ TalkState(t) /\ t.replies = u.replies /\ t.heard = u.heard /\ t.reply = id /\ t.spec = u.spec
      /\ t.barge = u.barge /\ t.talking = u.talking /\ t.recalled = u.recalled /\ t.over = u.over
      /\ ~t.slipped => /\ ~u.slipped /\ u.reply \in {0, id}
                       /\ \A q \in DOMAIN u.replies : u.replies[q].confirmed /\ u.replies[q].at = "running" => q = id
  BY <1>2, <1>3, <1>4, PutMoves
<1> HIDE DEF t
<1>6. \A q \in DOMAIN s.replies : SameReply(s.replies, t.replies, q)
  BY <1>3, <1>5 DEF SameReply
<1>7. ~t.slipped => s.reply = 0
  BY <1>3, <1>4, <1>5
<1>8. ASSUME ~t.slipped, InOrder(s.replies, s.reply) PROVE InOrder(t.replies, t.reply)
  <2>1. DOMAIN t.replies = DOMAIN s.replies \cup {id} /\ id \notin DOMAIN s.replies
    BY <1>3, <1>4, <1>5
  <2>2. \A k \in DOMAIN s.replies : t.replies[k] = s.replies[k]
    BY <1>3, <1>5
  <2>3. \A k \in DOMAIN s.replies : s.replies[k].confirmed /\ s.replies[k].at = "running" => k = id
    BY <1>3, <1>5, <1>8
  <2>4. t.replies[id] = x /\ t.reply = id
    BY <1>3, <1>5
  <2> HIDE DEF id
  <2> QED
    BY <1>1, <1>8, <2>1, <2>2, <2>3, <2>4, OrderAdds
<1> QED
  BY <1>1, <1>3, <1>4, <1>5, <1>6, <1>7, <1>8 DEF t

(* StartReply of a reply that is not confirmed takes nothing yet.           *)
LEMMA EagerMoves ==
  ASSUME NEW s, TalkState(s), NEW lines \in SUBSET Lines
  PROVE  LET t == StartReply(s, lines, FALSE)
             id == Len(s.replies) + 1
         IN /\ TalkState(t) /\ DOMAIN t.replies = 1..id /\ t.spec = id /\ id # 0
            /\ t.heard = s.heard /\ t.reply = s.reply /\ t.barge = s.barge /\ t.talking = s.talking
            /\ t.recalled = s.recalled /\ t.over = s.over /\ t.slipped = s.slipped
            /\ \A q \in DOMAIN s.replies : SameReply(s.replies, t.replies, q)
            /\ t.replies[id].lines = lines \cup UNION ToSet(s.heard) /\ t.replies[id].consumed = Len(s.heard)
            /\ ~t.replies[id].confirmed /\ t.replies[id].at = "running"
            /\ InOrder(s.replies, s.reply) => InOrder(t.replies, t.reply)
<1> DEFINE x == NewReply(lines \cup UNION ToSet(s.heard), Len(s.heard), FALSE, FALSE)
           p == Append(s.replies, x)
           u == [s EXCEPT !.replies = p]
           t == StartReply(s, lines, FALSE)
           id == Len(s.replies) + 1
<1>1. /\ x \in ReplyRecord /\ x.lines = lines \cup UNION ToSet(s.heard) /\ x.consumed = Len(s.heard)
      /\ ~x.confirmed /\ ~x.fixed /\ ~x.settled /\ x.at = "running"
  <2>1. s.heard \in Seq(SUBSET Lines)
    BY TalkFields
  <2>2. UNION ToSet(s.heard) \subseteq Lines /\ Len(s.heard) \in Nat
    BY <2>1 DEF ToSet
  <2> DEFINE all == lines \cup UNION ToSet(s.heard)
             n == Len(s.heard)
  <2>3. all \in SUBSET Lines /\ n \in Nat
    BY <2>2
  <2> HIDE DEF all, n
  <2>4. LET y == NewReply(all, n, FALSE, FALSE) IN
        /\ y \in ReplyRecord /\ y.lines = all /\ y.consumed = n /\ ~y.confirmed /\ ~y.fixed /\ ~y.settled /\ y.at = "running"
    BY <2>3 DEF NewReply, ReplyRecord
  <2> QED
    BY <2>4 DEF all, n
<1>2. t = [u EXCEPT !.spec = id]
  BY DEF StartReply, TalkState, TalkRecord
<1> HIDE DEF x
<1>3. /\ TalkState(u) /\ u.replies = p /\ DOMAIN p = 1..id /\ Len(p) = id /\ p[id] = x
      /\ \A q \in DOMAIN s.replies : q \in DOMAIN p /\ q # id /\ p[q] = s.replies[q]
      /\ u.heard = s.heard /\ u.reply = s.reply /\ u.spec = s.spec /\ u.barge = s.barge
      /\ u.talking = s.talking /\ u.recalled = s.recalled /\ u.over = s.over /\ u.slipped = s.slipped
  BY <1>1, AddMoves
<1> HIDE DEF u, p
<1>4. id \in DOMAIN u.replies /\ DOMAIN s.replies = 1..(id - 1) /\ id \in Nat \ {0} /\ s.reply \in 0..(id - 1)
      /\ id \in 0..Len(u.replies) /\ u.reply \in 0..Len(u.replies)
  BY <1>3, TalkFields
<1> HIDE DEF id
<1>5. /\ TalkState(t) /\ t.replies = u.replies /\ t.heard = u.heard /\ t.reply = u.reply /\ t.spec = id
      /\ t.barge = u.barge /\ t.talking = u.talking /\ t.recalled = u.recalled /\ t.over = u.over
      /\ t.slipped = u.slipped
  BY <1>2, <1>3, <1>4 DEF TalkState, TalkRecord
<1> HIDE DEF t
<1>6. \A q \in DOMAIN s.replies : SameReply(s.replies, t.replies, q)
  BY <1>3, <1>5 DEF SameReply
<1>8. ASSUME InOrder(s.replies, s.reply) PROVE InOrder(t.replies, t.reply)
  <2>1. DOMAIN t.replies = DOMAIN s.replies \cup {id} /\ id \notin DOMAIN s.replies
        /\ s.reply \in DOMAIN s.replies \cup {0}
    BY <1>3, <1>4, <1>5
  <2>2. \A k \in DOMAIN s.replies : t.replies[k] = s.replies[k]
    BY <1>3, <1>5
  <2>4. t.replies[id] = x /\ t.reply = s.reply
    BY <1>3, <1>5
  <2> QED
    BY <1>1, <1>8, <2>1, <2>2, <2>4, OrderAdds
<1> QED
  BY <1>1, <1>3, <1>4, <1>5, <1>6, <1>8 DEF t, id

(* TakeContext cuts the front of the context.                               *)
LEMMA TakeMoves ==
  ASSUME NEW s, TalkState(s), NEW r \in DOMAIN s.replies
  PROVE  LET t == TakeContext(s, r) IN
         /\ TalkState(t) /\ t.replies = s.replies /\ t.reply = s.reply /\ t.spec = s.spec
         /\ t.heard = SubSeq(s.heard, s.replies[r].consumed + 1, Len(s.heard))
         /\ t.barge = s.barge /\ t.talking = s.talking /\ t.recalled = s.recalled /\ t.over = s.over
         /\ t.slipped = s.slipped
<1> DEFINE h == SubSeq(s.heard, s.replies[r].consumed + 1, Len(s.heard))
<1>1. s.heard \in Seq(SUBSET Lines) /\ s.replies[r].consumed \in Nat
  BY TalkFields DEF ReplyRecord
<1>2. h \in Seq(SUBSET Lines)
  BY <1>1, SeqSuffixes
<1>3. TakeContext(s, r) = [s EXCEPT !.heard = h]
  BY DEF TakeContext, TalkState, TalkRecord
<1> HIDE DEF h
<1>4. LET t == [s EXCEPT !.heard = h] IN
      /\ TalkState(t) /\ t.replies = s.replies /\ t.reply = s.reply /\ t.spec = s.spec /\ t.heard = h
      /\ t.barge = s.barge /\ t.talking = s.talking /\ t.recalled = s.recalled /\ t.over = s.over
      /\ t.slipped = s.slipped
  BY <1>2 DEF TalkState, TalkRecord
<1> QED
  BY <1>3, <1>4 DEF h

(* StartReply of a confirmed reply takes all of the context.                *)
LEMMA StartMoves ==
  ASSUME NEW s, TalkState(s), NEW lines \in SUBSET Lines
  PROVE  LET t == StartReply(s, lines, TRUE)
             id == Len(s.replies) + 1
         IN /\ TalkState(t) /\ DOMAIN t.replies = 1..id /\ t.reply = id /\ id # 0
            /\ t.heard = <<>> /\ t.spec = s.spec /\ t.barge = s.barge /\ t.talking = s.talking
            /\ t.recalled = s.recalled /\ t.over = s.over
            /\ t.replies[id].lines = lines \cup UNION ToSet(s.heard)
            /\ \A q \in DOMAIN s.replies : SameReply(s.replies, t.replies, q)
            /\ ~t.slipped => ~s.slipped /\ s.reply = 0
            /\ ~t.slipped /\ InOrder(s.replies, s.reply) => InOrder(t.replies, t.reply)
<1> DEFINE x == NewReply(lines \cup UNION ToSet(s.heard), Len(s.heard), TRUE, FALSE)
           p == Append(s.replies, x)
           u == [s EXCEPT !.replies = p]
           id == Len(s.replies) + 1
           v == TakeContext(u, id)
           t == PutReply(v, id)
<1>0. s.heard \in Seq(SUBSET Lines) /\ Len(s.heard) \in Nat
  BY TalkFields
<1>1. /\ x \in ReplyRecord /\ x.lines = lines \cup UNION ToSet(s.heard) /\ x.consumed = Len(s.heard)
      /\ x.confirmed /\ ~x.fixed /\ ~x.settled /\ x.at = "running"
  <2> DEFINE all == lines \cup UNION ToSet(s.heard)
             n == Len(s.heard)
  <2>1. all \in SUBSET Lines /\ n \in Nat
    BY <1>0 DEF ToSet
  <2> HIDE DEF all, n
  <2>2. LET y == NewReply(all, n, TRUE, FALSE) IN
        /\ y \in ReplyRecord /\ y.lines = all /\ y.consumed = n /\ y.confirmed /\ ~y.fixed /\ ~y.settled /\ y.at = "running"
    BY <2>1 DEF NewReply, ReplyRecord
  <2> QED
    BY <2>2 DEF all, n
<1>2. StartReply(s, lines, TRUE) = t
  BY DEF StartReply
<1> HIDE DEF x
<1>3. /\ TalkState(u) /\ u.replies = p /\ DOMAIN p = 1..id /\ Len(p) = id /\ p[id] = x
      /\ \A q \in DOMAIN s.replies : q \in DOMAIN p /\ q # id /\ p[q] = s.replies[q]
      /\ u.heard = s.heard /\ u.reply = s.reply /\ u.spec = s.spec /\ u.barge = s.barge
      /\ u.talking = s.talking /\ u.recalled = s.recalled /\ u.over = s.over /\ u.slipped = s.slipped
  BY <1>1, AddMoves
<1> HIDE DEF u, p
<1>4. id \in DOMAIN u.replies /\ DOMAIN s.replies = 1..(id - 1) /\ id \in Nat \ {0} /\ s.reply \in 0..(id - 1)
  BY <1>3, TalkFields
<1>5. /\ TalkState(v) /\ v.replies = u.replies /\ v.reply = u.reply /\ v.spec = u.spec
      /\ v.heard = SubSeq(u.heard, u.replies[id].consumed + 1, Len(u.heard))
      /\ v.barge = u.barge /\ v.talking = u.talking /\ v.recalled = u.recalled /\ v.over = u.over
      /\ v.slipped = u.slipped
  BY <1>3, <1>4, TakeMoves
<1>6. v.heard = <<>>
  BY <1>0, <1>1, <1>3, <1>5
<1> HIDE DEF v
<1>7. /\ TalkState(t) /\ t.replies = v.replies /\ t.heard = v.heard /\ t.reply = id /\ t.spec = v.spec
      /\ t.barge = v.barge /\ t.talking = v.talking /\ t.recalled = v.recalled /\ t.over = v.over
      /\ ~t.slipped => /\ ~v.slipped /\ v.reply \in {0, id}
                       /\ \A q \in DOMAIN v.replies : v.replies[q].confirmed /\ v.replies[q].at = "running" => q = id
  BY <1>4, <1>5, PutMoves
<1> HIDE DEF t
<1>8. \A q \in DOMAIN s.replies : SameReply(s.replies, t.replies, q)
  BY <1>3, <1>5, <1>7 DEF SameReply
<1>9. ~t.slipped => ~s.slipped /\ s.reply = 0
  BY <1>3, <1>4, <1>5, <1>7
<1>10. ASSUME ~t.slipped, InOrder(s.replies, s.reply) PROVE InOrder(t.replies, t.reply)
  <2>1. DOMAIN t.replies = DOMAIN s.replies \cup {id} /\ id \notin DOMAIN s.replies
    BY <1>3, <1>4, <1>5, <1>7
  <2>2. \A k \in DOMAIN s.replies : t.replies[k] = s.replies[k]
    BY <1>3, <1>5, <1>7
  <2>3. \A k \in DOMAIN s.replies : s.replies[k].confirmed /\ s.replies[k].at = "running" => k = id
    BY <1>3, <1>5, <1>7, <1>10
  <2>4. t.replies[id] = x /\ t.reply = id
    BY <1>3, <1>5, <1>7
  <2> HIDE DEF id
  <2> QED
    BY <1>1, <1>10, <2>1, <2>2, <2>3, <2>4, OrderAdds
<1>11. t.replies[id].lines = lines \cup UNION ToSet(s.heard) /\ DOMAIN t.replies = 1..id
  BY <1>1, <1>3, <1>5, <1>7
<1> QED
  BY <1>2, <1>3, <1>4, <1>5, <1>6, <1>7, <1>8, <1>9, <1>10, <1>11 DEF t

(* Confirm takes the context that the reply was made of, and it is said.    *)
LEMMA ConfirmMoves ==
  ASSUME NEW s, TalkState(s), NEW r \in DOMAIN s.replies
  PROVE  LET t == Confirm(s, r) IN
         /\ TalkState(t) /\ DOMAIN t.replies = DOMAIN s.replies /\ t.reply = r /\ r # 0
         /\ t.heard = SubSeq(s.heard, s.replies[r].consumed + 1, Len(s.heard))
         /\ t.spec = s.spec /\ t.barge = s.barge /\ t.talking = s.talking
         /\ t.recalled = s.recalled /\ t.over = s.over /\ t.replies[r].lines = s.replies[r].lines
         /\ \A q \in DOMAIN s.replies : q # r => SameReply(s.replies, t.replies, q)
         /\ ~t.slipped => ~s.slipped
         /\ ~t.slipped /\ InOrder(s.replies, s.reply) /\ ~s.replies[r].confirmed /\ s.replies[r].at # "cancelled" =>
              s.reply = 0 /\ InOrder(t.replies, t.reply)
<1> DEFINE v == TakeContext(s, r)
           u == PutReply(v, r)
           x == [u.replies[r] EXCEPT !.confirmed = TRUE]
           t == [u EXCEPT !.replies = [u.replies EXCEPT ![r] = x]]
<1>1. /\ TalkState(v) /\ v.replies = s.replies /\ v.reply = s.reply /\ v.spec = s.spec
      /\ v.heard = SubSeq(s.heard, s.replies[r].consumed + 1, Len(s.heard))
      /\ v.barge = s.barge /\ v.talking = s.talking /\ v.recalled = s.recalled /\ v.over = s.over
      /\ v.slipped = s.slipped
  BY TakeMoves
<1>2. Confirm(s, r) = t
  BY DEF Confirm
<1> HIDE DEF v
<1>3. /\ TalkState(u) /\ u.replies = v.replies /\ u.heard = v.heard /\ u.reply = r /\ u.spec = v.spec
      /\ u.barge = v.barge /\ u.talking = v.talking /\ u.recalled = v.recalled /\ u.over = v.over
      /\ ~u.slipped => /\ ~v.slipped /\ v.reply \in {0, r}
                       /\ \A q \in DOMAIN v.replies : v.replies[q].confirmed /\ v.replies[q].at = "running" => q = r
  BY <1>1, PutMoves
<1> HIDE DEF u
<1>4. s.replies[r] \in ReplyRecord /\ r # 0 /\ 0 \notin DOMAIN s.replies
  BY TalkFields
<1>5. /\ x \in ReplyRecord /\ x.lines = s.replies[r].lines /\ x.confirmed /\ x.fixed = s.replies[r].fixed
      /\ x.settled = s.replies[r].settled /\ x.at = s.replies[r].at
  BY <1>1, <1>3, <1>4 DEF ReplyRecord
<1> HIDE DEF x
<1>6. /\ TalkState(t) /\ DOMAIN t.replies = DOMAIN u.replies /\ t.replies[r] = x
      /\ \A q \in DOMAIN u.replies : q # r => t.replies[q] = u.replies[q]
      /\ t.heard = u.heard /\ t.reply = u.reply /\ t.spec = u.spec /\ t.barge = u.barge
      /\ t.talking = u.talking /\ t.recalled = u.recalled /\ t.over = u.over /\ t.slipped = u.slipped
  BY <1>1, <1>3, <1>5, ReplyMoves
<1> HIDE DEF t
<1>7. \A q \in DOMAIN s.replies : q # r => SameReply(s.replies, t.replies, q)
  BY <1>1, <1>3, <1>6 DEF SameReply
<1>8. ASSUME ~t.slipped, InOrder(s.replies, s.reply), ~s.replies[r].confirmed,
             s.replies[r].at # "cancelled"
      PROVE  s.reply = 0 /\ InOrder(t.replies, t.reply)
  <2>1. s.reply = 0
    BY <1>1, <1>3, <1>4, <1>6, <1>8 DEF InOrder
  <2>2. ~s.replies[r].settled /\ (x.fixed => x.lines = {})
    BY <1>5, <1>8 DEF InOrder
  <2>3. /\ DOMAIN t.replies = DOMAIN s.replies /\ InOrder(s.replies, 0) /\ t.reply = r
        /\ \A k \in DOMAIN s.replies : k # r => t.replies[k] = s.replies[k]
    BY <1>1, <1>3, <1>6, <1>8, <2>1
  <2>4. /\ t.replies[r].confirmed /\ ~t.replies[r].settled /\ (t.replies[r].fixed => t.replies[r].lines = {})
        /\ t.replies[r].at # "cancelled" \/ t.replies[r].settled \/ t.replies[r].fixed
    BY <1>5, <1>6, <1>8, <2>2
  <2> QED
    BY <1>4, <2>1, <2>3, <2>4, OrderMoves
<1> QED
  BY <1>1, <1>2, <1>3, <1>4, <1>5, <1>6, <1>7, <1>8 DEF t

(* A reply answers the lines it did, if from another place in the context.  *)
SameLines(p, q, r) ==
  /\ r \in DOMAIN q /\ q[r].lines = p[r].lines /\ q[r].confirmed = p[r].confirmed
  /\ ~q[r].confirmed /\ q[r].at = "cancelled" => p[r].at = "cancelled"

(* Remember: the line is the latest context; what no longer has room is let *)
(* go of, and the early reply has taken that much less.                     *)
LEMMA RememberMoves ==
  ASSUME NEW s, TalkState(s), NEW l \in Lines
  PROVE  LET t == Remember(s, l)
             a == Append(s.heard, {l})
             k == Len(a) - HeardLines
         IN /\ TalkState(t) /\ DOMAIN t.replies = DOMAIN s.replies
            /\ t.reply = s.reply /\ t.spec = s.spec /\ t.barge = s.barge /\ t.talking = s.talking
            /\ t.recalled = s.recalled /\ t.slipped = s.slipped
            /\ \A q \in DOMAIN s.replies : SameLines(s.replies, t.replies, q)
            /\ InOrder(s.replies, s.reply) => InOrder(t.replies, t.reply)
            /\ \/ /\ t.heard = a /\ t.over = s.over
                  /\ \A q \in DOMAIN s.replies : SameReply(s.replies, t.replies, q)
               \/ /\ Len(s.heard) >= HeardLines
                  /\ k \in Nat /\ k <= Len(a)
                  /\ t.heard = SubSeq(a, k + 1, Len(a)) /\ t.over = s.over \cup UNION {a[i] : i \in 1..k}
                  /\ \A q \in DOMAIN s.replies : q # s.spec => SameReply(s.replies, t.replies, q)
                  /\ s.spec # 0 => t.replies[s.spec].consumed =
                       IF s.replies[s.spec].consumed > k THEN s.replies[s.spec].consumed - k ELSE 0
<1> DEFINE a == Append(s.heard, {l})
           k == Len(a) - HeardLines
           n == Len(s.replies)
<1>1. /\ s.heard \in Seq(SUBSET Lines) /\ s.replies \in Seq(ReplyRecord) /\ n \in Nat /\ DOMAIN s.replies = 1..n
      /\ s.reply \in 0..n /\ s.spec \in 0..n /\ s.over \in SUBSET Lines /\ \A q \in 1..n : s.replies[q] \in ReplyRecord
  BY TalkFields
<1>2. /\ a \in Seq(SUBSET Lines) /\ Len(s.heard) \in Nat /\ Len(a) = Len(s.heard) + 1
      /\ DOMAIN a = 1..(Len(s.heard) + 1)
  BY <1>1, SeqAppends, {l} \in SUBSET Lines
<1>3. CASE Len(a) <= HeardLines
  <2> DEFINE t == [s EXCEPT !.heard = a]
  <2>1. Remember(s, l) = t
    BY <1>3 DEF Remember
  <2> HIDE DEF a
  <2>2. /\ TalkState(t) /\ t.replies = s.replies /\ t.heard = a /\ t.reply = s.reply /\ t.spec = s.spec
        /\ t.barge = s.barge /\ t.talking = s.talking /\ t.recalled = s.recalled /\ t.over = s.over
        /\ t.slipped = s.slipped
    BY <1>2 DEF TalkState, TalkRecord
  <2> HIDE DEF t
  <2>3. \A q \in DOMAIN s.replies : SameLines(s.replies, t.replies, q) /\ SameReply(s.replies, t.replies, q)
    BY <2>2 DEF SameLines, SameReply
  <2> QED
    BY <2>1, <2>2, <2>3 DEF a
<1>4. CASE ~(Len(a) <= HeardLines)
  <2> DEFINE Less(q) == IF q = s.spec
                          THEN [s.replies[q] EXCEPT !.consumed = IF s.replies[q].consumed > k
                                                                   THEN s.replies[q].consumed - k ELSE 0]
                          ELSE s.replies[q]
             p == [q \in DOMAIN s.replies |-> Less(q)]
             h == SubSeq(a, k + 1, Len(a))
             o == s.over \cup UNION {a[i] : i \in 1..k}
             t == [s EXCEPT !.heard = h, !.over = o, !.replies = p]
  <2>0. HeardLines \in Nat /\ k \in Nat /\ k <= Len(a) /\ Len(s.heard) >= HeardLines
    BY <1>2, <1>4, TalkAssumption
  <2>1. Remember(s, l) = t
    BY <1>4 DEF Remember
  <2>2. h \in Seq(SUBSET Lines) /\ o \in SUBSET Lines
    <3> HIDE DEF a, k
    <3>1. h \in Seq(SUBSET Lines)
      BY <1>2, <2>0, SeqSuffixes
    <3>2. \A i \in 1..k : a[i] \in SUBSET Lines
      BY <1>2, <2>0
    <3> QED
      BY <1>1, <3>1, <3>2
  <2>3. ASSUME NEW q \in 1..n
        PROVE  /\ Less(q) \in ReplyRecord /\ Less(q).lines = s.replies[q].lines
               /\ Less(q).confirmed = s.replies[q].confirmed /\ Less(q).fixed = s.replies[q].fixed
               /\ Less(q).settled = s.replies[q].settled /\ Less(q).at = s.replies[q].at
               /\ q # s.spec => Less(q) = s.replies[q]
               /\ q = s.spec => Less(q).consumed = IF s.replies[q].consumed > k
                                                     THEN s.replies[q].consumed - k ELSE 0
    <3>1. s.replies[q] \in ReplyRecord /\ s.replies[q].consumed \in Nat
      BY <1>1, <2>3 DEF ReplyRecord
    <3>2. CASE q = s.spec
      <4> DEFINE c == IF s.replies[q].consumed > k THEN s.replies[q].consumed - k ELSE 0
      <4>1. c \in Nat /\ Less(q) = [s.replies[q] EXCEPT !.consumed = c]
        <5> HIDE DEF k
        <5> QED
          BY <2>0, <3>1, <3>2
      <4> HIDE DEF c, Less, k
      <4>2. /\ Less(q) \in ReplyRecord /\ Less(q).lines = s.replies[q].lines
            /\ Less(q).confirmed = s.replies[q].confirmed /\ Less(q).fixed = s.replies[q].fixed
            /\ Less(q).settled = s.replies[q].settled /\ Less(q).at = s.replies[q].at /\ Less(q).consumed = c
        BY <3>1, <4>1 DEF ReplyRecord
      <4> QED
        BY <3>2, <4>2 DEF c
    <3>3. CASE q # s.spec
      BY <3>1, <3>3
    <3> QED
      BY <3>2, <3>3
  <2> HIDE DEF Less
  <2>4. p \in [1..n -> ReplyRecord] /\ \A q \in 1..n : p[q] = Less(q)
    BY <1>1, <2>3
  <2>5. p \in Seq(ReplyRecord) /\ Len(p) = n /\ DOMAIN p = 1..n
    BY <1>1, <2>4, FunctionIsSeq
  <2> HIDE DEF p, h, o
  <2>6. /\ TalkState(t) /\ t.replies = p /\ t.heard = h /\ t.reply = s.reply /\ t.spec = s.spec
        /\ t.barge = s.barge /\ t.talking = s.talking /\ t.recalled = s.recalled /\ t.over = o
        /\ t.slipped = s.slipped
    BY <1>1, <2>2, <2>5 DEF TalkState, TalkRecord
  <2> HIDE DEF t
  <2>7. \A q \in DOMAIN s.replies : SameLines(s.replies, t.replies, q) /\ (q # s.spec => SameReply(s.replies, t.replies, q))
    BY <1>1, <2>3, <2>4, <2>5, <2>6 DEF SameLines, SameReply
  <2>8. ASSUME InOrder(s.replies, s.reply) PROVE InOrder(t.replies, t.reply)
    <3>1. \A q \in 1..n : /\ t.replies[q].lines = s.replies[q].lines
               /\ t.replies[q].confirmed = s.replies[q].confirmed /\ t.replies[q].fixed = s.replies[q].fixed
               /\ t.replies[q].settled = s.replies[q].settled /\ t.replies[q].at = s.replies[q].at
      BY <2>3, <2>4, <2>6
    <3>2. s.reply # 0 => s.reply \in 1..n
      BY <1>1
    <3>3. DOMAIN t.replies = 1..n
      BY <2>5, <2>6
    <3> QED
      BY <1>1, <2>6, <2>8, <3>1, <3>2, <3>3 DEF InOrder
  <2>9. s.spec # 0 => t.replies[s.spec].consumed =
          IF s.replies[s.spec].consumed > k THEN s.replies[s.spec].consumed - k ELSE 0
    <3>1. s.spec # 0 => s.spec \in 1..n
      BY <1>1
    <3> HIDE DEF k
    <3> QED
      BY <2>3, <2>4, <2>6, <3>1
  <2>10. /\ DOMAIN t.replies = DOMAIN s.replies /\ t.heard = SubSeq(a, k + 1, Len(a))
         /\ t.over = s.over \cup UNION {a[i] : i \in 1..k}
    BY <1>1, <2>5, <2>6 DEF h, o
  <2> QED
    BY <2>0, <2>1, <2>6, <2>7, <2>8, <2>9, <2>10
<1> QED
  BY <1>3, <1>4

----------------------------------------------------------------------------
(* A session and the turn of speech it hears, step by step.                 *)

(* Where on_turn stands: it holds a line from the turn's start to its end.  *)
EarRecord ==
  [at : {"quiet", "speaking", "clearing", "eager", "clearing1", "clearing2"},
   line : Lines \cup {NoLine}, spec : Nat, changed : BOOLEAN]

EarState(s, e) ==
  /\ e \in EarRecord /\ e.spec \in 0..Len(s.replies)
  /\ e.at = "quiet" <=> e.line = NoLine

(* The line it holds.                                                       *)
Held(e) == {e.line} \ {NoLine}

(* The reply that was started before the turn was known to be over. *)
Early(s, e) == IF e.spec # 0 THEN e.spec ELSE s.spec

(* The early reply is not confirmed nor cancelled, and answers lines that   *)
(* were said; the line being heard is among them only once the reply was    *)
(* started for it.                                                          *)
EarlyIsNew(s, e, said) ==
  LET r == Early(s, e) IN
  r # 0 => /\ ~s.replies[r].confirmed /\ s.replies[r].at # "cancelled" /\ s.replies[r].lines \subseteq said
           /\ e.line \in s.replies[r].lines => e.at \notin {"speaking", "clearing"}

(* An early reply that may still be confirmed fits.  (One for another turn, *)
(* or told by `changed' that an interruption has moved lines since, is      *)
(* not.)                                                                    *)
EarlyFits(s, e, waiting) ==
  LET r == Early(s, e) IN
  r # 0 /\ e.line \in s.replies[r].lines /\ ~e.changed =>
    /\ Fits(s.heard, s.recalled, Doing(s), s.replies[r].lines, s.replies[r].consumed)
    /\ \A l \in s.replies[r].lines : l \notin waiting

(* _end_turn holds the early reply over its second await only, and what it  *)
(* knows of an interruption over either.                                    *)
EarInOrder(s, e) ==
  /\ e.spec # 0 => e.at = "clearing2"
  /\ e.at = "clearing2" => s.spec = 0
  /\ e.at \notin {"clearing1", "clearing2"} => ~e.changed

(* All of that, of a session that made no slip.                             *)
Sound(s, e, waiting, said) ==
  /\ InOrder(s.replies, s.reply)
  /\ Placed(s.heard, s.recalled, Doing(s), s.over, waiting \cup Held(e), said)
  /\ e.line \notin waiting
  /\ EarlyIsNew(s, e, said) /\ EarlyFits(s, e, waiting)
  /\ EarInOrder(s, e)

TalkGood(s, e, waiting, said) ==
  TalkState(s) /\ EarState(s, e) /\ (~s.slipped => Sound(s, e, waiting, said))

(* While the replies are what they were, so is what is being answered.      *)
LEMMA SameDoing ==
  ASSUME NEW s, TalkState(s), NEW t, t.reply = s.reply, \A q \in DOMAIN s.replies : SameReply(s.replies, t.replies, q)
  PROVE  Doing(t) = Doing(s)
<1>1. s.reply # 0 => s.reply \in DOMAIN s.replies
  BY TalkFields
<1> QED
  BY <1>1 DEF Doing, SameReply

(* The early reply is one of the replies.                                   *)
LEMMA EarlyIsReply ==
  ASSUME NEW s, TalkState(s), NEW e, EarState(s, e)
  PROVE  Early(s, e) \in DOMAIN s.replies \cup {0}
BY TalkFields DEF EarState, Early

(* Nothing that the lines depend on changes. *)
LEMMA SoundMoves ==
  ASSUME NEW s, TalkState(s), NEW t, TalkState(t), NEW e, EarState(s, e), NEW waiting, NEW said,
         t.heard = s.heard, t.recalled = s.recalled, t.over = s.over, t.spec = s.spec, Doing(t) = Doing(s),
         InOrder(t.replies, t.reply), \A q \in DOMAIN s.replies : SameReply(s.replies, t.replies, q),
         Sound(s, e, waiting, said)
  PROVE  Sound(t, e, waiting, said)
<1> DEFINE r == Early(s, e)
<1>1. Early(t, e) = r
  BY DEF Early
<1>2. r # 0 => SameReply(s.replies, t.replies, r)
  BY EarlyIsReply
<1> HIDE DEF r
<1>3. EarlyIsNew(t, e, said)
  BY <1>1, <1>2 DEF Sound, EarlyIsNew, SameReply, r
<1>4. EarlyFits(t, e, waiting)
  BY <1>1, <1>2 DEF Sound, EarlyFits, SameReply, r
<1>5. EarInOrder(t, e)
  BY DEF Sound, EarInOrder
<1> QED
  BY <1>3, <1>4, <1>5 DEF Sound

(* on_turn stands where it stood, as the replies grow.                      *)
LEMMA EarMoves ==
  ASSUME NEW s, TalkState(s), NEW t, TalkState(t), NEW e, EarState(s, e), \A q \in DOMAIN s.replies : q \in DOMAIN t.replies
  PROVE  EarState(t, e)
BY TalkFields DEF EarState

(* The same with the types.                                                 *)
LEMMA GoodMoves ==
  ASSUME NEW s, NEW t, TalkState(t), NEW e, NEW waiting, NEW said, TalkGood(s, e, waiting, said),
         t.heard = s.heard, t.recalled = s.recalled, t.over = s.over, t.spec = s.spec, t.slipped = s.slipped,
         ~s.slipped => Doing(t) = Doing(s) /\ InOrder(t.replies, t.reply),
         \A q \in DOMAIN s.replies : SameReply(s.replies, t.replies, q)
  PROVE  TalkGood(t, e, waiting, said)
<1>1. EarState(t, e)
  BY EarMoves DEF TalkGood, SameReply
<1> QED
  BY <1>1, SoundMoves DEF TalkGood

(* Over: the reply is no longer said.                                       *)
LEMMA OverMoves ==
  ASSUME NEW s, TalkState(s), NEW r \in DOMAIN s.replies
  PROVE  LET t == Over(s, r) IN
         /\ TalkState(t) /\ DOMAIN t.replies = DOMAIN s.replies
         /\ t.heard = s.heard /\ t.reply = (IF s.reply = r THEN 0 ELSE s.reply) /\ t.spec = s.spec /\ t.barge = s.barge
         /\ t.talking = s.talking /\ t.recalled = s.recalled /\ t.over = s.over /\ t.slipped = s.slipped
         /\ \A q \in DOMAIN s.replies : SameReply(s.replies, t.replies, q)
         /\ InOrder(s.replies, s.reply) => InOrder(t.replies, t.reply)
         /\ Doing(t) = IF s.reply = r THEN {} ELSE Doing(s)
<1> DEFINE x == [s.replies[r] EXCEPT !.at = "over"]
           u == [s EXCEPT !.replies = [s.replies EXCEPT ![r] = x]]
           b == IF s.reply = r THEN 0 ELSE s.reply
           t == [u EXCEPT !.reply = b]
<1>1. s.replies[r] \in ReplyRecord /\ r # 0 /\ 0 \notin DOMAIN s.replies /\ s.reply \in DOMAIN s.replies \cup {0}
  BY TalkFields
<1>2. /\ x \in ReplyRecord /\ x.lines = s.replies[r].lines /\ x.consumed = s.replies[r].consumed
      /\ x.confirmed = s.replies[r].confirmed /\ x.fixed = s.replies[r].fixed /\ x.settled = s.replies[r].settled
      /\ x.at = "over"
  BY <1>1 DEF ReplyRecord
<1>3. Over(s, r) = [s EXCEPT !.replies = [s.replies EXCEPT ![r] = x], !.reply = b]
  BY DEF Over
<1> HIDE DEF x
<1>4. Over(s, r) = t
  BY <1>3 DEF TalkState, TalkRecord
<1>5. /\ TalkState(u) /\ DOMAIN u.replies = DOMAIN s.replies /\ u.replies[r] = x
      /\ \A q \in DOMAIN s.replies : q # r => u.replies[q] = s.replies[q]
      /\ u.heard = s.heard /\ u.reply = s.reply /\ u.spec = s.spec /\ u.barge = s.barge
      /\ u.talking = s.talking /\ u.recalled = s.recalled /\ u.over = s.over /\ u.slipped = s.slipped
  BY <1>2, ReplyMoves
<1> HIDE DEF u
<1>6. b \in Nat /\ b \in 0..Len(u.replies) /\ b \in {0, s.reply}
  <2>1. Len(u.replies) \in Nat /\ u.reply \in 0..Len(u.replies)
    BY <1>5, TalkFields
  <2> QED
    BY <1>5, <2>1
<1> HIDE DEF b
<1>7. /\ TalkState(t) /\ t.replies = u.replies /\ t.reply = b
      /\ t.heard = u.heard /\ t.spec = u.spec /\ t.barge = u.barge
      /\ t.talking = u.talking /\ t.recalled = u.recalled /\ t.over = u.over /\ t.slipped = u.slipped
  BY <1>5, <1>6 DEF TalkState, TalkRecord
<1> HIDE DEF t
<1>8. \A q \in DOMAIN s.replies : SameReply(s.replies, t.replies, q)
  BY <1>2, <1>5, <1>7 DEF SameReply
<1>9. ASSUME InOrder(s.replies, s.reply) PROVE InOrder(t.replies, t.reply)
  <2>1. (x.fixed => x.lines = {}) /\ (x.settled => x.confirmed)
    BY <1>2, <1>9 DEF InOrder
  <2>2. b # r /\ b \in DOMAIN s.replies \cup {0} /\ s.reply \in {b, r, 0}
    BY <1>1, <1>6 DEF b
  <2> QED
    BY <1>1, <1>2, <1>5, <1>6, <1>7, <1>9, <2>1, <2>2, OrderMoves
<1>10. Doing(t) = IF s.reply = r THEN {} ELSE Doing(s)
  <2>1. s.reply # 0 => SameReply(s.replies, t.replies, s.reply)
    BY <1>1, <1>8
  <2> QED
    BY <1>7, <2>1 DEF Doing, b, SameReply
<1> QED
  BY <1>4, <1>5, <1>7, <1>8, <1>9, <1>10 DEF b

(* DropSpeculative: there is no early reply.                                *)
LEMMA DropMoves ==
  ASSUME NEW s, TalkState(s)
  PROVE  LET t == DropSpeculative(s) IN
         /\ TalkState(t) /\ DOMAIN t.replies = DOMAIN s.replies
         /\ t.heard = s.heard /\ t.reply = s.reply /\ t.spec = 0 /\ t.barge = s.barge
         /\ t.talking = s.talking /\ t.recalled = s.recalled /\ t.over = s.over /\ t.slipped = s.slipped
         /\ (s.spec # 0 => ~s.replies[s.spec].confirmed) /\ InOrder(s.replies, s.reply) =>
              InOrder(t.replies, t.reply) /\ Doing(t) = Doing(s)
<1> DEFINE u == CancelTask(s, s.spec)
           t == [u EXCEPT !.spec = 0]
<1>1. s.spec \in 0..Len(s.replies) /\ s.reply \in DOMAIN s.replies \cup {0}
  BY TalkFields
<1>2. /\ TalkState(u) /\ DOMAIN u.replies = DOMAIN s.replies
      /\ u.heard = s.heard /\ u.reply = s.reply /\ u.barge = s.barge
      /\ u.talking = s.talking /\ u.recalled = s.recalled /\ u.over = s.over /\ u.slipped = s.slipped
      /\ \A q \in DOMAIN s.replies : /\ q # s.spec => u.replies[q] = s.replies[q]
                                     /\ q # s.spec \/ s.replies[q].confirmed => SameReply(s.replies, u.replies, q)
      /\ (s.spec # 0 => ~s.replies[s.spec].confirmed) /\ InOrder(s.replies, s.reply) => InOrder(u.replies, u.reply)
  BY <1>1, CancelMoves
<1> HIDE DEF u
<1>3. 0 \in 0..Len(u.replies)
  BY <1>2, TalkFields
<1>4. /\ TalkState(t) /\ t.replies = u.replies /\ t.spec = 0
      /\ t.heard = u.heard /\ t.reply = u.reply /\ t.barge = u.barge
      /\ t.talking = u.talking /\ t.recalled = u.recalled /\ t.over = u.over /\ t.slipped = u.slipped
  BY <1>2, <1>3 DEF TalkState, TalkRecord
<1>5. DropSpeculative(s) = t
  BY DEF DropSpeculative, u
<1> HIDE DEF t
<1>6. ASSUME InOrder(s.replies, s.reply) PROVE Doing(t) = Doing(s)
  <2>1. s.reply # 0 => s.replies[s.reply].confirmed
    BY <1>6 DEF InOrder
  <2>2. s.reply # 0 => SameReply(s.replies, u.replies, s.reply)
    BY <1>1, <1>2, <2>1
  <2> QED
    BY <1>2, <1>4, <2>2 DEF Doing, SameReply
<1> QED
  BY <1>2, <1>4, <1>5, <1>6

----------------------------------------------------------------------------
(* The inductive invariant of the whole, and its steps.                     *)

(* The lines that wait for the worker or with it, and those that were said. *)
Waiting == ToSet(lineQueue) \cup ({hand.line} \ {NoLine})
Said    == {l \in Lines : sentLines[l] = "heard"}

(* The types of the worker's state.                                         *)
RestTyped ==
  /\ lineQueue \in Seq(Lines) /\ sentLines \in [Lines -> {"unsent", "at work", "heard"}]
  /\ hand \in [line : Lines \cup {NoLine}, reply : Nat] /\ hand.reply \in 0..Len(talk.replies)

(* The inductive invariant: unless one of the two slips happened, the lines *)
(* are in their places, the replies in order, and the early reply fits the  *)
(* context.                                                                 *)
TalkInv == RestTyped /\ TalkGood(talk, ear, Waiting, Said)

LEMMA TalkAtFirst == TalkInit => TalkInv
<1> SUFFICES ASSUME TalkInit PROVE TalkInv
  OBVIOUS
<1>1. /\ talk.heard = <<>> /\ talk.replies = <<>> /\ talk.reply = 0 /\ talk.spec = 0 /\ talk.recalled = {} /\ talk.over = {}
      /\ TalkState(talk)
  BY DEF TalkInit, TalkState, TalkRecord
<1>2. EarState(talk, ear) /\ RestTyped
  BY <1>1, TalkAssumption DEF TalkInit, EarState, EarRecord, QuietEar, RestTyped
<1>3. Waiting = {} /\ Said = {} /\ Held(ear) = {}
  BY TalkAssumption DEF TalkInit, Waiting, Said, Held, QuietEar, ToSet
<1>4. Sound(talk, ear, Waiting, Said)
  <2>1. InOrder(talk.replies, talk.reply) /\ Doing(talk) = {} /\ Early(talk, ear) = 0
    BY <1>1 DEF InOrder, Doing, Early, TalkInit, QuietEar
  <2>2. Placed(<<>>, {}, {}, {}, {}, {})
    BY DEF Placed
  <2> QED
    BY <1>1, <1>3, <2>1, <2>2 DEF Sound, EarlyIsNew, EarlyFits, EarInOrder, TalkInit, QuietEar
<1> QED
  BY <1>1, <1>2, <1>4 DEF TalkInv, TalkGood

(* Where the session has no more replies than it had, what is held over by  *)
(* the worker goes on to be one of them.                                    *)
LEMMA RestMoves ==
  ASSUME RestTyped, TalkState(talk), TalkState(talk'), \A q \in DOMAIN talk.replies : q \in DOMAIN talk'.replies,
         UNCHANGED <<lineQueue, hand>>, sentLines' = sentLines
  PROVE  RestTyped' /\ Waiting' = Waiting /\ Said' = Said
<1>1. Len(talk.replies) \in Nat /\ Len(talk'.replies) \in Nat /\ hand.reply \in 0..Len(talk.replies)
      /\ DOMAIN talk.replies = 1..Len(talk.replies) /\ DOMAIN talk'.replies = 1..Len(talk'.replies)
  BY TalkFields DEF RestTyped
<1>2. hand.reply # 0 => hand.reply \in DOMAIN talk'.replies
  BY <1>1
<1>3. hand.reply \in 0..Len(talk'.replies)
  BY <1>1, <1>2
<1> QED
  BY <1>3 DEF RestTyped, Waiting, Said

(* StartOfTurn.                                                             *)
LEMMA ListensKeeps ==
  ASSUME TalkInv, NEW v \in VoiceLines, StartOfTurn(v)
  PROVE  TalkInv'
<1> DEFINE b == talk.barge \/ Spoken(talk)
<1>0. /\ v \in Lines /\ sentLines[v] = "unsent" /\ sentLines' = [sentLines EXCEPT ![v] = "heard"]
      /\ ear.at = "quiet" /\ ear' = [QuietEar EXCEPT !.at = "speaking", !.line = v] /\ UNCHANGED <<lineQueue, hand>>
      /\ talk' = [talk EXCEPT !.talking = TRUE, !.barge = b]
      /\ sentLines \in [Lines -> {"unsent", "at work", "heard"}]
  BY DEF StartOfTurn, Lines, TalkInv, RestTyped
<1>1. TalkState(talk) /\ EarState(talk, ear)
  BY DEF TalkInv, TalkGood
<1>2. b \in BOOLEAN
  BY <1>1 DEF TalkState, TalkRecord
<1> HIDE DEF b
<1>3. /\ TalkState(talk') /\ talk'.replies = talk.replies /\ talk'.heard = talk.heard /\ talk'.reply = talk.reply
      /\ talk'.spec = talk.spec /\ talk'.recalled = talk.recalled /\ talk'.over = talk.over /\ talk'.slipped = talk.slipped
  BY <1>0, <1>1, <1>2 DEF TalkState, TalkRecord
<1>4. /\ ear'.at = "speaking" /\ ear'.line = v /\ ear'.spec = 0 /\ ~ear'.changed /\ EarState(talk', ear') /\ v # NoLine
  <2>1. 0 \in 0..Len(talk'.replies)
    BY <1>3, TalkFields
  <2> QED
    BY <1>0, <2>1, TalkAssumption DEF QuietEar, EarState, EarRecord
<1>5. RestTyped' /\ Waiting' = Waiting /\ Said' = Said \cup {v} /\ v \notin Said
  BY <1>0, <1>3 DEF TalkInv, RestTyped, Waiting, Said
<1>6. ASSUME ~talk'.slipped PROVE Sound(talk', ear', Waiting, Said \cup {v})
  <2>1. Sound(talk, ear, Waiting, Said)
    BY <1>3, <1>6 DEF TalkInv, TalkGood
  <2>2. Doing(talk') = Doing(talk) /\ InOrder(talk'.replies, talk'.reply)
    BY <1>3, <2>1 DEF Doing, Sound
  <2>3. Held(ear) = {} /\ Held(ear') = {v} /\ v \notin Waiting
    BY <1>0, <1>1, <1>4, <1>5, <2>1 DEF Held, EarState, Sound, Placed
  <2>4. Placed(talk.heard, talk.recalled, Doing(talk), talk.over, Waiting \cup Held(ear'), Said \cup {v})
    <3>1. Placed(talk.heard, talk.recalled, Doing(talk), talk.over, Waiting, Said) /\ Waiting \cup {} = Waiting
      BY <2>1, <2>3 DEF Sound
    <3> QED
      BY <1>5, <2>3, <3>1, PlacedSaid
  <2>5. Early(talk', ear') = Early(talk, ear)
    <3>1. ear.spec = 0
      BY <1>0, <2>1 DEF Sound, EarInOrder
    <3> QED
      BY <1>3, <1>4, <3>1 DEF Early
  <2>6. EarlyIsNew(talk', ear', Said \cup {v}) /\ EarlyFits(talk', ear', Waiting)
    BY <1>3, <1>4, <1>5, <2>1, <2>5 DEF Sound, EarlyIsNew, EarlyFits
  <2> QED
    BY <1>3, <1>4, <2>2, <2>3, <2>4, <2>6 DEF Sound, EarInOrder
<1> QED
  BY <1>3, <1>4, <1>5, <1>6 DEF TalkInv, TalkGood

(* What is interrupted, over a turn that no early reply was started for, or *)
(* that is told of it.                                                      *)
LEMMA InterruptKeeps ==
  ASSUME NEW s, NEW e, NEW waiting, NEW said, TalkGood(s, e, waiting, said),
         NEW d, EarState(s, d), d.line = e.line, ~s.slipped => Early(Interrupt(s), d) = Early(s, e),
         EarInOrder(s, e) => EarInOrder(Interrupt(s), d),
         ~s.slipped => d.changed = (e.changed \/ Changes(s)) \/ d.at \in {"speaking", "clearing"},
         d.at \in {"speaking", "clearing"} => e.at \in {"speaking", "clearing"}
  PROVE  TalkGood(Interrupt(s), d, waiting, said)
<1> DEFINE t == Interrupt(s)
           r == Early(s, e)
<1>1. TalkState(s) /\ EarState(s, e)
  BY DEF TalkGood
<1>2. /\ TalkState(t) /\ DOMAIN t.replies = DOMAIN s.replies /\ t.reply = 0
      /\ t.spec = s.spec /\ t.over = s.over /\ t.slipped = s.slipped
      /\ InOrder(s.replies, s.reply) =>
           /\ InOrder(t.replies, 0) /\ \A q \in DOMAIN s.replies : SameReply(s.replies, t.replies, q)
           /\ \/ ~Changes(s) /\ t.heard = s.heard /\ t.recalled = s.recalled /\ Doing(s) = {}
              \/ Changes(s) /\ t.heard = s.heard /\ t.recalled = s.recalled \cup Doing(s)
              \/ Changes(s) /\ t.heard = <<Doing(s)>> \o s.heard /\ t.recalled = s.recalled
  BY <1>1, InterruptMoves
<1> HIDE DEF t
<1>3. EarState(t, d)
  BY <1>1, <1>2, EarMoves
<1>4. ASSUME ~t.slipped PROVE Sound(t, d, waiting, said)
  <2>1. Sound(s, e, waiting, said) /\ InOrder(s.replies, s.reply) /\ Early(t, d) = r
    BY <1>2, <1>4 DEF TalkGood, Sound, t
  <2>2. Doing(t) = {} /\ Held(d) = Held(e)
    BY <1>2 DEF Doing, Held
  <2>3. Placed(t.heard, t.recalled, {}, t.over, waiting \cup Held(e), said)
    <3>1. Placed(s.heard, s.recalled, Doing(s), s.over, waiting \cup Held(e), said)
      BY <2>1 DEF Sound
    <3>2. s.heard \in Seq(SUBSET Lines) /\ Doing(s) \in SUBSET Lines
      BY <1>1, TalkFields
    <3>3. /\ Placed(s.heard, s.recalled \cup Doing(s), {}, s.over, waiting \cup Held(e), said)
          /\ Placed(<<Doing(s)>> \o s.heard, s.recalled, {}, s.over, waiting \cup Held(e), said)
      BY <3>1, <3>2, PlacedInterrupted
    <3>4. Doing(s) = {} => Placed(s.heard, s.recalled, {}, s.over, waiting \cup Held(e), said)
      BY <3>1
    <3> QED
      BY <1>2, <2>1, <3>3, <3>4
  <2>4. r # 0 => SameReply(s.replies, t.replies, r)
    BY <1>1, <1>2, <2>1, EarlyIsReply
  <2> HIDE DEF r
  <2>5. EarlyIsNew(t, d, said)
    BY <2>1, <2>4 DEF Sound, EarlyIsNew, SameReply, r
  <2>6. EarlyFits(t, d, waiting)
    <3> SUFFICES ASSUME r # 0, e.line \in s.replies[r].lines, ~d.changed
                 PROVE  Fits(t.heard, t.recalled, {}, s.replies[r].lines, s.replies[r].consumed)
                        /\ \A l \in s.replies[r].lines : l \notin waiting
      BY <2>1, <2>2, <2>4 DEF EarlyFits, SameReply
    <3>1. d.at \notin {"speaking", "clearing"}
      BY <2>1 DEF Sound, EarlyIsNew, r
    <3>2. ~e.changed /\ ~Changes(s)
      BY <1>2, <1>4, <3>1
    <3>3. /\ Fits(s.heard, s.recalled, Doing(s), s.replies[r].lines, s.replies[r].consumed)
          /\ \A l \in s.replies[r].lines : l \notin waiting
      BY <2>1, <3>2 DEF Sound, EarlyFits, r
    <3> QED
      BY <1>2, <2>1, <3>2, <3>3
  <2>7. EarInOrder(t, d)
    BY <2>1 DEF Sound, t
  <2>8. InOrder(t.replies, t.reply) /\ d.line \notin waiting
    BY <1>2, <2>1 DEF Sound
  <2> QED
    BY <2>2, <2>3, <2>5, <2>6, <2>7, <2>8 DEF Sound
<1> QED
  BY <1>2, <1>3, <1>4 DEF TalkGood, t

(* A turn is over and no early reply is left.                               *)
LEMMA QuietTalkKeeps ==
  ASSUME NEW t, TalkState(t), t.spec = 0, NEW waiting \in SUBSET Lines, NEW said,
         ~t.slipped => /\ InOrder(t.replies, t.reply)
                       /\ Placed(t.heard, t.recalled, Doing(t), t.over, waiting, said)
  PROVE  TalkGood(t, QuietEar, waiting, said)
<1>1. 0 \in 0..Len(t.replies)
  BY TalkFields
<1>2. /\ EarState(t, QuietEar) /\ Held(QuietEar) = {} /\ QuietEar.line \notin waiting
      /\ QuietEar.spec = 0 /\ ~QuietEar.changed /\ QuietEar.at = "quiet"
  BY <1>1, TalkAssumption DEF QuietEar, EarState, EarRecord, Held
<1>3. Early(t, QuietEar) = 0 /\ waiting \cup {} = waiting
  BY <1>2 DEF Early
<1> QED
  BY <1>2, <1>3 DEF TalkGood, Sound, EarlyIsNew, EarlyFits, EarInOrder

(* A line that waited is remembered. *)
LEMMA RememberPlaces ==
  ASSUME NEW u, TalkState(u), NEW all, NEW said, NEW l \in Lines, l \in all,
         Placed(u.heard, u.recalled, Doing(u), u.over, all, said)
  PROVE  LET t == Remember(u, l) IN
         Placed(t.heard, t.recalled, Doing(t), t.over, all \ {l}, said) /\ Doing(t) = Doing(u)
<1> DEFINE t == Remember(u, l)
           a == Append(u.heard, {l})
           k == Len(a) - HeardLines
<1>1. /\ t.reply = u.reply /\ t.recalled = u.recalled
      /\ \A q \in DOMAIN u.replies : SameLines(u.replies, t.replies, q)
      /\ \/ t.heard = a /\ t.over = u.over
         \/ /\ k \in Nat /\ k <= Len(a)
            /\ t.heard = SubSeq(a, k + 1, Len(a)) /\ t.over = u.over \cup UNION {a[i] : i \in 1..k}
  BY RememberMoves, Zenon
<1>2. u.heard \in Seq(SUBSET Lines) /\ a \in Seq(SUBSET Lines)
  BY TalkFields, SeqAppends, {l} \in SUBSET Lines
<1> HIDE DEF t
<1>3. Doing(t) = Doing(u)
  <2>1. u.reply # 0 => u.reply \in DOMAIN u.replies
    BY TalkFields
  <2> QED
    BY <1>1, <2>1 DEF Doing, SameLines
<1> DEFINE doing == Doing(u)
           rest == all \ {l}
<1> HIDE DEF doing, rest
<1>4. Placed(a, u.recalled, doing, u.over, rest, said)
  BY <1>2, PlacedRemembered DEF doing, rest
<1> HIDE DEF a, k
<1>5. k \in Nat /\ k <= Len(a) =>
        Placed(SubSeq(a, k + 1, Len(a)), u.recalled, doing, u.over \cup UNION {a[i] : i \in 1..k}, rest, said)
  BY <1>2, <1>4, PlacedTrimmed
<1>6. Placed(t.heard, t.recalled, doing, t.over, rest, said)
  BY <1>1, <1>4, <1>5
<1> QED
  BY <1>3, <1>6 DEF t, doing, rest

(* A turn of speech that is not for coolton is remembered.                  *)
LEMMA RememberKeeps ==
  ASSUME NEW u, TalkState(u), u.spec = 0, NEW waiting \in SUBSET Lines, NEW said, NEW l \in Lines, l \notin waiting,
         ~u.slipped => /\ InOrder(u.replies, u.reply)
                       /\ Placed(u.heard, u.recalled, Doing(u), u.over, waiting \cup {l}, said)
  PROVE  TalkGood(Remember(u, l), QuietEar, waiting, said)
<1> DEFINE t == Remember(u, l)
<1>1. /\ TalkState(t) /\ t.spec = 0 /\ t.slipped = u.slipped
      /\ InOrder(u.replies, u.reply) => InOrder(t.replies, t.reply)
  BY RememberMoves
<1>2. ASSUME ~t.slipped PROVE Placed(t.heard, t.recalled, Doing(t), t.over, waiting, said)
  <2> DEFINE all == waiting \cup {l}
  <2>1. Placed(u.heard, u.recalled, Doing(u), u.over, all, said) /\ l \in all /\ all \ {l} = waiting
    BY <1>1, <1>2
  <2> HIDE DEF all, t
  <2>2. Placed(t.heard, t.recalled, Doing(t), t.over, all \ {l}, said)
    BY <2>1, RememberPlaces DEF t
  <2> QED
    BY <2>1, <2>2
<1> QED
  BY <1>1, <1>2, QuietTalkKeeps DEF t

(* _end_turn takes the early reply off the session and holds it. *)
NoSpec(s) == [s EXCEPT !.spec = 0]
HoldingOn(e, r, changed) == [e EXCEPT !.at = "clearing2", !.spec = r, !.changed = changed]

(* It holds it over its await.                                              *)
LEMMA HoldKeeps ==
  ASSUME NEW s, NEW e, NEW waiting, NEW said, TalkGood(s, e, waiting, said), e.line \in Lines,
         e.at \in {"speaking", "eager", "clearing1"}, NEW changed, changed \in BOOLEAN,
         ~s.slipped => changed = e.changed
  PROVE  LET t == NoSpec(s)
             d == HoldingOn(e, s.spec, changed)
         IN /\ TalkGood(t, d, waiting, said) /\ d.at = "clearing2" /\ d.line = e.line /\ d.spec = s.spec
            /\ d.changed = changed /\ t.reply = s.reply /\ t.replies = s.replies /\ t.slipped = s.slipped /\ t.spec = 0
            /\ d \in EarRecord
<1> DEFINE t == [s EXCEPT !.spec = 0]
           d == [e EXCEPT !.at = "clearing2", !.spec = s.spec, !.changed = changed]
<1>1. TalkState(s) /\ EarState(s, e)
  BY DEF TalkGood
<1>2. s.spec \in 0..Len(s.replies) /\ s.spec \in Nat /\ 0 \in 0..Len(s.replies)
  BY <1>1, TalkFields
<1>3. /\ TalkState(t) /\ t.replies = s.replies /\ t.heard = s.heard /\ t.reply = s.reply
      /\ t.spec = 0 /\ t.recalled = s.recalled /\ t.over = s.over /\ t.slipped = s.slipped
  BY <1>1, <1>2 DEF TalkState, TalkRecord
<1>4. /\ d \in EarRecord /\ d.at = "clearing2" /\ d.line = e.line /\ d.spec = s.spec /\ d.changed = changed
  BY <1>1, <1>2 DEF EarState, EarRecord
<1> HIDE DEF t, d
<1>5. EarState(t, d)
  BY <1>2, <1>3, <1>4, TalkAssumption DEF EarState
<1>6. ASSUME ~t.slipped PROVE Sound(t, d, waiting, said)
  <2>1. Sound(s, e, waiting, said) /\ changed = e.changed
    BY <1>3, <1>6 DEF TalkGood
  <2>2. Early(t, d) = Early(s, e) /\ Doing(t) = Doing(s) /\ Held(d) = Held(e)
    BY <1>3, <1>4, <2>1 DEF Early, Doing, Held, Sound, EarInOrder
  <2>3. EarlyIsNew(t, d, said) /\ EarlyFits(t, d, waiting)
    BY <1>3, <1>4, <2>1, <2>2 DEF Sound, EarlyIsNew, EarlyFits
  <2> QED
    BY <1>3, <1>4, <2>1, <2>2, <2>3 DEF Sound, EarInOrder
<1> QED
  BY <1>3, <1>4, <1>5, <1>6 DEF TalkGood, t, d, NoSpec, HoldingOn

(* AnswerTurn: the early reply is confirmed, or another started.            *)
LEMMA HearAnswerKeeps ==
  ASSUME NEW s, NEW e, NEW waiting \in SUBSET Lines, NEW said, TalkGood(s, e, waiting, said), e.line \in Lines,
         e.at = "clearing2", NEW t,
         \/ e.spec # 0 /\ ~e.changed /\ e.line \in s.replies[e.spec].lines /\ t = Confirm(s, e.spec)
         \/ t = StartReply(CancelTask(s, e.spec), {e.line}, TRUE)
  PROVE  TalkGood(t, QuietEar, waiting, said)
<1>1. TalkState(s) /\ EarState(s, e) /\ e.spec \in 0..Len(s.replies) /\ s.spec \in 0..Len(s.replies)
      /\ DOMAIN s.replies = 1..Len(s.replies) /\ Len(s.replies) \in Nat /\ s.heard \in Seq(SUBSET Lines)
  BY TalkFields DEF TalkGood, EarState
<1>2. ~s.slipped => /\ Sound(s, e, waiting, said) /\ InOrder(s.replies, s.reply) /\ s.spec = 0 /\ Early(s, e) = e.spec
  BY DEF TalkGood, Sound, EarInOrder, Early
<1>3. ~s.slipped => /\ Placed(s.heard, s.recalled, Doing(s), s.over, waiting \cup {e.line}, said)
                    /\ e.line \notin waiting
  <2>1. Held(e) = {e.line}
    BY TalkAssumption DEF Held
  <2> QED
    BY <1>2, <2>1 DEF Sound
<1>4. CASE e.spec # 0 /\ ~e.changed /\ e.line \in s.replies[e.spec].lines /\ t = Confirm(s, e.spec)
  <2> DEFINE r == e.spec
             h == SubSeq(s.heard, s.replies[r].consumed + 1, Len(s.heard))
  <2>1. r \in DOMAIN s.replies
    BY <1>1, <1>4
  <2>2. /\ TalkState(t) /\ DOMAIN t.replies = DOMAIN s.replies /\ t.reply = r /\ r # 0 /\ t.heard = h
        /\ t.spec = s.spec /\ t.recalled = s.recalled /\ t.over = s.over /\ t.replies[r].lines = s.replies[r].lines
        /\ ~t.slipped => ~s.slipped
        /\ ~t.slipped /\ InOrder(s.replies, s.reply) /\ ~s.replies[r].confirmed /\ s.replies[r].at # "cancelled" =>
              s.reply = 0 /\ InOrder(t.replies, t.reply)
    BY <1>1, <1>4, <2>1, ConfirmMoves
  <2> HIDE DEF h
  <2>3. Doing(t) = s.replies[r].lines
    BY <2>2 DEF Doing
  <2>4. ASSUME ~t.slipped
        PROVE  /\ s.spec = 0 /\ InOrder(t.replies, t.reply)
               /\ Placed(t.heard, t.recalled, Doing(t), t.over, waiting, said)
    <3>1. EarlyIsNew(s, e, said) /\ EarlyFits(s, e, waiting) /\ Early(s, e) = r
      BY <1>2, <2>2, <2>4 DEF Sound
    <3>2. ~s.replies[r].confirmed /\ s.replies[r].at # "cancelled" /\ s.replies[r].lines \subseteq said
      BY <2>2, <3>1 DEF EarlyIsNew
    <3>3. s.reply = 0 /\ InOrder(t.replies, t.reply) /\ Doing(s) = {}
      BY <1>2, <2>2, <2>4, <3>2 DEF Doing
    <3>4. /\ Fits(s.heard, s.recalled, {}, s.replies[r].lines, s.replies[r].consumed)
          /\ \A l \in s.replies[r].lines : l \notin waiting
      BY <1>4, <3>1, <3>3, <2>2 DEF EarlyFits
    <3>5. Placed(s.heard, s.recalled, {}, s.over, waiting \cup {e.line}, said)
      BY <1>3, <2>2, <2>4, <3>3
    <3>6. s.replies[r].consumed \in Nat
      BY <1>1, <2>1, TalkFields DEF ReplyRecord
    <3>7. Placed(h, s.recalled, s.replies[r].lines, s.over, (waiting \cup {e.line}) \ s.replies[r].lines, said)
      BY <1>1, <3>2, <3>4, <3>5, <3>6, PlacedConfirmed DEF h
    <3>8. (waiting \cup {e.line}) \ s.replies[r].lines = waiting
      BY <1>4, <3>4
    <3> QED
      BY <1>2, <2>2, <2>3, <2>4, <3>3, <3>7, <3>8
  <2>5. CASE t.slipped
    <3>1. EarState(t, QuietEar)
      <4>1. 0 \in 0..Len(t.replies)
        BY <2>2, TalkFields
      <4> QED
        BY <4>1, TalkAssumption DEF QuietEar, EarState, EarRecord
    <3> QED
      BY <2>2, <2>5, <3>1 DEF TalkGood
  <2>6. CASE ~t.slipped
    BY <2>2, <2>4, <2>6, QuietTalkKeeps
  <2> QED
    BY <2>5, <2>6
<1>5. CASE t = StartReply(CancelTask(s, e.spec), {e.line}, TRUE)
  <2> DEFINE u == CancelTask(s, e.spec)
             id == Len(u.replies) + 1
  <2>1. /\ TalkState(u) /\ DOMAIN u.replies = DOMAIN s.replies
        /\ u.heard = s.heard /\ u.reply = s.reply /\ u.spec = s.spec
        /\ u.recalled = s.recalled /\ u.over = s.over /\ u.slipped = s.slipped
        /\ (e.spec # 0 => ~s.replies[e.spec].confirmed) /\ InOrder(s.replies, s.reply) => InOrder(u.replies, u.reply)
    BY <1>1, CancelMoves
  <2> HIDE DEF u
  <2>2. /\ TalkState(t) /\ DOMAIN t.replies = 1..id /\ t.reply = id /\ id # 0
        /\ t.heard = <<>> /\ t.spec = u.spec /\ t.recalled = u.recalled /\ t.over = u.over
        /\ t.replies[id].lines = {e.line} \cup UNION ToSet(u.heard)
        /\ ~t.slipped => ~u.slipped /\ u.reply = 0
        /\ ~t.slipped /\ InOrder(u.replies, u.reply) => InOrder(t.replies, t.reply)
    BY <1>5, <2>1, StartMoves, {e.line} \in SUBSET Lines DEF u
  <2>3. ASSUME ~t.slipped
        PROVE  /\ s.spec = 0 /\ InOrder(t.replies, t.reply)
               /\ Placed(t.heard, t.recalled, Doing(t), t.over, waiting, said)
    <3>1. e.spec # 0 => ~s.replies[e.spec].confirmed
      BY <1>2, <2>1, <2>2, <2>3 DEF Sound, EarlyIsNew
    <3>2. Doing(s) = {} /\ Doing(t) = {e.line} \cup UNION ToSet(s.heard)
      BY <2>1, <2>2, <2>3 DEF Doing
    <3>3. Placed(s.heard, s.recalled, {}, s.over, waiting \cup {e.line}, said) /\ e.line \notin waiting
      BY <1>3, <2>1, <2>2, <2>3, <3>2
    <3>4. {e.line} \in SUBSET (waiting \cup {e.line}) /\ (waiting \cup {e.line}) \ {e.line} = waiting
      BY <3>3
    <3>5. Placed(<<>>, s.recalled, {e.line} \cup UNION ToSet(s.heard), s.over, waiting, said)
      <4> DEFINE all == waiting \cup {e.line}
                 taken == {e.line}
      <4> HIDE DEF all, taken
      <4>1. Placed(s.heard, s.recalled, {}, s.over, all, said) /\ taken \in SUBSET all /\ all \ taken = waiting
        BY <3>3, <3>4 DEF all, taken
      <4>2. Placed(<<>>, s.recalled, taken \cup UNION ToSet(s.heard), s.over, all \ taken, said)
        BY <1>1, <4>1, PlacedAnswered
      <4> QED
        BY <4>1, <4>2 DEF taken
    <3> QED
      BY <1>2, <2>1, <2>2, <2>3, <3>1, <3>2, <3>5
  <2>4. CASE t.slipped
    <3>1. EarState(t, QuietEar)
      <4>1. 0 \in 0..Len(t.replies)
        BY <2>2, TalkFields
      <4> QED
        BY <4>1, TalkAssumption DEF QuietEar, EarState, EarRecord
    <3> QED
      BY <2>2, <2>4, <3>1 DEF TalkGood
  <2>5. CASE ~t.slipped
    BY <2>1, <2>2, <2>3, <2>5, QuietTalkKeeps
  <2> QED
    BY <2>4, <2>5
<1> QED
  BY <1>4, <1>5

(* What waits is lines.                                                     *)
LEMMA WaitingIsLines == ASSUME RestTyped PROVE Waiting \in SUBSET Lines
<1>1. lineQueue \in Seq(Lines) /\ hand.line \in Lines \cup {NoLine}
  BY DEF RestTyped
<1>2. ToSet(lineQueue) \subseteq Lines
  BY <1>1 DEF ToSet
<1> QED
  BY <1>1, <1>2 DEF Waiting

(* _end_turn's answer is one of the replies it had, or another one. *)
LEMMA AnswersGrow ==
  ASSUME NEW s, TalkState(s), NEW r \in 0..Len(s.replies), NEW l \in Lines, NEW t,
         (r # 0 /\ t = Confirm(s, r)) \/ t = StartReply(CancelTask(s, r), {l}, TRUE)
  PROVE  \A q \in DOMAIN s.replies : q \in DOMAIN t.replies
<1>1. CASE r # 0 /\ t = Confirm(s, r)
  <2>1. r \in DOMAIN s.replies
    BY <1>1, TalkFields
  <2> QED
    BY <1>1, <2>1, ConfirmMoves
<1>2. CASE t = StartReply(CancelTask(s, r), {l}, TRUE)
  <2> DEFINE u == CancelTask(s, r)
  <2>1. TalkState(u) /\ DOMAIN u.replies = DOMAIN s.replies
    BY CancelMoves
  <2> HIDE DEF u
  <2>2. \A q \in DOMAIN u.replies : SameReply(u.replies, t.replies, q)
    BY <1>2, <2>1, StartMoves, {l} \in SUBSET Lines DEF u
  <2> QED
    BY <2>1, <2>2 DEF SameReply
<1> QED
  BY <1>1, <1>2

(* JudgeTurn, from a session that has what on_turn holds. *)
LEMMA JudgeKeeps ==
  ASSUME NEW s, NEW waiting \in SUBSET Lines, NEW said, TalkGood(s, ear, waiting, said), ear.line \in Lines,
         ear.at \in {"speaking", "eager", "clearing1"}, NEW changed \in BOOLEAN, ~s.slipped => changed = ear.changed,
         JudgeTurn(s, changed)
  PROVE  TalkGood(talk', ear', waiting, said) /\ \A q \in DOMAIN s.replies : q \in DOMAIN talk'.replies
<1> DEFINE t == NoSpec(s)
           d == HoldingOn(ear, s.spec, changed)
<1>1. /\ TalkGood(t, d, waiting, said) /\ d.at = "clearing2" /\ d.line = ear.line /\ d.spec = s.spec
      /\ d.changed = changed /\ t.reply = s.reply /\ t.replies = s.replies /\ t.slipped = s.slipped /\ t.spec = 0
      /\ d \in EarRecord
  BY HoldKeeps
<1>2. \/ talk' = Remember(CancelTask(t, d.spec), ear.line) /\ ear' = QuietEar
      \/ /\ talk' = Interrupt(t)
         /\ ear' = [ear EXCEPT !.at = "clearing2", !.spec = s.spec, !.changed = changed \/ Changes(t)]
      \/ AnswerTurn(t, d.spec, d.changed)
  <2>1. d.spec = s.spec /\ d.changed = changed
    BY <1>1
  <2> HIDE DEF d
  <2> QED
    BY <2>1 DEF JudgeTurn, NoSpec
<1>3. ear \in EarRecord /\ TalkState(t) /\ EarState(t, d) /\ TalkState(s)
  BY <1>1 DEF TalkGood, EarState
<1> HIDE DEF t, d
<1>4. d.spec \in 0..Len(t.replies)
  BY <1>3 DEF EarState
<1>5. CASE talk' = Remember(CancelTask(t, d.spec), ear.line) /\ ear' = QuietEar
  <2> DEFINE u == CancelTask(t, d.spec)
  <2>1. /\ TalkState(u) /\ DOMAIN u.replies = DOMAIN t.replies
        /\ u.heard = t.heard /\ u.reply = t.reply /\ u.spec = t.spec
        /\ u.recalled = t.recalled /\ u.over = t.over /\ u.slipped = t.slipped
        /\ \A q \in DOMAIN t.replies : q # d.spec => u.replies[q] = t.replies[q]
        /\ (d.spec # 0 => ~t.replies[d.spec].confirmed) /\ InOrder(t.replies, t.reply) => InOrder(u.replies, u.reply)
    BY <1>3, <1>4, CancelMoves
  <2> HIDE DEF u
  <2>2. ASSUME ~u.slipped
        PROVE  /\ InOrder(u.replies, u.reply)
               /\ Placed(u.heard, u.recalled, Doing(u), u.over, waiting \cup {ear.line}, said)
               /\ ear.line \notin waiting
    <3>1. Sound(t, d, waiting, said) /\ Early(t, d) = d.spec
      BY <1>1, <2>1, <2>2 DEF TalkGood, Early
    <3>2. d.spec # 0 => ~t.replies[d.spec].confirmed
      BY <3>1 DEF Sound, EarlyIsNew
    <3>3. t.reply # 0 => t.reply # d.spec /\ t.reply \in DOMAIN t.replies
      BY <1>3, <3>1, <3>2, TalkFields DEF Sound, InOrder
    <3>4. Doing(u) = Doing(t) /\ Held(d) = {ear.line}
      BY <1>1, <2>1, <3>3, TalkAssumption DEF Doing, Held
    <3> QED
      BY <1>1, <2>1, <3>1, <3>2, <3>4 DEF Sound
  <2>3. DOMAIN talk'.replies = DOMAIN u.replies /\ TalkState(talk')
    BY <1>5, <2>1, RememberMoves DEF u
  <2>4. CASE ~u.slipped
    <3>1. TalkGood(Remember(u, ear.line), QuietEar, waiting, said)
      BY <1>1, <2>1, <2>2, <2>4, RememberKeeps
    <3> QED
      BY <1>1, <1>5, <2>1, <2>3, <3>1 DEF u
  <2>5. CASE u.slipped
    <3>1. talk'.slipped = u.slipped
      BY <1>5, <2>1, RememberMoves DEF u
    <3>2. 0 \in 0..Len(talk'.replies)
      BY <2>3, TalkFields
    <3>3. EarState(talk', QuietEar)
      BY <3>2, TalkAssumption DEF QuietEar, EarState, EarRecord
    <3> QED
      BY <1>1, <1>5, <2>1, <2>3, <2>5, <3>1, <3>3 DEF TalkGood
  <2> QED
    BY <2>4, <2>5
<1>6. CASE /\ talk' = Interrupt(t)
           /\ ear' = [ear EXCEPT !.at = "clearing2", !.spec = s.spec, !.changed = changed \/ Changes(t)]
  <2>0. (changed \/ Changes(t)) \in BOOLEAN /\ s.spec \in Nat
    BY <1>3, TalkFields
  <2>1. /\ ear' \in EarRecord /\ ear'.at = "clearing2" /\ ear'.line = d.line /\ ear'.spec = d.spec
        /\ ear'.changed = (d.changed \/ Changes(t))
    BY <1>1, <1>3, <1>6, <2>0 DEF EarRecord
  <2>2. EarState(t, ear')
    BY <1>1, <1>3, <2>1, TalkAssumption DEF EarState
  <2>3. Interrupt(t).spec = t.spec /\ DOMAIN Interrupt(t).replies = DOMAIN t.replies
    BY <1>3, InterruptMoves
  <2>4. Early(Interrupt(t), ear') = Early(t, d) /\ (EarInOrder(t, d) => EarInOrder(Interrupt(t), ear'))
    BY <1>1, <2>1, <2>3 DEF Early, EarInOrder
  <2>5. TalkGood(Interrupt(t), ear', waiting, said)
    BY <1>1, <2>1, <2>2, <2>4, InterruptKeeps
  <2> QED
    BY <1>1, <1>6, <2>3, <2>5
<1>7. CASE AnswerTurn(t, d.spec, d.changed)
  <2>1. /\ ear' = QuietEar
        /\ \/ d.spec # 0 /\ ~d.changed /\ d.line \in t.replies[d.spec].lines /\ talk' = Confirm(t, d.spec)
           \/ talk' = StartReply(CancelTask(t, d.spec), {d.line}, TRUE)
    BY <1>1, <1>7 DEF AnswerTurn
  <2>2. TalkGood(talk', QuietEar, waiting, said)
    BY <1>1, <2>1, HearAnswerKeeps
  <2>3. \A q \in DOMAIN t.replies : q \in DOMAIN talk'.replies
    BY <1>1, <1>3, <1>4, <2>1, AnswersGrow
  <2> QED
    BY <1>1, <2>1, <2>2, <2>3
<1> QED
  BY <1>2, <1>5, <1>6, <1>7

(* What the invariant says of a step's state.                               *)
LEMMA GoodOfInv ==
  ASSUME TalkInv
  PROVE  /\ TalkGood(talk, ear, Waiting, Said) /\ TalkState(talk) /\ EarState(talk, ear) /\ RestTyped
         /\ Waiting \in SUBSET Lines /\ ear \in EarRecord
         /\ ear.at # "quiet" => ear.line \in Lines
BY WaitingIsLines DEF TalkInv, TalkGood, EarState, EarRecord

(* A step of on_turn or of a reply keeps the invariant if it keeps the      *)
(* session good: the worker is where it was.                                *)
LEMMA TurnKeeps ==
  ASSUME TalkInv, UNCHANGED <<lineQueue, hand, sentLines>>, TalkGood(talk', ear', Waiting, Said),
         \A q \in DOMAIN talk.replies : q \in DOMAIN talk'.replies
  PROVE  TalkInv'
<1>1. TalkState(talk')
  BY DEF TalkGood
<1>2. RestTyped' /\ Waiting' = Waiting /\ Said' = Said
  BY <1>1, RestMoves, GoodOfInv
<1> QED
  BY <1>2 DEF TalkInv

(* Where on_turn stands changes, and nothing else. *)
LEMMA EarGoesOn ==
  ASSUME NEW s, NEW e, NEW waiting, NEW said, TalkGood(s, e, waiting, said), NEW d, d \in EarRecord,
         d.line = e.line, d.spec = e.spec, d.changed = e.changed, d.at # "quiet", e.at # "quiet",
         d.at \in {"speaking", "clearing"} => e.at \in {"speaking", "clearing"} \/ s.spec = 0,
         d.at \in {"speaking", "clearing", "eager"}, e.at \in {"speaking", "clearing", "eager"}
  PROVE  TalkGood(s, d, waiting, said)
<1>1. EarState(s, d) /\ Early(s, d) = Early(s, e) /\ Held(d) = Held(e)
  BY DEF TalkGood, EarState, Early, Held
<1>2. ASSUME Sound(s, e, waiting, said) PROVE Sound(s, d, waiting, said)
  <2>1. e.spec = 0 /\ ~e.changed
    BY <1>2 DEF Sound, EarInOrder
  <2>2. s.spec = 0 => Early(s, e) = 0
    BY <2>1 DEF Early
  <2>3. EarlyIsNew(s, d, said) /\ EarlyFits(s, d, waiting)
    BY <1>1, <1>2, <2>2 DEF Sound, EarlyIsNew, EarlyFits
  <2> QED
    BY <1>1, <1>2, <2>1, <2>3 DEF Sound, EarInOrder
<1> QED
  BY <1>1, <1>2 DEF TalkGood

(* One lemma per action.                                                    *)
LEMMA UpdateTalkKeeps == ASSUME TalkInv, Update PROVE TalkInv'
<1>1. /\ ear.at = "speaking" /\ talk' = Interrupt(talk) /\ ear' = [ear EXCEPT !.at = "clearing"]
      /\ UNCHANGED <<lineQueue, sentLines, hand>>
  BY DEF Update
<1>2. /\ ear' \in EarRecord /\ ear'.at = "clearing" /\ ear'.line = ear.line /\ ear'.spec = ear.spec
      /\ ear'.changed = ear.changed
  BY <1>1, GoodOfInv DEF EarRecord
<1>3. EarState(talk, ear')
  BY <1>1, <1>2, GoodOfInv DEF EarState
<1>4. Interrupt(talk).spec = talk.spec /\ DOMAIN Interrupt(talk).replies = DOMAIN talk.replies
  BY GoodOfInv, InterruptMoves
<1>5. /\ Early(Interrupt(talk), ear') = Early(talk, ear)
      /\ EarInOrder(talk, ear) => EarInOrder(Interrupt(talk), ear')
  BY <1>1, <1>2, <1>4 DEF Early, EarInOrder
<1>6. TalkGood(Interrupt(talk), ear', Waiting, Said)
  BY <1>1, <1>2, <1>3, <1>5, GoodOfInv, InterruptKeeps
<1> QED
  BY <1>1, <1>4, <1>6, TurnKeeps

LEMMA ClearedKeeps == ASSUME TalkInv, Cleared PROVE TalkInv'
<1>1. /\ ear.at = "clearing" /\ ear' = [ear EXCEPT !.at = "speaking"] /\ UNCHANGED <<talk, lineQueue, sentLines, hand>>
  BY DEF Cleared
<1>2. /\ ear' \in EarRecord /\ ear'.at = "speaking" /\ ear'.line = ear.line /\ ear'.spec = ear.spec
      /\ ear'.changed = ear.changed
  BY <1>1, GoodOfInv DEF EarRecord
<1>3. TalkGood(talk, ear', Waiting, Said)
  BY <1>1, <1>2, GoodOfInv, EarGoesOn
<1> QED
  BY <1>1, <1>3, TurnKeeps

LEMMA EagerKeeps == ASSUME TalkInv, EagerEndOfTurn PROVE TalkInv'
<1>1. /\ ear.at = "speaking" /\ ear' = [ear EXCEPT !.at = "eager"] /\ UNCHANGED <<lineQueue, sentLines, hand>>
      /\ \/ talk' = talk
         \/ talk.spec = 0 /\ talk' = StartReply(talk, {ear.line}, FALSE)
  BY Zenon DEF EagerEndOfTurn
<1>2. /\ ear' \in EarRecord /\ ear'.at = "eager" /\ ear'.line = ear.line /\ ear'.spec = ear.spec
      /\ ear'.changed = ear.changed /\ ear.line \in Lines
  BY <1>1, GoodOfInv DEF EarRecord
<1>3. TalkGood(talk, ear', Waiting, Said)
  BY <1>1, <1>2, GoodOfInv, EarGoesOn
<1>4. CASE talk' = talk
  BY <1>1, <1>3, <1>4, TurnKeeps
<1>5. CASE talk.spec = 0 /\ talk' = StartReply(talk, {ear.line}, FALSE)
  <2> DEFINE s == talk
             t == talk'
             id == Len(s.replies) + 1
  <2>1. TalkState(s) /\ {ear.line} \in SUBSET Lines /\ s.heard \in Seq(SUBSET Lines)
    BY <1>2, GoodOfInv, TalkFields
  <2>2. /\ TalkState(t) /\ DOMAIN t.replies = 1..id /\ t.spec = id /\ id # 0
        /\ t.heard = s.heard /\ t.reply = s.reply
        /\ t.recalled = s.recalled /\ t.over = s.over /\ t.slipped = s.slipped
        /\ \A q \in DOMAIN s.replies : SameReply(s.replies, t.replies, q)
        /\ t.replies[id].lines = {ear.line} \cup UNION ToSet(s.heard) /\ t.replies[id].consumed = Len(s.heard)
        /\ ~t.replies[id].confirmed /\ t.replies[id].at = "running"
        /\ InOrder(s.replies, s.reply) => InOrder(t.replies, t.reply)
    BY <1>5, <2>1, EagerMoves
  <2> HIDE DEF id, s, t
  <2>4. EarState(t, ear')
    BY <1>3, <2>1, <2>2, EarMoves DEF TalkGood, s, SameReply
  <2>5. ASSUME ~t.slipped PROVE Sound(t, ear', Waiting, Said)
    <3>1. Sound(s, ear', Waiting, Said) /\ ear'.spec = 0
      BY <1>3, <1>2, <2>2, <2>5 DEF TalkGood, Sound, EarInOrder, s
    <3>2. Doing(t) = Doing(s) /\ Early(t, ear') = id
      BY <2>1, <2>2, <3>1, SameDoing DEF Early
    <3> DEFINE all == Waiting \cup Held(ear')
    <3>3. Placed(s.heard, s.recalled, Doing(s), s.over, all, Said) /\ ear'.line \in all /\ ear'.line \notin Waiting
      BY <1>2, <3>1, TalkAssumption DEF Sound, Held
    <3>4. /\ Fits(s.heard, s.recalled, Doing(s), t.replies[id].lines, t.replies[id].consumed)
          /\ t.replies[id].lines \subseteq Said
          /\ \A x \in all : x \in t.replies[id].lines => x = ear'.line
      <4> DEFINE lines == t.replies[id].lines
                 n     == t.replies[id].consumed
                 doing == Doing(s)
                 l     == ear.line
      <4>1. /\ Placed(s.heard, s.recalled, doing, s.over, all, Said) /\ l \in all
            /\ lines = {l} \cup UNION ToSet(s.heard) /\ n = Len(s.heard)
        BY <1>2, <2>2, <3>3
      <4> HIDE DEF all, lines, n, doing, l
      <4>2. Fits(s.heard, s.recalled, doing, lines, n)
        BY <2>1, <4>1, FitsAtFirst
      <4>3. \A x : x \in lines <=> x = l \/ Among(s.heard, x)
        BY <4>1 DEF Among, ToSet
      <4>4. lines \subseteq Said /\ \A x \in all : x \in lines => x = l
        BY <4>1, <4>3 DEF Placed, Among
      <4> QED
        BY <1>2, <4>2, <4>4 DEF lines, n, doing, l
    <3>5. \A x \in t.replies[id].lines : x \notin Waiting
      BY <3>3, <3>4
    <3> HIDE DEF all
    <3>6. EarlyIsNew(t, ear', Said) /\ EarlyFits(t, ear', Waiting)
      BY <1>2, <2>2, <3>2, <3>4, <3>5 DEF EarlyIsNew, EarlyFits
    <3>7. EarInOrder(t, ear') /\ InOrder(t.replies, t.reply)
      BY <1>2, <2>2, <3>1 DEF EarInOrder, Sound
    <3> QED
      BY <2>2, <3>2, <3>3, <3>6, <3>7 DEF Sound, all
  <2> QED
    BY <1>1, <2>2, <2>4, <2>5, TurnKeeps DEF TalkGood, s, t, SameReply
<1> QED
  BY <1>1, <1>4, <1>5

LEMMA ResumedKeeps == ASSUME TalkInv, TurnResumed PROVE TalkInv'
<1>1. /\ ear.at = "eager" /\ ear' = [ear EXCEPT !.at = "speaking"] /\ UNCHANGED <<lineQueue, sentLines, hand>>
      /\ talk' = DropSpeculative(talk)
  BY DEF TurnResumed
<1>2. /\ ear' \in EarRecord /\ ear'.at = "speaking" /\ ear'.line = ear.line /\ ear'.spec = ear.spec
      /\ ear'.changed = ear.changed /\ ear.line \in Lines
  BY <1>1, GoodOfInv DEF EarRecord
<1>3. /\ TalkState(talk') /\ DOMAIN talk'.replies = DOMAIN talk.replies
      /\ talk'.heard = talk.heard /\ talk'.spec = 0
      /\ talk'.recalled = talk.recalled /\ talk'.over = talk.over /\ talk'.slipped = talk.slipped
      /\ (talk.spec # 0 => ~talk.replies[talk.spec].confirmed) /\ InOrder(talk.replies, talk.reply) =>
              InOrder(talk'.replies, talk'.reply) /\ Doing(talk') = Doing(talk)
  BY <1>1, GoodOfInv, DropMoves
<1>4. EarState(talk', ear')
  <2>1. EarState(talk, ear')
    BY <1>1, <1>2, GoodOfInv DEF EarState
  <2> QED
    BY <1>3, <2>1, GoodOfInv, EarMoves
<1>5. ASSUME ~talk'.slipped PROVE Sound(talk', ear', Waiting, Said)
  <2>1. Sound(talk, ear, Waiting, Said) /\ ear.spec = 0
    BY <1>1, <1>3, <1>5, GoodOfInv DEF TalkGood, Sound, EarInOrder
  <2>2. InOrder(talk'.replies, talk'.reply) /\ Doing(talk') = Doing(talk)
    BY <1>3, <2>1 DEF Sound, EarlyIsNew, Early
  <2>3. Early(talk', ear') = 0 /\ Held(ear') = Held(ear)
    BY <1>2, <1>3, <2>1 DEF Early, Held
  <2> QED
    BY <1>1, <1>2, <1>3, <2>1, <2>2, <2>3 DEF Sound, EarlyIsNew, EarlyFits, EarInOrder
<1> QED
  BY <1>1, <1>3, <1>4, <1>5, TurnKeeps DEF TalkGood

(* The marks of who is talking change, and nothing the lines depend on. *)
Marked(s, talking, barge) == [s EXCEPT !.talking = talking, !.barge = barge]

LEMMA MarksMove ==
  ASSUME NEW s, NEW e, NEW waiting, NEW said, TalkGood(s, e, waiting, said), NEW talking, talking \in BOOLEAN,
         NEW barge, barge \in BOOLEAN
  PROVE  LET t == Marked(s, talking, barge) IN
         /\ TalkGood(t, e, waiting, said) /\ t.replies = s.replies /\ t.slipped = s.slipped /\ t.reply = s.reply
         /\ t.spec = s.spec /\ t.barge = barge
<1> DEFINE t == Marked(s, talking, barge)
<1>1. TalkState(s)
  BY DEF TalkGood
<1>2. /\ TalkState(t) /\ t.replies = s.replies /\ t.heard = s.heard /\ t.reply = s.reply
      /\ t.spec = s.spec /\ t.recalled = s.recalled /\ t.over = s.over /\ t.slipped = s.slipped
      /\ t.barge = barge
  BY <1>1 DEF TalkState, TalkRecord, Marked
<1> HIDE DEF t
<1>3. \A q \in DOMAIN s.replies : SameReply(s.replies, t.replies, q)
  BY <1>2 DEF SameReply
<1>4. ~s.slipped => Doing(t) = Doing(s) /\ InOrder(t.replies, t.reply)
  BY <1>2 DEF TalkGood, Sound, Doing
<1>5. TalkGood(t, e, waiting, said)
  BY <1>2, <1>3, <1>4, GoodMoves
<1> QED
  BY <1>2, <1>5 DEF t

LEMMA EndKeeps == ASSUME TalkInv, EndOfTurn PROVE TalkInv'
<1> DEFINE s == [talk EXCEPT !.talking = FALSE]
           u == [s EXCEPT !.barge = FALSE]
<1>1. /\ ear.at \in {"speaking", "eager"} /\ UNCHANGED <<lineQueue, sentLines, hand>>
      /\ \/ JudgeTurn(s, FALSE)
         \/ talk' = Remember(DropSpeculative(u), ear.line) /\ ear' = QuietEar
         \/ /\ talk' = Interrupt(s) /\ ear' = [ear EXCEPT !.at = "clearing1", !.changed = Changes(s)]
  BY DEF EndOfTurn
<1>2. /\ TalkGood(talk, ear, Waiting, Said) /\ TalkState(talk) /\ EarState(talk, ear)
      /\ Waiting \in SUBSET Lines /\ ear \in EarRecord /\ ear.line \in Lines
      /\ talk.barge \in BOOLEAN
  BY <1>1, GoodOfInv DEF TalkState, TalkRecord
<1>3. s = Marked(talk, FALSE, talk.barge) /\ u = Marked(talk, FALSE, FALSE)
  BY <1>2 DEF TalkState, TalkRecord, Marked
<1> HIDE DEF s, u
<1>4. /\ TalkGood(s, ear, Waiting, Said) /\ s.replies = talk.replies /\ s.slipped = talk.slipped
      /\ TalkGood(u, ear, Waiting, Said) /\ u.replies = talk.replies /\ u.slipped = talk.slipped
  <2>1. /\ TalkGood(s, ear, Waiting, Said) /\ s.replies = talk.replies /\ s.slipped = talk.slipped
    BY <1>2, <1>3, MarksMove
  <2>2. /\ TalkGood(u, ear, Waiting, Said) /\ u.replies = talk.replies /\ u.slipped = talk.slipped
    BY <1>2, <1>3, MarksMove
  <2> QED
    BY <2>1, <2>2
<1>5. TalkState(s) /\ EarState(s, ear) /\ TalkState(u)
  BY <1>4 DEF TalkGood
<1>6. ~talk.slipped => ~ear.changed /\ ear.spec = 0
  BY <1>1, <1>2 DEF TalkGood, Sound, EarInOrder
<1>7. CASE JudgeTurn(s, FALSE)
  <2>1. ~s.slipped => FALSE = ear.changed
    BY <1>2, <1>4, <1>6 DEF EarRecord
  <2>2. /\ TalkGood(talk', ear', Waiting, Said)
        /\ \A q \in DOMAIN s.replies : q \in DOMAIN talk'.replies
    BY <1>1, <1>2, <1>4, <1>7, <2>1, JudgeKeeps
  <2> QED
    BY <1>1, <1>4, <2>2, TurnKeeps
<1>8. CASE talk' = Remember(DropSpeculative(u), ear.line) /\ ear' = QuietEar
  <2> DEFINE w == DropSpeculative(u)
  <2>1. /\ TalkState(w) /\ DOMAIN w.replies = DOMAIN u.replies
        /\ w.heard = u.heard /\ w.reply = u.reply /\ w.spec = 0
        /\ w.recalled = u.recalled /\ w.over = u.over /\ w.slipped = u.slipped
        /\ (u.spec # 0 => ~u.replies[u.spec].confirmed) /\ InOrder(u.replies, u.reply) =>
              InOrder(w.replies, w.reply) /\ Doing(w) = Doing(u)
    BY <1>5, DropMoves
  <2> HIDE DEF w
  <2>2. ASSUME ~w.slipped
        PROVE  /\ InOrder(w.replies, w.reply) /\ ear.line \notin Waiting
               /\ Placed(w.heard, w.recalled, Doing(w), w.over, Waiting \cup {ear.line}, Said)
    <3>1. Sound(u, ear, Waiting, Said) /\ ear.spec = 0
      BY <1>4, <1>6, <2>1, <2>2 DEF TalkGood
    <3>2. InOrder(w.replies, w.reply) /\ Doing(w) = Doing(u)
      BY <2>1, <3>1 DEF Sound, EarlyIsNew, Early
    <3>3. Held(ear) = {ear.line}
      BY <1>2, TalkAssumption DEF Held
    <3> QED
      BY <2>1, <3>1, <3>2, <3>3 DEF Sound
  <2>3. DOMAIN talk'.replies = DOMAIN w.replies /\ TalkState(talk') /\ talk'.slipped = w.slipped
    BY <1>2, <1>8, <2>1, RememberMoves DEF w
  <2>4. TalkGood(talk', ear', Waiting, Said)
    <3>1. CASE ~w.slipped
      <4>1. TalkGood(Remember(w, ear.line), QuietEar, Waiting, Said)
        BY <1>2, <2>1, <2>2, <3>1, RememberKeeps
      <4> QED
        BY <1>8, <4>1 DEF w
    <3>2. CASE w.slipped
      <4>1. 0 \in 0..Len(talk'.replies)
        BY <2>3, TalkFields
      <4>2. EarState(talk', QuietEar)
        BY <4>1, TalkAssumption DEF QuietEar, EarState, EarRecord
      <4> QED
        BY <1>8, <2>3, <3>2, <4>2 DEF TalkGood
    <3> QED
      BY <3>1, <3>2
  <2> QED
    BY <1>1, <1>4, <2>1, <2>3, <2>4, TurnKeeps
<1>9. CASE talk' = Interrupt(s) /\ ear' = [ear EXCEPT !.at = "clearing1", !.changed = Changes(s)]
  <2>1. /\ ear' \in EarRecord /\ ear'.at = "clearing1" /\ ear'.line = ear.line /\ ear'.spec = ear.spec
        /\ ear'.changed = Changes(s) /\ Changes(s) \in BOOLEAN
    <3>1. Changes(s) \in BOOLEAN
      BY <1>5, TalkFields DEF Changes, Settles, ReplyRecord
    <3> QED
      BY <1>2, <1>9, <3>1 DEF EarRecord
  <2>2. EarState(s, ear')
    BY <1>1, <1>5, <2>1 DEF EarState
  <2>3. Interrupt(s).spec = s.spec /\ DOMAIN Interrupt(s).replies = DOMAIN s.replies
    BY <1>5, InterruptMoves
  <2>4. /\ Early(Interrupt(s), ear') = Early(s, ear)
        /\ EarInOrder(s, ear) => EarInOrder(Interrupt(s), ear')
    BY <1>1, <2>1, <2>3 DEF Early, EarInOrder
  <2>5. ~s.slipped => ear'.changed = (ear.changed \/ Changes(s))
    BY <1>4, <1>6, <2>1
  <2>6. TalkGood(Interrupt(s), ear', Waiting, Said)
    BY <1>4, <2>1, <2>2, <2>4, <2>5, InterruptKeeps
  <2> QED
    BY <1>1, <1>4, <1>9, <2>3, <2>6, TurnKeeps
<1> QED
  BY <1>1, <1>7, <1>8, <1>9

LEMMA EndClearedKeeps == ASSUME TalkInv, EndTurnCleared PROVE TalkInv'
<1>1. /\ UNCHANGED <<lineQueue, sentLines, hand>>
      /\ \/ ear.at = "clearing1" /\ JudgeTurn(talk, ear.changed)
         \/ ear.at = "clearing2" /\ AnswerTurn(talk, ear.spec, ear.changed)
  BY DEF EndTurnCleared
<1>2. /\ TalkGood(talk, ear, Waiting, Said) /\ TalkState(talk) /\ EarState(talk, ear)
      /\ Waiting \in SUBSET Lines /\ ear \in EarRecord /\ ear.line \in Lines /\ ear.changed \in BOOLEAN
  BY <1>1, GoodOfInv DEF EarRecord
<1>3. CASE ear.at = "clearing1" /\ JudgeTurn(talk, ear.changed)
  <2>1. /\ TalkGood(talk', ear', Waiting, Said)
        /\ \A q \in DOMAIN talk.replies : q \in DOMAIN talk'.replies
    BY <1>2, <1>3, JudgeKeeps
  <2> QED
    BY <1>1, <2>1, TurnKeeps
<1>4. CASE ear.at = "clearing2" /\ AnswerTurn(talk, ear.spec, ear.changed)
  <2>1. /\ ear' = QuietEar
        /\ \/ ear.spec # 0 /\ ~ear.changed /\ ear.line \in talk.replies[ear.spec].lines /\ talk' = Confirm(talk, ear.spec)
           \/ talk' = StartReply(CancelTask(talk, ear.spec), {ear.line}, TRUE)
    BY <1>4 DEF AnswerTurn
  <2>2. TalkGood(talk', QuietEar, Waiting, Said)
    BY <1>2, <1>4, <2>1, HearAnswerKeeps
  <2>3. \A q \in DOMAIN talk.replies : q \in DOMAIN talk'.replies
    BY <1>2, <2>1, AnswersGrow DEF EarState
  <2> QED
    BY <1>1, <2>1, <2>2, <2>3, TurnKeeps
<1> QED
  BY <1>1, <1>3, <1>4

LEMMA DropsKeeps == ASSUME TalkInv, HearingDrops PROVE TalkInv'
<1> DEFINE l == ear.line
           o == talk.over \cup {l}
<1>1. /\ ear.at \in {"speaking", "eager"} /\ ear' = QuietEar /\ UNCHANGED <<lineQueue, sentLines, hand>>
      /\ talk' = [talk EXCEPT !.over = o]
  BY DEF HearingDrops
<1>2. /\ TalkState(talk) /\ EarState(talk, ear) /\ l \in Lines /\ o \in SUBSET Lines
      /\ TalkGood(talk, ear, Waiting, Said) /\ Waiting \in SUBSET Lines
  BY <1>1, GoodOfInv, TalkFields
<1> HIDE DEF o
<1>3. /\ TalkState(talk') /\ talk'.replies = talk.replies /\ talk'.heard = talk.heard /\ talk'.reply = talk.reply
      /\ talk'.spec = talk.spec /\ talk'.recalled = talk.recalled /\ talk'.over = o /\ talk'.slipped = talk.slipped
  BY <1>1, <1>2 DEF TalkState, TalkRecord
<1>4. /\ EarState(talk', ear') /\ ear'.at = "quiet" /\ ear'.line = NoLine /\ ear'.spec = 0 /\ ~ear'.changed
      /\ Held(ear') = {} /\ NoLine \notin Waiting /\ NoLine \notin Said
  <2>1. 0 \in 0..Len(talk'.replies)
    BY <1>3, TalkFields
  <2> QED
    BY <1>1, <1>2, <2>1, TalkAssumption DEF QuietEar, EarState, EarRecord, Held, Said
<1>5. ASSUME ~talk'.slipped PROVE Sound(talk', ear', Waiting, Said)
  <2>1. Sound(talk, ear, Waiting, Said) /\ ear.spec = 0
    BY <1>1, <1>2, <1>3, <1>5 DEF TalkGood, Sound, EarInOrder
  <2>2. Doing(talk') = Doing(talk) /\ InOrder(talk'.replies, talk'.reply)
    BY <1>3, <2>1 DEF Doing, Sound
  <2>3. Placed(talk'.heard, talk'.recalled, Doing(talk'), talk'.over, Waiting \cup Held(ear'), Said)
    <3> DEFINE all == Waiting \cup {l}
               doing == Doing(talk)
    <3>1. Placed(talk.heard, talk.recalled, doing, talk.over, all, Said) /\ all \ {l} = Waiting \cup Held(ear')
      <4>1. Held(ear) = {l} /\ l \notin Waiting
        BY <1>2, <2>1, TalkAssumption DEF Held, Sound
      <4> QED
        BY <1>4, <2>1, <4>1 DEF Sound
    <3> HIDE DEF all, doing, l
    <3>2. Placed(talk.heard, talk.recalled, doing, o, all \ {l}, Said)
      BY <3>1, PlacedSaid DEF o
    <3> QED
      BY <1>3, <2>2, <3>1, <3>2 DEF doing
  <2>4. Early(talk', ear') = Early(talk, ear)
    BY <1>3, <1>4, <2>1 DEF Early
  <2>5. EarlyIsNew(talk', ear', Said) /\ EarlyFits(talk', ear', Waiting)
    BY <1>3, <1>4, <2>1, <2>4 DEF Sound, EarlyIsNew, EarlyFits
  <2> QED
    BY <1>4, <2>2, <2>3, <2>5 DEF Sound, EarInOrder
<1> QED
  BY <1>1, <1>3, <1>4, <1>5, TurnKeeps DEF TalkGood

(* A line joins the queue. *)
LEMMA QueueKeeps ==
  ASSUME TalkInv, NEW c \in Lines, sentLines[c] # "heard", sentLines' = [sentLines EXCEPT ![c] = "heard"],
         lineQueue' = Append(lineQueue, c), UNCHANGED <<talk, ear, hand>>
  PROVE  TalkInv'
<1>1. /\ TalkState(talk) /\ EarState(talk, ear) /\ RestTyped /\ TalkGood(talk, ear, Waiting, Said)
  BY GoodOfInv
<1>2. RestTyped' /\ Said' = Said \cup {c} /\ c \notin Said /\ Waiting' = Waiting \cup {c} /\ c # NoLine
  <2>1. lineQueue \in Seq(Lines) /\ sentLines \in [Lines -> {"unsent", "at work", "heard"}]
    BY <1>1 DEF RestTyped
  <2>2. lineQueue' \in Seq(Lines) /\ ToSet(lineQueue') = ToSet(lineQueue) \cup {c}
    <3> DEFINE q == lineQueue
               p == Append(lineQueue, c)
               n == Len(lineQueue)
    <3>1. q \in Seq(Lines) /\ lineQueue' = p
      BY <2>1
    <3> HIDE DEF q
    <3>2. p \in Seq(Lines) /\ n \in Nat /\ DOMAIN q = 1..n /\ DOMAIN p = 1..(n + 1) /\ p[n + 1] = c /\ \A i \in 1..n : p[i] = q[i]
      BY <3>1 DEF q
    <3> HIDE DEF n, p
    <3>3. 1..(n + 1) = 1..n \cup {n + 1}
      BY <3>2
    <3>4. ToSet(p) = ToSet(q) \cup {c}
      BY <3>2, <3>3 DEF ToSet
    <3> QED
      BY <3>1, <3>2, <3>4 DEF q
  <2>3. sentLines' \in [Lines -> {"unsent", "at work", "heard"}] /\ Said' = Said \cup {c} /\ c \notin Said
    BY <2>1 DEF Said
  <2> QED
    BY <1>1, <2>2, <2>3, TalkAssumption DEF RestTyped, Waiting
<1>3. ASSUME ~talk.slipped PROVE Sound(talk, ear, Waiting \cup {c}, Said \cup {c})
  <2>1. Sound(talk, ear, Waiting, Said)
    BY <1>1, <1>3 DEF TalkGood
  <2> DEFINE all == Waiting \cup Held(ear)
             doing == Doing(talk)
  <2>2. Placed(talk.heard, talk.recalled, doing, talk.over, all, Said)
    BY <2>1 DEF Sound
  <2>3. (Waiting \cup {c}) \cup Held(ear) = all \cup {c}
    OBVIOUS
  <2>4. ear.line \notin Waiting \cup {c}
    <3>1. ear.line # NoLine => ear.line \in all
      BY DEF Held
    <3>2. \A x \in all : x \in Said
      BY <2>2 DEF Placed
    <3> QED
      BY <1>2, <2>1, <3>1, <3>2 DEF Sound
  <2> HIDE DEF all, doing
  <2>5. Placed(talk.heard, talk.recalled, doing, talk.over, all \cup {c}, Said \cup {c})
    BY <1>2, <2>2, PlacedSaid
  <2>6. EarlyIsNew(talk, ear, Said \cup {c}) /\ EarlyFits(talk, ear, Waiting \cup {c})
    BY <1>2, <2>1 DEF Sound, EarlyIsNew, EarlyFits
  <2> QED
    BY <2>1, <2>3, <2>4, <2>5, <2>6 DEF Sound, doing
<1> QED
  BY <1>1, <1>2, <1>3 DEF TalkInv, TalkGood

LEMMA TaskDoneKeeps == ASSUME TalkInv, NEW t \in TaskLines, DelegationDone(t) PROVE TalkInv'
BY QueueKeeps DEF DelegationDone, Lines

(* A message that is not for coolton is remembered. *)
LEMMA OverhearKeeps ==
  ASSUME TalkInv, NEW c \in Lines, sentLines[c] # "heard", sentLines' = [sentLines EXCEPT ![c] = "heard"],
         UNCHANGED <<lineQueue, ear, hand>>, NEW slips,
         slips = (talk.slipped \/ (ear.spec # 0 /\ Len(talk.heard) >= HeardLines)),
         talk' = [Remember(talk, c) EXCEPT !.slipped = slips]
  PROVE  TalkInv'
<1> DEFINE u == Remember(talk, c)
           a == Append(talk.heard, {c})
           k == Len(a) - HeardLines
           r == Early(talk, ear)
<1>1. /\ TalkState(talk) /\ EarState(talk, ear) /\ RestTyped /\ TalkGood(talk, ear, Waiting, Said)
      /\ talk.heard \in Seq(SUBSET Lines) /\ talk.slipped \in BOOLEAN
  BY GoodOfInv, TalkFields DEF TalkState, TalkRecord
<1>2. /\ TalkState(u) /\ DOMAIN u.replies = DOMAIN talk.replies
      /\ u.reply = talk.reply /\ u.spec = talk.spec
      /\ u.recalled = talk.recalled /\ u.slipped = talk.slipped
      /\ \A q \in DOMAIN talk.replies : SameLines(talk.replies, u.replies, q)
      /\ InOrder(talk.replies, talk.reply) => InOrder(u.replies, u.reply)
      /\ \/ /\ u.heard = a /\ u.over = talk.over
            /\ \A q \in DOMAIN talk.replies : SameReply(talk.replies, u.replies, q)
         \/ /\ Len(talk.heard) >= HeardLines
            /\ k \in Nat /\ k <= Len(a)
            /\ u.heard = SubSeq(a, k + 1, Len(a)) /\ u.over = talk.over \cup UNION {a[i] : i \in 1..k}
            /\ \A q \in DOMAIN talk.replies : q # talk.spec => SameReply(talk.replies, u.replies, q)
            /\ talk.spec # 0 => u.replies[talk.spec].consumed =
                 IF talk.replies[talk.spec].consumed > k THEN talk.replies[talk.spec].consumed - k ELSE 0
  BY <1>1, RememberMoves, Zenon
<1>3. a \in Seq(SUBSET Lines)
  BY <1>1, SeqAppends, {c} \in SUBSET Lines
<1> HIDE DEF u
<1>4. /\ TalkState(talk') /\ talk'.replies = u.replies /\ talk'.heard = u.heard /\ talk'.reply = u.reply
      /\ talk'.spec = u.spec /\ talk'.recalled = u.recalled /\ talk'.over = u.over /\ talk'.slipped = slips
  BY <1>1, <1>2 DEF TalkState, TalkRecord, u
<1>5. EarState(talk', ear)
  <2>1. \A q \in DOMAIN talk.replies : q \in DOMAIN talk'.replies
    BY <1>2, <1>4
  <2> QED
    BY <1>1, <1>4, <2>1, EarMoves
<1>6. RestTyped' /\ Waiting' = Waiting /\ Said' = Said \cup {c} /\ c \notin Said /\ c # NoLine
  <2>1. sentLines \in [Lines -> {"unsent", "at work", "heard"}]
    BY <1>1 DEF RestTyped
  <2>2. sentLines' \in [Lines -> {"unsent", "at work", "heard"}] /\ Said' = Said \cup {c} /\ c \notin Said
    BY <2>1 DEF Said
  <2>3. Len(talk'.replies) = Len(talk.replies)
    <3>1. /\ DOMAIN talk.replies = 1..Len(talk.replies) /\ Len(talk.replies) \in Nat
          /\ DOMAIN talk'.replies = 1..Len(talk'.replies) /\ Len(talk'.replies) \in Nat
      BY <1>1, <1>4, TalkFields
    <3> QED
      BY <1>2, <1>4, <3>1
  <2> QED
    BY <1>1, <2>2, <2>3, TalkAssumption DEF RestTyped, Waiting
<1>7. ASSUME ~talk'.slipped PROVE Sound(talk', ear, Waiting, Said \cup {c})
  <2>1. /\ Sound(talk, ear, Waiting, Said) /\ ~(ear.spec # 0 /\ Len(talk.heard) >= HeardLines)
        /\ EarlyIsNew(talk, ear, Said) /\ EarlyFits(talk, ear, Waiting)
    BY <1>1, <1>4, <1>7 DEF TalkGood, Sound
  <2> DEFINE all == Waiting \cup Held(ear)
             fresh == all \cup {c}
             said == Said \cup {c}
             doing == Doing(talk)
  <2>2. Placed(talk.heard, talk.recalled, doing, talk.over, all, Said)
    BY <2>1 DEF Sound
  <2>3. c \notin all
    BY <1>6, <2>2 DEF Placed
  <2>4. c \in fresh /\ fresh \ {c} = all
    BY <2>3
  <2> HIDE DEF all, doing
  <2>5. Placed(talk.heard, talk.recalled, doing, talk.over, fresh, said)
    BY <1>6, <2>2, PlacedSaid
  <2> HIDE DEF fresh, said
  <2>6. Placed(u.heard, u.recalled, Doing(u), u.over, fresh \ {c}, said) /\ Doing(u) = doing
    BY <1>1, <2>4, <2>5, RememberPlaces DEF u, doing
  <2>7. Placed(talk'.heard, talk'.recalled, Doing(talk'), talk'.over, Waiting \cup Held(ear), Said \cup {c})
        /\ Doing(talk') = doing
    <3>1. Doing(talk') = Doing(u)
      BY <1>4 DEF Doing
    <3> QED
      BY <1>4, <2>4, <2>6, <3>1 DEF all, said
  <2>8. Early(talk', ear) = r /\ (r # 0 => r \in DOMAIN talk.replies /\ SameLines(talk.replies, talk'.replies, r))
    BY <1>1, <1>2, <1>4, EarlyIsReply DEF Early
  <2> HIDE DEF r
  <2>9. EarlyIsNew(talk', ear, Said \cup {c})
    BY <2>1, <2>8 DEF EarlyIsNew, SameLines, r
  <2>10. EarlyFits(talk', ear, Waiting)
    <3> SUFFICES ASSUME r # 0, ear.line \in talk.replies[r].lines, ~ear.changed
                 PROVE  Fits(u.heard, u.recalled, doing, talk.replies[r].lines, u.replies[r].consumed)
                        /\ \A x \in talk.replies[r].lines : x \notin Waiting
      BY <1>4, <2>7, <2>8 DEF EarlyFits, SameLines
    <3> DEFINE lines == talk.replies[r].lines
               n == talk.replies[r].consumed
    <3>1. /\ Fits(talk.heard, talk.recalled, doing, lines, n)
          /\ \A x \in lines : x \notin Waiting
      BY <2>1 DEF EarlyFits, doing, r
    <3>2. c \notin lines /\ n \in Nat
      <4>1. lines \subseteq Said
        BY <2>1 DEF EarlyIsNew, r
      <4>2. talk.replies[r] \in ReplyRecord
        BY <1>1, <2>8, TalkFields
      <4> QED
        BY <1>6, <4>1, <4>2 DEF ReplyRecord
    <3> HIDE DEF lines, n
    <3>3. Fits(a, talk.recalled, doing, lines, n)
      BY <1>1, <3>1, <3>2, FitsRemembered
    <3>4. CASE u.heard = a /\ \A q \in DOMAIN talk.replies : SameReply(talk.replies, u.replies, q)
      <4>1. u.replies[r].consumed = n
        BY <2>8, <3>4 DEF SameReply, n
      <4> QED
        BY <1>2, <3>1, <3>3, <3>4, <4>1 DEF lines
    <3>5. CASE /\ Len(talk.heard) >= HeardLines
               /\ k \in Nat /\ k <= Len(a) /\ u.heard = SubSeq(a, k + 1, Len(a))
               /\ talk.spec # 0 => u.replies[talk.spec].consumed =
                    IF talk.replies[talk.spec].consumed > k THEN talk.replies[talk.spec].consumed - k ELSE 0
      <4> DEFINE m == u.replies[r].consumed
      <4>1. r = talk.spec
        BY <2>1, <3>5 DEF r, Early
      <4> HIDE DEF a, k
      <4>2. m = IF n > k THEN n - k ELSE 0
        BY <3>5, <4>1 DEF n
      <4> HIDE DEF m
      <4>3. Fits(SubSeq(a, k + 1, Len(a)), talk.recalled, doing, lines, m)
        BY <1>3, <3>2, <3>3, <3>5, <4>2, FitsTrimmed
      <4> QED
        BY <1>2, <3>1, <3>5, <4>3 DEF lines, m
    <3> HIDE DEF a, k
    <3> QED
      BY <1>2, <3>4, <3>5
  <2>11. InOrder(talk'.replies, talk'.reply) /\ ear.line \notin Waiting /\ EarInOrder(talk', ear)
    BY <1>2, <1>4, <2>1 DEF Sound, EarInOrder
  <2> QED
    BY <2>7, <2>9, <2>10, <2>11 DEF Sound
<1> QED
  BY <1>4, <1>5, <1>6, <1>7 DEF TalkInv, TalkGood

LEMMA ChatKeeps == ASSUME TalkInv, NEW c \in ChatLines, ChatLine(c) PROVE TalkInv'
<1> DEFINE slips == talk.slipped \/ (ear.spec # 0 /\ Len(talk.heard) >= HeardLines)
<1>1. c \in Lines /\ TalkState(Remember(talk, c)) /\ Remember(talk, c).slipped = talk.slipped
  BY GoodOfInv, RememberMoves DEF Lines
<1>2. /\ sentLines[c] # "heard" /\ sentLines' = [sentLines EXCEPT ![c] = "heard"] /\ UNCHANGED <<ear, hand>>
      /\ \/ lineQueue' = Append(lineQueue, c) /\ UNCHANGED talk
         \/ talk' = [Remember(talk, c) EXCEPT !.slipped = slips] /\ UNCHANGED lineQueue
  BY <1>1 DEF ChatLine
<1> HIDE DEF slips
<1>3. CASE lineQueue' = Append(lineQueue, c) /\ UNCHANGED talk
  BY <1>1, <1>2, <1>3, QueueKeeps
<1>4. CASE talk' = [Remember(talk, c) EXCEPT !.slipped = slips] /\ UNCHANGED lineQueue
  BY <1>1, <1>2, <1>4, OverhearKeeps DEF slips
<1> QED
  BY <1>2, <1>3, <1>4

(* What a reply did is noted, and it goes on to be where it was. *)
LEMMA NoteMoves ==
  ASSUME NEW s, NEW e, NEW waiting, NEW said, TalkGood(s, e, waiting, said), NEW r \in DOMAIN s.replies,
         NEW x \in ReplyRecord,
         x.lines = s.replies[r].lines, x.consumed = s.replies[r].consumed, x.confirmed = s.replies[r].confirmed,
         x.fixed = s.replies[r].fixed, x.settled = s.replies[r].settled, x.at = s.replies[r].at,
         NEW t, t = [s EXCEPT !.replies = [s.replies EXCEPT ![r] = x]]
  PROVE  TalkGood(t, e, waiting, said) /\ DOMAIN t.replies = DOMAIN s.replies
<1>1. TalkState(s) /\ 0 \notin DOMAIN s.replies /\ s.reply \in DOMAIN s.replies \cup {0}
  BY TalkFields DEF TalkGood
<1>2. /\ TalkState(t) /\ DOMAIN t.replies = DOMAIN s.replies /\ t.replies[r] = x
      /\ \A q \in DOMAIN s.replies : q # r => t.replies[q] = s.replies[q]
      /\ t.heard = s.heard /\ t.reply = s.reply /\ t.spec = s.spec
      /\ t.recalled = s.recalled /\ t.over = s.over /\ t.slipped = s.slipped
  BY <1>1, ReplyMoves
<1>3. \A q \in DOMAIN s.replies : SameReply(s.replies, t.replies, q)
  BY <1>2 DEF SameReply
<1>4. Doing(t) = Doing(s)
  BY <1>1, <1>2, <1>3, SameDoing
<1>5. ASSUME ~s.slipped PROVE InOrder(t.replies, t.reply)
  <2>1. InOrder(s.replies, s.reply)
    BY <1>5 DEF TalkGood, Sound
  <2>2. \A q \in DOMAIN s.replies : /\ t.replies[q].confirmed = s.replies[q].confirmed /\ t.replies[q].at = s.replies[q].at
            /\ t.replies[q].settled = s.replies[q].settled /\ t.replies[q].fixed = s.replies[q].fixed
            /\ t.replies[q].lines = s.replies[q].lines
    BY <1>2
  <2> QED
    BY <1>1, <1>2, <2>1, <2>2 DEF InOrder
<1> QED
  BY <1>2, <1>3, <1>4, <1>5, GoodMoves

LEMMA DelegateKeeps ==
  ASSUME TalkInv, NEW t \in TaskLines, NEW r \in DOMAIN talk.replies, Delegate(r, t)
  PROVE  TalkInv'
<1> DEFINE x == [talk.replies[r] EXCEPT !.delegated = TRUE]
<1>1. /\ TalkGood(talk, ear, Waiting, Said) /\ TalkState(talk) /\ RestTyped
      /\ talk.replies[r] \in ReplyRecord /\ t \in Lines
  BY GoodOfInv, TalkFields DEF Lines
<1>2. /\ x \in ReplyRecord
      /\ x.lines = talk.replies[r].lines /\ x.consumed = talk.replies[r].consumed
      /\ x.confirmed = talk.replies[r].confirmed /\ x.fixed = talk.replies[r].fixed
      /\ x.settled = talk.replies[r].settled /\ x.at = talk.replies[r].at
  BY <1>1 DEF ReplyRecord
<1>3. /\ talk' = [talk EXCEPT !.replies = [talk.replies EXCEPT ![r] = x]]
      /\ sentLines[t] = "unsent" /\ sentLines' = [sentLines EXCEPT ![t] = "at work"]
      /\ UNCHANGED <<lineQueue, ear, hand>>
  BY DEF Delegate
<1> HIDE DEF x
<1>4. TalkGood(talk', ear, Waiting, Said) /\ DOMAIN talk'.replies = DOMAIN talk.replies
  <2>1. talk' = [talk EXCEPT !.replies = [talk.replies EXCEPT ![r] = x]]
    BY <1>3
  <2> QED
    BY <1>1, <1>2, <2>1, NoteMoves
<1>5. RestTyped' /\ Waiting' = Waiting /\ Said' = Said
  <2>1. sentLines \in [Lines -> {"unsent", "at work", "heard"}]
    BY <1>1 DEF RestTyped
  <2>2. sentLines' \in [Lines -> {"unsent", "at work", "heard"}] /\ Said' = Said
    BY <1>1, <1>3, <2>1 DEF Said
  <2>3. Len(talk'.replies) = Len(talk.replies)
    <3>1. /\ DOMAIN talk.replies = 1..Len(talk.replies) /\ Len(talk.replies) \in Nat
          /\ DOMAIN talk'.replies = 1..Len(talk'.replies) /\ Len(talk'.replies) \in Nat
      BY <1>1, <1>4, TalkFields DEF TalkGood
    <3> QED
      BY <1>4, <3>1
  <2> QED
    BY <1>1, <1>3, <2>2, <2>3 DEF RestTyped, Waiting
<1> QED
  BY <1>3, <1>4, <1>5 DEF TalkInv

LEMMA ActKeeps == ASSUME TalkInv, NEW r \in DOMAIN talk.replies, Act(r) PROVE TalkInv'
<1>1. PICK spoken \in BOOLEAN :
        talk' = [talk EXCEPT !.replies[r].acted = TRUE, !.replies[r].spoke = @ \/ spoken]
  BY DEF Act
<1> DEFINE x == [talk.replies[r] EXCEPT !.acted = TRUE, !.spoke = talk.replies[r].spoke \/ spoken]
<1>2. /\ TalkGood(talk, ear, Waiting, Said) /\ TalkState(talk)
      /\ talk.replies[r] \in ReplyRecord /\ UNCHANGED <<lineQueue, sentLines, ear, hand>>
  BY GoodOfInv, TalkFields DEF Act
<1>3. /\ x \in ReplyRecord
      /\ x.lines = talk.replies[r].lines /\ x.consumed = talk.replies[r].consumed
      /\ x.confirmed = talk.replies[r].confirmed /\ x.fixed = talk.replies[r].fixed
      /\ x.settled = talk.replies[r].settled /\ x.at = talk.replies[r].at
  BY <1>2 DEF ReplyRecord
<1>4. talk' = [talk EXCEPT !.replies = [talk.replies EXCEPT ![r] = x]]
  BY <1>1, <1>2, TalkFields DEF TalkState, TalkRecord
<1> HIDE DEF x
<1>5. TalkGood(talk', ear, Waiting, Said) /\ DOMAIN talk'.replies = DOMAIN talk.replies
  BY <1>2, <1>3, <1>4, NoteMoves
<1> QED
  BY <1>2, <1>5, TurnKeeps

(* The worker takes the line that waited longest. *)
LEMMA TakeLineKeeps == ASSUME TalkInv, TakeLine PROVE TalkInv'
<1>1. /\ RestTyped /\ lineQueue # <<>> /\ hand = [line |-> NoLine, reply |-> 0]
      /\ hand' = [hand EXCEPT !.line = Head(lineQueue)] /\ lineQueue' = Tail(lineQueue)
      /\ UNCHANGED <<talk, sentLines, ear>> /\ TalkGood(talk, ear, Waiting, Said) /\ TalkState(talk)
  BY GoodOfInv DEF TakeLine
<1> DEFINE q == lineQueue
           p == Tail(lineQueue)
           n == Len(lineQueue)
<1>2. q \in Seq(Lines) /\ q # <<>>
  BY <1>1 DEF RestTyped
<1> HIDE DEF q
<1>3. /\ p \in Seq(Lines) /\ n \in Nat \ {0} /\ DOMAIN q = 1..n /\ DOMAIN p = 1..(n - 1) /\ Head(q) = q[1]
      /\ \A i \in 1..(n - 1) : p[i] = q[i + 1]
  BY <1>2, SeqTails DEF q
<1> HIDE DEF p, n
<1>4. 1 \in 1..n /\ q[1] \in Lines
  BY <1>2, <1>3
<1>5. ToSet(q) = ToSet(p) \cup {q[1]}
  <2>1. \A i \in 1..n : i = 1 \/ (i - 1 \in 1..(n - 1) /\ p[i - 1] = q[i])
    BY <1>3
  <2>2. \A i \in 1..(n - 1) : i + 1 \in 1..n
    BY <1>3
  <2>3. ASSUME NEW i \in 1..n PROVE q[i] \in ToSet(p) \cup {q[1]}
    BY <1>3, <2>1, <2>3 DEF ToSet
  <2>4. ASSUME NEW i \in 1..(n - 1) PROVE p[i] \in ToSet(q)
    BY <1>3, <2>2, <2>4 DEF ToSet
  <2>5. q[1] \in ToSet(q)
    BY <1>3, <1>4 DEF ToSet
  <2> QED
    BY <1>3, <2>3, <2>4, <2>5 DEF ToSet
<1>6. hand' = [line |-> q[1], reply |-> 0] /\ lineQueue' = p /\ 0 \in 0..Len(talk.replies)
  BY <1>1, <1>3, TalkFields DEF q, p
<1>7. RestTyped' /\ Waiting' = Waiting /\ Said' = Said
  <2> DEFINE l == q[1]
  <2>0. /\ hand' = [line |-> l, reply |-> 0] /\ hand'.line = l /\ hand'.reply = 0 /\ l \in Lines /\ l # NoLine
        /\ hand' \in [line : Lines \cup {NoLine}, reply : Nat]
    BY <1>4, <1>6, TalkAssumption
  <2> HIDE DEF l
  <2>1. RestTyped'
    <3>1. /\ lineQueue' \in Seq(Lines) /\ sentLines' \in [Lines -> {"unsent", "at work", "heard"}]
          /\ hand'.reply \in 0..Len(talk'.replies)
      BY <1>1, <1>3, <1>6, <2>0 DEF RestTyped
    <3> QED
      BY <2>0, <3>1 DEF RestTyped
  <2>2. Said' = Said
    BY <1>1 DEF Said
  <2>3. Waiting' = Waiting
    <3>1. Waiting = ToSet(q)
      BY <1>1 DEF Waiting, q
    <3>2. Waiting' = ToSet(p) \cup {l}
      BY <1>6, <2>0 DEF Waiting
    <3> QED
      BY <1>5, <3>1, <3>2 DEF l
  <2> QED
    BY <2>1, <2>2, <2>3
<1> QED
  BY <1>1, <1>7 DEF TalkInv

LEMMA AnswerOverKeeps == ASSUME TalkInv, AnswerIsOver PROVE TalkInv'
<1>1. /\ RestTyped /\ TalkState(talk) /\ hand' = [hand EXCEPT !.reply = 0] /\ UNCHANGED <<talk, lineQueue, sentLines, ear>>
      /\ 0 \in 0..Len(talk.replies)
  BY GoodOfInv, TalkFields DEF AnswerIsOver
<1>2. RestTyped' /\ Waiting' = Waiting /\ Said' = Said
  BY <1>1 DEF RestTyped, Waiting, Said
<1> QED
  BY <1>1, <1>2 DEF TalkInv

(* Something is said that answers no line. *)
LEMMA SpeakKeeps ==
  ASSUME NEW s, NEW e, NEW waiting, NEW said, TalkGood(s, e, waiting, said)
  PROVE  LET t == Speak(s) IN
         TalkGood(t, e, waiting, said) /\ \A q \in DOMAIN s.replies : q \in DOMAIN t.replies
<1> DEFINE t == Speak(s)
           id == Len(s.replies) + 1
<1>1. TalkState(s) /\ EarState(s, e)
  BY DEF TalkGood
<1>2. /\ TalkState(t) /\ DOMAIN t.replies = 1..id /\ t.reply = id /\ id # 0
      /\ t.heard = s.heard /\ t.spec = s.spec
      /\ t.recalled = s.recalled /\ t.over = s.over /\ t.replies[id].lines = {}
      /\ \A q \in DOMAIN s.replies : SameReply(s.replies, t.replies, q)
      /\ ~t.slipped => ~s.slipped /\ s.reply = 0
      /\ ~t.slipped /\ InOrder(s.replies, s.reply) => InOrder(t.replies, t.reply)
  BY <1>1, SpeakMoves
<1> HIDE DEF t, id
<1>3. \A q \in DOMAIN s.replies : q \in DOMAIN t.replies
  BY <1>2 DEF SameReply
<1>4. EarState(t, e)
  BY <1>1, <1>2, <1>3, EarMoves
<1>5. ASSUME ~t.slipped PROVE Sound(t, e, waiting, said)
  <2>1. Sound(s, e, waiting, said) /\ InOrder(s.replies, s.reply)
    BY <1>2, <1>5 DEF TalkGood, Sound
  <2>2. Doing(t) = Doing(s)
    BY <1>2, <1>5 DEF Doing
  <2> QED
    BY <1>1, <1>2, <1>5, <2>1, <2>2, SoundMoves
<1> QED
  BY <1>2, <1>3, <1>4, <1>5 DEF TalkGood, t

LEMMA GreetKeeps == ASSUME TalkInv, Greet PROVE TalkInv'
<1>1. talk' = Speak(talk) /\ UNCHANGED <<lineQueue, sentLines, ear, hand>>
  BY DEF Greet
<1>2. TalkGood(talk', ear, Waiting, Said) /\ \A q \in DOMAIN talk.replies : q \in DOMAIN talk'.replies
  BY <1>1, GoodOfInv, SpeakKeeps
<1> QED
  BY <1>1, <1>2, TurnKeeps

(* The worker answers what waits, with all that was heard.                  *)
LEMMA AnswerLineKeeps == ASSUME TalkInv, AnswerLine PROVE TalkInv'
<1> DEFINE t == StartReply(talk, Waiting, TRUE)
           id == Len(talk.replies) + 1
           slips == t.slipped \/ ear.spec # 0
<1>1. /\ TalkGood(talk, ear, Waiting, Said) /\ TalkState(talk) /\ EarState(talk, ear) /\ RestTyped
      /\ Waiting \in SUBSET Lines /\ talk.heard \in Seq(SUBSET Lines)
  BY GoodOfInv, TalkFields
<1>2. /\ Waiting = {hand.line} \cup ToSet(lineQueue) /\ talk.reply = 0 /\ talk.spec = 0
      /\ talk' = [StartReply(talk, {hand.line} \cup ToSet(lineQueue), TRUE) EXCEPT !.slipped = @ \/ ear.spec # 0]
      /\ lineQueue' = <<>> /\ hand' = [line |-> NoLine, reply |-> Len(talk'.replies)] /\ UNCHANGED <<sentLines, ear>>
  BY DEF AnswerLine, Waiting
<1>3. talk' = [t EXCEPT !.slipped = slips]
  BY <1>2
<1>4. /\ TalkState(t) /\ DOMAIN t.replies = 1..id /\ t.reply = id /\ id # 0
      /\ t.heard = <<>> /\ t.spec = talk.spec /\ t.recalled = talk.recalled /\ t.over = talk.over
      /\ t.replies[id].lines = Waiting \cup UNION ToSet(talk.heard)
      /\ \A q \in DOMAIN talk.replies : SameReply(talk.replies, t.replies, q)
      /\ ~t.slipped => ~talk.slipped /\ talk.reply = 0
      /\ ~t.slipped /\ InOrder(talk.replies, talk.reply) => InOrder(t.replies, t.reply)
  BY <1>1, StartMoves
<1> HIDE DEF t, id
<1>5. t.slipped \in BOOLEAN /\ slips \in BOOLEAN
  BY <1>4 DEF TalkState, TalkRecord
<1> HIDE DEF slips
<1>6. /\ TalkState(talk') /\ talk'.replies = t.replies /\ talk'.heard = <<>> /\ talk'.reply = id
      /\ talk'.spec = 0 /\ talk'.recalled = talk.recalled /\ talk'.over = talk.over /\ talk'.slipped = slips
  BY <1>2, <1>3, <1>4, <1>5 DEF TalkState, TalkRecord
<1>7. EarState(talk', ear)
  <2>1. \A q \in DOMAIN talk.replies : q \in DOMAIN talk'.replies
    BY <1>4, <1>6 DEF SameReply
  <2> QED
    BY <1>1, <1>6, <2>1, EarMoves
<1>8. RestTyped' /\ Waiting' = {} /\ Said' = Said
  <2>1. Len(talk'.replies) \in Nat /\ Len(talk'.replies) \in 0..Len(talk'.replies)
    BY <1>6, TalkFields
  <2>2. ToSet(<<>>) = {}
    BY DEF ToSet
  <2> QED
    <3>1. lineQueue' = <<>> /\ <<>> \in Seq(Lines) /\ sentLines' = sentLines
      BY <1>2
    <3>2. /\ hand'.line = NoLine /\ hand'.reply \in 0..Len(talk'.replies)
          /\ hand' \in [line : Lines \cup {NoLine}, reply : Nat]
      BY <1>2, <2>1
    <3>3. RestTyped' /\ Said' = Said
      BY <1>1, <3>1, <3>2 DEF RestTyped, Said
    <3>4. Waiting' = {}
      BY <2>2, <3>1, <3>2 DEF Waiting
    <3> QED
      BY <3>3, <3>4
<1>9. ASSUME ~talk'.slipped PROVE Sound(talk', ear, {}, Said)
  <2>1. ~t.slipped /\ ear.spec = 0
    BY <1>6, <1>9 DEF slips
  <2>2. Sound(talk, ear, Waiting, Said) /\ Doing(talk) = {}
    BY <1>1, <1>2, <1>4, <2>1 DEF TalkGood, Doing
  <2> DEFINE all == Waiting \cup Held(ear)
             taken == Waiting
  <2>3. Placed(talk.heard, talk.recalled, {}, talk.over, all, Said) /\ taken \in SUBSET all
    BY <2>2 DEF Sound
  <2>4. all \ taken = {} \cup Held(ear)
    BY <2>2 DEF Sound, Held
  <2>5. Doing(talk') = taken \cup UNION ToSet(talk.heard)
    BY <1>4, <1>6 DEF Doing
  <2> HIDE DEF all, taken
  <2>6. Placed(<<>>, talk.recalled, taken \cup UNION ToSet(talk.heard), talk.over, all \ taken, Said)
    BY <1>1, <2>3, PlacedAnswered
  <2>7. Placed(talk'.heard, talk'.recalled, Doing(talk'), talk'.over, {} \cup Held(ear), Said)
    BY <1>6, <2>4, <2>5, <2>6
  <2>8. Early(talk', ear) = 0
    BY <1>6, <2>1 DEF Early
  <2>9. InOrder(talk'.replies, talk'.reply)
    BY <1>4, <1>6, <2>1, <2>2 DEF Sound
  <2> QED
    BY <1>6, <2>1, <2>2, <2>7, <2>8, <2>9 DEF Sound, EarlyIsNew, EarlyFits, EarInOrder
<1> QED
  BY <1>2, <1>6, <1>7, <1>8, <1>9 DEF TalkInv, TalkGood

(* What becomes of the lines of a reply that was heard, and of one that     *)
(* failed.                                                                  *)
InHistory(s, r) == [Over(s, r) EXCEPT !.recalled = @ \cup s.replies[r].lines]
LetGo(s, r) == [Over(s, r) EXCEPT !.over = @ \cup s.replies[r].lines]

LEMMA TalkOverKeeps ==
  ASSUME NEW s, NEW e, NEW waiting, NEW said, TalkGood(s, e, waiting, said), NEW r \in DOMAIN s.replies,
         s.replies[r].confirmed, s.replies[r].at = "running", NEW t, t = InHistory(s, r) \/ t = LetGo(s, r)
  PROVE  TalkGood(t, e, waiting, said) /\ DOMAIN t.replies = DOMAIN s.replies
<1> DEFINE u == Over(s, r)
           lines == s.replies[r].lines
           early == Early(s, e)
<1>1. /\ TalkState(s) /\ EarState(s, e) /\ lines \subseteq Lines /\ s.heard \in Seq(SUBSET Lines)
      /\ s.recalled \subseteq Lines /\ s.over \subseteq Lines /\ r # 0 /\ Doing(s) \subseteq Lines
  BY TalkFields DEF TalkGood, ReplyRecord
<1>2. /\ TalkState(u) /\ DOMAIN u.replies = DOMAIN s.replies
      /\ u.heard = s.heard /\ u.reply = (IF s.reply = r THEN 0 ELSE s.reply) /\ u.spec = s.spec
      /\ u.recalled = s.recalled /\ u.over = s.over /\ u.slipped = s.slipped
      /\ \A q \in DOMAIN s.replies : SameReply(s.replies, u.replies, q)
      /\ InOrder(s.replies, s.reply) => InOrder(u.replies, u.reply)
      /\ Doing(u) = IF s.reply = r THEN {} ELSE Doing(s)
  BY <1>1, OverMoves
<1> HIDE DEF lines
<1>3. \/ t = [u EXCEPT !.recalled = u.recalled \cup lines]
      \/ t = [u EXCEPT !.over = u.over \cup lines]
  BY <1>1, <1>2 DEF lines, TalkState, TalkRecord, InHistory, LetGo
<1> HIDE DEF u
<1>4. /\ TalkState(t) /\ t.replies = u.replies /\ t.heard = s.heard /\ t.reply = u.reply
      /\ t.spec = s.spec /\ t.slipped = s.slipped
      /\ \/ t.recalled = s.recalled \cup lines /\ t.over = s.over
         \/ t.recalled = s.recalled /\ t.over = s.over \cup lines
  <2> DEFINE more == u.recalled \cup lines
             gone == u.over \cup lines
  <2>1. more \in SUBSET Lines /\ gone \in SUBSET Lines
    BY <1>1, <1>2
  <2> HIDE DEF more, gone
  <2>2. CASE t = [u EXCEPT !.recalled = more]
    BY <1>2, <2>1, <2>2 DEF TalkState, TalkRecord, more
  <2>3. CASE t = [u EXCEPT !.over = gone]
    BY <1>2, <2>1, <2>3 DEF TalkState, TalkRecord, gone
  <2> QED
    BY <1>3, <2>2, <2>3 DEF more, gone
<1>5. EarState(t, e)
  <2>1. \A q \in DOMAIN s.replies : q \in DOMAIN t.replies
    BY <1>2, <1>4
  <2> QED
    BY <1>1, <1>4, <2>1, EarMoves
<1>6. ASSUME ~t.slipped PROVE Sound(t, e, waiting, said)
  <2>1. Sound(s, e, waiting, said) /\ s.reply = r /\ Doing(s) = lines /\ Doing(t) = {}
    BY <1>1, <1>2, <1>4, <1>6 DEF TalkGood, Sound, InOrder, Doing, lines
  <2> DEFINE all == waiting \cup Held(e)
             doing == Doing(s)
  <2>2. Placed(s.heard, s.recalled, doing, s.over, all, said) /\ doing \in SUBSET Lines /\ doing = lines
    BY <1>1, <2>1 DEF Sound
  <2> HIDE DEF all, doing
  <2>3. /\ Placed(s.heard, s.recalled \cup doing, {}, s.over, all, said)
        /\ Placed(s.heard, s.recalled, {}, s.over \cup doing, all, said)
    BY <1>1, <2>2, PlacedInterrupted
  <2>4. Placed(t.heard, t.recalled, {}, t.over, all, said)
    BY <1>4, <2>2, <2>3
  <2>5. Early(t, e) = early /\ (early # 0 => SameReply(s.replies, t.replies, early))
    BY <1>1, <1>2, <1>4, EarlyIsReply DEF Early
  <2> HIDE DEF early
  <2>6. EarlyIsNew(t, e, said)
    BY <2>1, <2>5 DEF Sound, EarlyIsNew, SameReply, early
  <2>7. EarlyFits(t, e, waiting)
    <3> SUFFICES ASSUME early # 0, e.line \in s.replies[early].lines, ~e.changed
                 PROVE  Fits(t.heard, t.recalled, {}, s.replies[early].lines, s.replies[early].consumed)
                        /\ \A l \in s.replies[early].lines : l \notin waiting
      BY <2>1, <2>5 DEF EarlyFits, SameReply
    <3>1. /\ Fits(s.heard, s.recalled, doing, s.replies[early].lines, s.replies[early].consumed)
          /\ \A l \in s.replies[early].lines : l \notin waiting
      BY <2>1 DEF Sound, EarlyFits, early, doing
    <3> QED
      BY <1>4, <2>2, <3>1 DEF Fits
  <2>8. InOrder(t.replies, t.reply) /\ EarInOrder(t, e)
    BY <1>2, <1>4, <2>1 DEF Sound, EarInOrder
  <2> QED
    BY <2>1, <2>4, <2>6, <2>7, <2>8 DEF Sound, all
<1> QED
  BY <1>2, <1>4, <1>5, <1>6 DEF TalkGood

LEMMA EndReplyKeeps == ASSUME TalkInv, NEW r \in DOMAIN talk.replies, EndReply(r) PROVE TalkInv'
<1>1. /\ talk.replies[r].at = "running" /\ talk.replies[r].confirmed
      /\ talk' = InHistory(talk, r) /\ UNCHANGED <<lineQueue, sentLines, ear, hand>>
  BY DEF EndReply, InHistory
<1>2. TalkGood(talk', ear, Waiting, Said) /\ DOMAIN talk'.replies = DOMAIN talk.replies
  BY <1>1, GoodOfInv, TalkOverKeeps
<1> QED
  BY <1>1, <1>2, TurnKeeps

(* A reply that answers nothing, or no longer does, is over. *)
LEMMA CloseKeeps ==
  ASSUME NEW s, NEW e, NEW waiting, NEW said, TalkGood(s, e, waiting, said), NEW r \in DOMAIN s.replies,
         ~s.slipped /\ s.reply = r => s.replies[r].lines = {}
  PROVE  TalkGood(Over(s, r), e, waiting, said) /\ DOMAIN Over(s, r).replies = DOMAIN s.replies
<1> DEFINE t == Over(s, r)
<1>1. TalkState(s) /\ r # 0
  BY TalkFields DEF TalkGood
<1>2. /\ TalkState(t) /\ DOMAIN t.replies = DOMAIN s.replies
      /\ t.heard = s.heard /\ t.spec = s.spec
      /\ t.recalled = s.recalled /\ t.over = s.over /\ t.slipped = s.slipped
      /\ \A q \in DOMAIN s.replies : SameReply(s.replies, t.replies, q)
      /\ InOrder(s.replies, s.reply) => InOrder(t.replies, t.reply)
      /\ Doing(t) = IF s.reply = r THEN {} ELSE Doing(s)
  BY <1>1, OverMoves
<1> HIDE DEF t
<1>3. ASSUME ~s.slipped PROVE Doing(t) = Doing(s) /\ InOrder(t.replies, t.reply)
  <2>1. InOrder(s.replies, s.reply)
    BY <1>3 DEF TalkGood, Sound
  <2>2. s.reply = r => Doing(s) = {}
    BY <1>1, <1>3 DEF Doing
  <2> QED
    BY <1>2, <2>1, <2>2
<1>4. TalkGood(t, e, waiting, said)
  BY <1>2, <1>3, GoodMoves
<1> QED
  BY <1>2, <1>4 DEF t

LEMMA FailsKeeps == ASSUME TalkInv, NEW r \in DOMAIN talk.replies, ReplyFails(r) PROVE TalkInv'
<1> DEFINE gone == IF talk.replies[r].confirmed THEN talk.replies[r].lines ELSE {}
           s == [Over(talk, r) EXCEPT !.over = @ \cup gone]
<1>1. /\ talk.replies[r].at = "running" /\ UNCHANGED <<lineQueue, sentLines, ear, hand>>
      /\ \/ talk.replies[r].confirmed /\ talk' = Speak(s)
         \/ talk' = s
  BY Zenon DEF ReplyFails
<1>2. TalkGood(talk, ear, Waiting, Said) /\ TalkState(talk)
  BY GoodOfInv
<1>3. TalkGood(s, ear, Waiting, Said) /\ DOMAIN s.replies = DOMAIN talk.replies
  <2>1. CASE talk.replies[r].confirmed
    <3>1. s = LetGo(talk, r)
      BY <2>1 DEF LetGo
    <3> HIDE DEF s
    <3> QED
      BY <1>1, <1>2, <2>1, <3>1, TalkOverKeeps
  <2>2. CASE ~talk.replies[r].confirmed
    <3>1. s = Over(talk, r)
      <4>1. TalkState(Over(talk, r))
        BY <1>2, OverMoves
      <4>2. gone = {} /\ Over(talk, r).over \cup gone = Over(talk, r).over
        BY <2>2
      <4> HIDE DEF gone
      <4> QED
        BY <4>1, <4>2 DEF TalkState, TalkRecord
    <3>2. ~talk.slipped => talk.reply # r
      <4>1. r # 0
        BY <1>2, TalkFields
      <4> QED
        BY <1>2, <2>2, <4>1 DEF TalkGood, Sound, InOrder
    <3> HIDE DEF s
    <3> QED
      BY <1>2, <3>1, <3>2, CloseKeeps
  <2> QED
    BY <2>1, <2>2
<1> HIDE DEF s, gone
<1>4. TalkGood(talk', ear, Waiting, Said) /\ \A q \in DOMAIN talk.replies : q \in DOMAIN talk'.replies
  <2>1. CASE talk' = s
    BY <1>3, <2>1
  <2>2. CASE talk' = Speak(s)
    BY <1>3, <2>2, SpeakKeeps
  <2> QED
    BY <1>1, <2>1, <2>2
<1> QED
  BY <1>1, <1>4, TurnKeeps

LEMMA CancelledKeeps == ASSUME TalkInv, NEW r \in DOMAIN talk.replies, ReplyCancelled(r) PROVE TalkInv'
<1> DEFINE s == SettleInterrupted(talk, r)
<1>1. /\ talk.replies[r].at = "cancelled" /\ talk' = Over(s, r) /\ UNCHANGED <<lineQueue, sentLines, ear, hand>>
  BY DEF ReplyCancelled
<1>2. TalkGood(talk, ear, Waiting, Said) /\ TalkState(talk) /\ EarState(talk, ear) /\ r # 0
  BY GoodOfInv, TalkFields
<1>3. /\ TalkState(s) /\ DOMAIN s.replies = DOMAIN talk.replies /\ s.slipped = talk.slipped
      /\ ~Settles(talk.replies[r]) => s = talk
  BY <1>2, SettleMoves
<1> HIDE DEF s
<1>4. TalkGood(s, ear, Waiting, Said) /\ (~s.slipped /\ s.reply = r => s.replies[r].lines = {})
  <2>1. CASE talk.slipped
    <3>1. EarState(s, ear)
      BY <1>2, <1>3, EarMoves
    <3> QED
      BY <1>3, <2>1, <3>1 DEF TalkGood
  <2>2. CASE ~talk.slipped
    <3>1. InOrder(talk.replies, talk.reply)
      BY <1>2, <2>2 DEF TalkGood, Sound
    <3>2. talk.replies[r].confirmed => talk.replies[r].settled \/ talk.replies[r].fixed
      BY <1>1, <3>1 DEF InOrder
    <3>3. s = talk
      BY <1>3, <3>2 DEF Settles
    <3>4. talk.reply = r => talk.replies[r].lines = {}
      BY <1>2, <3>1, <3>2 DEF InOrder
    <3> QED
      BY <1>2, <3>3, <3>4
  <2> QED
    BY <2>1, <2>2
<1>5. TalkGood(talk', ear, Waiting, Said) /\ DOMAIN talk'.replies = DOMAIN talk.replies
  BY <1>1, <1>3, <1>4, CloseKeeps
<1> QED
  BY <1>1, <1>5, TurnKeeps

LEMMA TalkStep == TalkInv /\ [TalkNext]_talkVars => TalkInv'
<1> SUFFICES ASSUME TalkInv, [TalkNext]_talkVars PROVE TalkInv'
  OBVIOUS
<1>1. CASE UNCHANGED talkVars
  <2>1. UNCHANGED <<talk, lineQueue, sentLines, ear, hand>>
    BY <1>1 DEF talkVars
  <2>2. RestTyped' /\ Waiting' = Waiting /\ Said' = Said
    BY <2>1 DEF TalkInv, RestTyped, Waiting, Said
  <2> QED
    BY <2>1, <2>2 DEF TalkInv
<1>2. ASSUME NEW v \in VoiceLines, StartOfTurn(v) PROVE TalkInv'
  BY <1>2, ListensKeeps
<1>3. CASE Update
  BY <1>3, UpdateTalkKeeps
<1>4. CASE Cleared
  BY <1>4, ClearedKeeps
<1>5. CASE EagerEndOfTurn
  BY <1>5, EagerKeeps
<1>6. CASE TurnResumed
  BY <1>6, ResumedKeeps
<1>7. CASE EndOfTurn
  BY <1>7, EndKeeps
<1>8. CASE EndTurnCleared
  BY <1>8, EndClearedKeeps
<1>9. CASE HearingDrops
  BY <1>9, DropsKeeps
<1>10. ASSUME NEW c \in ChatLines, ChatLine(c) PROVE TalkInv'
  BY <1>10, ChatKeeps
<1>11. ASSUME NEW t \in TaskLines, DelegationDone(t) PROVE TalkInv'
  BY <1>11, TaskDoneKeeps
<1>12. ASSUME NEW t \in TaskLines, NEW r \in DOMAIN talk.replies, Delegate(r, t) PROVE TalkInv'
  BY <1>12, DelegateKeeps
<1>13. CASE TakeLine
  BY <1>13, TakeLineKeeps
<1>14. CASE AnswerLine
  BY <1>14, AnswerLineKeeps
<1>15. CASE AnswerIsOver
  BY <1>15, AnswerOverKeeps
<1>16. CASE Greet
  BY <1>16, GreetKeeps
<1>17. ASSUME NEW r \in DOMAIN talk.replies, Act(r) \/ EndReply(r) \/ ReplyFails(r) \/ ReplyCancelled(r) PROVE TalkInv'
  BY <1>17, ActKeeps, EndReplyKeeps, FailsKeeps, CancelledKeeps
<1> QED
  BY <1>1, <1>2, <1>3, <1>4, <1>5, <1>6, <1>7, <1>8, <1>9, <1>10, <1>11, <1>12, <1>13, <1>14, <1>15, <1>16, <1>17
     DEF TalkNext

(* A line is where LinesAreKept wants it. *)
LEMMA KeptInPlace == TalkInv => LinesAreKept
<1> SUFFICES ASSUME TalkInv, ~talk.slipped PROVE LinesAreKept
  BY DEF LinesAreKept
<1>1. /\ TalkState(talk) /\ RestTyped /\ Sound(talk, ear, Waiting, Said)
      /\ InOrder(talk.replies, talk.reply)
      /\ Placed(talk.heard, talk.recalled, Doing(talk), talk.over, Waiting \cup Held(ear), Said)
  BY DEF TalkInv, TalkGood, Sound
<1>2. /\ talk.reply \in DOMAIN talk.replies \cup {0} /\ 0 \notin DOMAIN talk.replies
      /\ \A r \in Answering : r # 0 /\ r = talk.reply
  <2>1. talk.reply \in DOMAIN talk.replies \cup {0} /\ 0 \notin DOMAIN talk.replies
    BY <1>1, TalkFields
  <2> QED
    BY <1>1, <2>1 DEF Answering, Unfinished, InOrder
<1>3. \A r \in Answering : talk.replies[r].lines = Doing(talk)
  BY <1>2 DEF Doing
<1>4. ASSUME NEW l \in Lines, sentLines[l] = "heard"
      PROVE  \/ l \in ToSet(lineQueue) \cup (UNION ToSet(talk.heard)) \cup talk.recalled \cup talk.over
             \/ l \in {ear.line, hand.line}
             \/ \E r \in Answering : l \in talk.replies[r].lines
  <2>1. l \in Said
    BY <1>4 DEF Said
  <2> DEFINE queued == ToSet(lineQueue)
             context == UNION ToSet(talk.heard)
             answered == \E r \in Answering : l \in talk.replies[r].lines
  <2>2. l \in Doing(talk) => answered
    <3>1. l \in Doing(talk) => talk.reply \in Answering /\ l \in talk.replies[talk.reply].lines
      BY DEF Doing, Answering
    <3> QED
      BY <3>1
  <2>3. Among(talk.heard, l) => l \in context
    BY DEF Among, ToSet
  <2>4. l \in Waiting \cup Held(ear) => l \in queued \/ l \in {ear.line, hand.line}
    BY DEF Waiting, Held
  <2>5. l \in Waiting \cup Held(ear) \/ l \in talk.recalled \/ l \in Doing(talk) \/ l \in talk.over \/ Among(talk.heard, l)
    BY <1>1, <2>1 DEF Placed
  <2> HIDE DEF queued, context, answered
  <2>6. l \in queued \cup context \cup talk.recalled \cup talk.over \/ l \in {ear.line, hand.line} \/ answered
    BY <2>2, <2>3, <2>4, <2>5
  <2> QED
    BY <2>6 DEF queued, context, answered
<1>5. ASSUME NEW i \in DOMAIN talk.heard
      PROVE  /\ talk.heard[i] \cap talk.recalled = {}
             /\ \A j \in DOMAIN talk.heard : i # j => talk.heard[i] \cap talk.heard[j] = {}
             /\ talk.heard[i] \cap Doing(talk) = {}
  BY <1>1, <1>5 DEF Placed
<1>6. Doing(talk) \cap talk.recalled = {}
  BY <1>1 DEF Placed
<1> QED
  BY <1>3, <1>4, <1>5, <1>6 DEF LinesAreKept

(* TalkInv is an invariant of the specification.                            *)
LEMMA TalkIsInductive == TalkSpec => []TalkInv
<1>1. TalkInit => TalkInv
  BY TalkAtFirst
<1>2. TalkInv /\ [TalkNext]_talkVars => TalkInv'
  BY TalkStep
<1> QED
  BY <1>1, <1>2, PTL DEF TalkSpec

(* Two slips aside, every line said in a huddle, typed in its thread or     *)
(* brought back by a task is in one place: waiting in the queue or with the *)
(* worker, heard as context, being answered, or in the history, or let go   *)
(* of as the oldest context, a turn cut off or a failed reply's prompt.  A  *)
(* speculative reply, however it races interruptions and the trimming of    *)
(* the context, neither drops a line nor answers it twice.                  *)
THEOREM EveryLineIsKept == TalkSpec => []LinesAreKept
BY TalkIsInductive, KeptInPlace, PTL
==============================================================================
