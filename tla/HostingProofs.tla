---------------------------- MODULE HostingProofs ----------------------------
(***************************************************************************)
(* The queue of the re-authorization hosting, for every set of accounts,   *)
(* every listing and selection and any number of starts and restarts: no   *)
(* account is lost, counted twice or started twice, and the settings row   *)
(* is what a restart can go on from.                                       *)
(***************************************************************************)
EXTENDS Hosting, FiniteSetTheorems, SequenceTheorems, WellFoundedInduction, TLAPS

(* What is not the queue's own. *)
Around ==
  /\ excluded \subseteq Accounts /\ started \subseteq Accounts
  /\ task \in Live \union {"none", "closing"}
  /\ down \in BOOLEAN /\ hosted \in BOOLEAN /\ taken \in BOOLEAN /\ ready \in BOOLEAN
  /\ starting \in 0 .. starts /\ starts \in 0 .. MaxStarts

(* A queue without repetitions; an account is at hand only while it goes.  *)
IsState(s) ==
  /\ s \in StateType /\ IsInjective(s.pending)
  /\ s.status \notin Active => s.current = NoAccount
Queue ==
  /\ IsState(state) /\ IsState(saved)
  /\ loop \in {"off", "load", "wait"} /\ stray \in BOOLEAN /\ mixed \in BOOLEAN
  /\ hand \in Accounts \union {NoAccount} /\ (hand = NoAccount <=> loop = "off")
  /\ loop # "wait" => state.current = NoAccount
  /\ loop = "load" /\ ~stray => state.status \in Going \union {"stopped"}
  /\ stray => mixed

(* While the account's details are loaded, the queue has not been stopped. *)
Saved ==
  \/ saved = state \/ down
  \/ /\ loop = "load" /\ state.status \in Going
     /\ saved = [state EXCEPT !.pending = <<hand>> \o @]

(* Each account is counted, queued or at hand, in the memory, as long as   *)
(* the loop or the service lives, and in the settings row.                 *)
Counts(s) == s.status \in Active \union {"completed"}
Counted(s, more) == Counts(s) => processedCount(s) + Len(s.pending) + more = s.total
AddUp ==
  ~mixed =>
    /\ loop # "off" \/ ~down => Counted(state, IF loop = "off" THEN 0 ELSE 1)
    /\ Counted(saved, IF saved.current = NoAccount THEN 0 ELSE 1)

(* What has been started is neither queued nor loaded. *)
Fresh(s) == \A a \in started : a \notin Range(s.pending)
Once ==
  /\ Fresh(state) /\ Fresh(saved)
  /\ loop = "load" /\ ~stray => hand \notin started /\ hand \notin Range(state.pending)

IInv == Around /\ Queue /\ Saved /\ AddUp /\ Once /\ HostedTaskIsWatched

----------------------------------------------------------------------------
(* A set of natural numbers has a least element. *)
LEMMA Least == ASSUME NEW S \in SUBSET Nat, S # {} PROVE \E x \in S : \A y \in S : x <= y
<1> DEFINE lt == {ss \in Nat \X Nat : ss[1] < ss[2]}
<1>1. IsWellFoundedOn(lt, Nat) BY NatLessThanWellFounded DEF OpToRel
<1>2. PICK x \in S : \A y \in S : <<y, x>> \notin lt
  <2> HIDE DEF lt
  <2> QED BY <1>1, WFMin
<1>3. ASSUME NEW y \in S PROVE x <= y
  <2>1. x \in Nat /\ y \in Nat /\ (y < x => <<y, x>> \in lt) OBVIOUS
  <2>2. ~(y < x) BY <2>1, <1>2
  <2> HIDE DEF lt
  <2> QED BY <2>1, <2>2
<1> QED BY <1>3

(* A set of numbers up to a bound has a greatest element. *)
LEMMA Greatest ==
  ASSUME NEW b \in Nat, NEW S \in SUBSET (0 .. b), S # {}
  PROVE  \E x \in S : \A y \in S : y <= x
<1> DEFINE T == {b - y : y \in S}
<1>1. T \in SUBSET Nat /\ T # {}
  <2>1. \A y \in S : y \in 0 .. b OBVIOUS
  <2>2. \A y \in S : b - y \in Nat BY <2>1
  <2>3. PICK y \in S : TRUE OBVIOUS
  <2>4. b - y \in T OBVIOUS
  <2> QED BY <2>2, <2>4
<1>2. PICK z \in T : \A y \in T : z <= y
  <2> HIDE DEF T
  <2> QED BY <1>1, Least
<1>3. PICK x \in S : z = b - x OBVIOUS
<1>4. ASSUME NEW y \in S PROVE y <= x
  <2>1. b - y \in T OBVIOUS
  <2>2. b - x <= b - y BY <1>2, <1>3, <2>1
  <2>3. x \in 0 .. b /\ y \in 0 .. b OBVIOUS
  <2> QED BY <2>2, <2>3
<1> QED BY <1>4

(* The parts of a state. *)
LEMMA StateParts ==
  ASSUME NEW s \in StateType
  PROVE  /\ s = [status |-> s.status, pending |-> s.pending, current |-> s.current, total |-> s.total,
                 completed |-> s.completed, failed |-> s.failed, banned |-> s.banned,
                 skipped |-> s.skipped]
         /\ s.status \in Active \union {"idle", "stopped", "completed"}
         /\ s.pending \in Seq(Accounts) /\ s.current \in Accounts \union {NoAccount} /\ s.total \in Nat
         /\ s.completed \in Nat /\ s.failed \in Nat /\ s.banned \in Nat /\ s.skipped \in Nat
         /\ Len(s.pending) \in Nat /\ DOMAIN s.pending = 1 .. Len(s.pending)
         /\ s.pending = <<>> <=> Len(s.pending) = 0
<1>1. s.pending \in Seq(Accounts) BY DEF StateType
<1>2. Len(s.pending) \in Nat /\ DOMAIN s.pending = 1 .. Len(s.pending) BY <1>1, LenProperties
<1>3. s.pending = <<>> <=> Len(s.pending) = 0 BY <1>1, EmptySeq
<1> QED BY <1>1, <1>2, <1>3 DEF StateType

(* What the loop passes over is counted as skipped, and the rest of the    *)
(* queue keeps its order (Pass).                                           *)
LEMMA Passes ==
  ASSUME NEW s \in StateType, IsInjective(s.pending), NEW ex
  PROVE  LET p == Pass(s, ex)
         IN /\ p \in StateType /\ IsInjective(p.pending)
            /\ p.status = s.status /\ p.current = s.current /\ p.total = s.total
            /\ Range(p.pending) \subseteq Range(s.pending)
            /\ processedCount(p) + Len(p.pending) = processedCount(s) + Len(s.pending)
<1> DEFINE L == Len(s.pending)
           passed == {n \in 0 .. L : \A i \in 1 .. n : s.pending[i] \in ex}
           n == CHOOSE m \in passed : \A k \in passed : k <= m
           q == SubSeq(s.pending, n + 1, L)
           p == Pass(s, ex)
<1>1. L \in Nat /\ s.pending \in Seq(Accounts) /\ DOMAIN s.pending = 1 .. L BY StateParts
<1>2. n \in 0 .. L
  <2>1. passed \in SUBSET (0 .. L) /\ 0 \in passed BY <1>1
  <2>2. passed # {} BY <2>1
  <2>3. \E m \in passed : \A k \in passed : k <= m
    <3> HIDE DEF passed, L
    <3> QED BY <1>1, <2>1, <2>2, Greatest
  <2>4. n \in passed
    <3> HIDE DEF passed
    <3> QED BY <2>3
  <2> QED BY <2>1, <2>4
<1> HIDE DEF n
<1>3. \A i \in 1 .. L : s.pending[i] \in Accounts BY <1>1, ElementOfSeq
<1>4. /\ q \in Seq(Accounts) /\ Len(q) = L - n /\ DOMAIN q = 1 .. (L - n)
      /\ \A i \in 1 .. (L - n) : q[i] = s.pending[n + i]
  <2>1. n + 1 \in Int /\ L \in Int /\ \A i \in (n + 1) .. L : s.pending[i] \in Accounts
    BY <1>1, <1>2, <1>3
  <2>2. /\ q \in Seq(Accounts) /\ Len(q) = (IF n + 1 <= L THEN L - (n + 1) + 1 ELSE 0)
        /\ \A i \in 1 .. (L - (n + 1) + 1) : q[i] = s.pending[(n + 1) + i - 1]
    BY <2>1, SubSeqProperties
  <2>3. Len(q) = L - n BY <1>1, <1>2, <2>2
  <2>4. DOMAIN q = 1 .. Len(q) BY <2>2, LenProperties
  <2>5. \A i \in 1 .. (L - n) : q[i] = s.pending[n + i]
    <3> TAKE i \in 1 .. (L - n)
    <3>1. i \in 1 .. (L - (n + 1) + 1) /\ (n + 1) + i - 1 = n + i BY <1>1, <1>2
    <3> QED BY <2>2, <3>1
  <2> QED BY <2>2, <2>3, <2>4, <2>5
<1>5. p = [s EXCEPT !.pending = q, !.skipped = @ + n] BY DEF Pass, n
<1> HIDE DEF q, p
<1>6. /\ p.pending = q /\ p.skipped = s.skipped + n /\ p.status = s.status /\ p.current = s.current
      /\ p.total = s.total /\ p.completed = s.completed /\ p.failed = s.failed /\ p.banned = s.banned
  BY <1>5, StateParts
<1>7. p \in StateType
  <2>1. s.skipped + n \in Nat /\ q \in Seq(Accounts) BY <1>1, <1>2, <1>4, StateParts
  <2> QED BY <1>5, <2>1 DEF StateType
<1>8. IsInjective(q)
  <2> SUFFICES ASSUME NEW a \in 1 .. (L - n), NEW b \in 1 .. (L - n), q[a] = q[b] PROVE a = b
    BY <1>4 DEF IsInjective
  <2>1. s.pending[n + a] = s.pending[n + b] /\ n + a \in 1 .. L /\ n + b \in 1 .. L
    BY <1>1, <1>2, <1>4
  <2>2. n + a = n + b BY <1>1, <2>1 DEF IsInjective
  <2> QED BY <1>1, <1>2, <2>2
<1>9. Range(q) \subseteq Range(s.pending)
  <2>1. \A i \in 1 .. (L - n) : n + i \in 1 .. L BY <1>1, <1>2
  <2> QED BY <1>1, <1>4, <2>1 DEF Range
<1>10. processedCount(p) + Len(q) = processedCount(s) + L
  <2>1. s.completed \in Nat /\ s.failed \in Nat /\ s.banned \in Nat /\ s.skipped \in Nat BY StateParts
  <2> HIDE DEF L
  <2> QED BY <1>1, <1>2, <1>4, <1>6, <2>1 DEF processedCount
<1> QED BY <1>6, <1>7, <1>8, <1>9, <1>10 DEF p

(* A queue is made without repetitions from the accounts that are named    *)
(* (eligibleIds): the kept places of the request are counted from the left.*)
LEMMA Ranks ==
  ASSUME NEW L \in Nat, NEW kept \in SUBSET (1 .. L), NEW k \in 1 .. Cardinality(kept)
  PROVE  \E i \in kept : Cardinality({j \in kept : j < i}) = k - 1
<1> DEFINE Left(i) == {j \in kept : j < i}
           S == {i \in 1 .. (L + 1) : Cardinality(Left(i)) >= k}
<1>1. IsFiniteSet(kept)
  <2>1. 1 \in Int /\ L \in Int OBVIOUS
  <2>2. IsFiniteSet(1 .. L) BY <2>1, FS_Interval
  <2> QED BY <2>2, FS_Subset
<1>13. \A j \in kept : j \in Nat /\ 1 <= j /\ j <= L OBVIOUS
<1>2. \A i : IsFiniteSet(Left(i)) /\ Cardinality(Left(i)) \in Nat
  <2> TAKE i
  <2>1. Left(i) \subseteq kept OBVIOUS
  <2> QED BY <1>1, <2>1, FS_Subset, FS_CardinalityType
<1>3. Cardinality(kept) \in Nat /\ k \in Nat /\ k >= 1 BY <1>1, FS_CardinalityType
<1>4. S # {}
  <2>1. Left(L + 1) = kept
    <3>1. \A j \in kept : j < L + 1 BY <1>13
    <3> QED BY <3>1
  <2>2. L + 1 \in 1 .. (L + 1) OBVIOUS
  <2>3. Cardinality(Left(L + 1)) >= k BY <1>3, <2>1
  <2> HIDE DEF Left
  <2> QED BY <2>2, <2>3
<1>5. PICK i \in S : \A j \in S : i <= j
  <2>1. S \in SUBSET Nat
    <3>1. 1 .. (L + 1) \subseteq Nat OBVIOUS
    <3> QED BY <3>1
  <2> HIDE DEF S
  <2> QED BY <1>4, <2>1, Least
<1>6. i # 1
  <2>1. Left(1) = {}
    <3>1. \A j \in kept : ~(j < 1) BY <1>13
    <3> QED BY <3>1
  <2>2. Cardinality(Left(1)) = 0 BY <2>1, FS_EmptySet
  <2> HIDE DEF Left
  <2> QED BY <1>3, <2>2
<1>7. i \in 1 .. (L + 1) /\ i - 1 \in 1 .. (L + 1) /\ i - 1 < i /\ Cardinality(Left(i)) >= k
  <2> HIDE DEF Left
  <2> QED BY <1>6
<1>8. Cardinality(Left(i - 1)) < k
  <2>1. i - 1 \notin S
    <3> HIDE DEF S
    <3> QED BY <1>5, <1>7
  <2> HIDE DEF Left
  <2> QED BY <1>2, <1>3, <1>7, <2>1
<1>9. i - 1 \in kept
  <2> SUFFICES ASSUME i - 1 \notin kept PROVE FALSE
    OBVIOUS
  <2>1. \A j \in kept : j < i <=> j < i - 1 BY <1>7, <1>13
  <2>2. Left(i) = Left(i - 1) BY <2>1
  <2> HIDE DEF Left
  <2> QED BY <1>2, <1>3, <1>7, <1>8, <2>2
<1>10. Left(i) = Left(i - 1) \union {i - 1} /\ i - 1 \notin Left(i - 1)
  <2>1. \A j \in kept : j < i <=> j < i - 1 \/ j = i - 1 BY <1>7, <1>13
  <2>2. i - 1 < i /\ ~(i - 1 < i - 1) BY <1>7
  <2> QED BY <1>9, <2>1, <2>2
<1>11. Cardinality(Left(i)) = Cardinality(Left(i - 1)) + 1
  <2> HIDE DEF Left
  <2> QED BY <1>2, <1>10, FS_AddElement
<1>12. Cardinality(Left(i - 1)) = k - 1
  <2> HIDE DEF Left
  <2> QED BY <1>2, <1>3, <1>7, <1>8, <1>11
<1> QED BY <1>9, <1>12

(* The ids of a request that make the queue are accounts, each of them     *)
(* once (eligibleIds).                                                     *)
LEMMA Eligible ==
  ASSUME NEW ids \in Seq(Accounts)
  PROVE  EligibleIds(ids) \in Seq(Accounts) /\ IsInjective(EligibleIds(ids))
<1> DEFINE L == Len(ids)
           once == {i \in 1 .. L : \A j \in 1 .. i - 1 : ids[j] # ids[i]}
           kept == {i \in once : ids[i] \notin excluded}
           n == Cardinality(kept)
           At(k) == CHOOSE i \in kept : Cardinality({j \in kept : j < i}) = k - 1
           queue == EligibleIds(ids)
<1>1. L \in Nat /\ \A i \in 1 .. L : ids[i] \in Accounts BY LenProperties, ElementOfSeq
<1>2. kept \in SUBSET (1 .. L) OBVIOUS
<1>3. n \in Nat
  <2> HIDE DEF kept
  <2>1. 1 \in Int /\ L \in Int BY <1>1
  <2>2. IsFiniteSet(1 .. L) BY <2>1, FS_Interval
  <2>3. IsFiniteSet(kept) BY <1>2, <2>2, FS_Subset
  <2> QED BY <2>3, FS_CardinalityType
<1>4. ASSUME NEW k \in 1 .. n
      PROVE  At(k) \in kept /\ Cardinality({j \in kept : j < At(k)}) = k - 1
  <2>1. \E i \in kept : Cardinality({j \in kept : j < i}) = k - 1
    <3> HIDE DEF kept, L
    <3> QED BY <1>1, <1>2, Ranks
  <2> HIDE DEF kept
  <2> QED BY <2>1
<1>5. queue = [k \in 1 .. n |-> ids[At(k)]] BY DEF EligibleIds
<1> HIDE DEF At, queue
<1>6. \A k \in 1 .. n : ids[At(k)] \in Accounts BY <1>1, <1>4
<1>7. queue \in Seq(Accounts)
  <2> HIDE DEF n
  <2>1. queue \in [1 .. n -> Accounts] BY <1>5, <1>6
  <2> QED BY <1>3, <2>1
<1>8. ASSUME NEW a \in 1 .. n, NEW b \in 1 .. n, ids[At(a)] = ids[At(b)] PROVE a = b
  <2>1. /\ At(a) \in once /\ At(b) \in once /\ At(a) \in 1 .. L /\ At(b) \in 1 .. L
    BY <1>4
  <2>2. At(a) = At(b)
    <3>1. ~(At(a) < At(b))
      <4>1. At(a) < At(b) => At(a) \in 1 .. At(b) - 1 BY <1>1, <2>1
      <4> QED BY <1>8, <2>1, <4>1
    <3>2. ~(At(b) < At(a))
      <4>1. At(b) < At(a) => At(b) \in 1 .. At(a) - 1 BY <1>1, <2>1
      <4> QED BY <1>8, <2>1, <4>1
    <3> HIDE DEF once, kept
    <3> QED BY <1>1, <2>1, <3>1, <3>2
  <2>3. a - 1 = b - 1
    <3> HIDE DEF kept, n
    <3> QED BY <1>4, <2>2
  <2>4. a \in Nat /\ b \in Nat
    <3> HIDE DEF n
    <3> QED BY <1>3
  <2> QED BY <2>3, <2>4
<1>9. IsInjective(queue)
  <2> HIDE DEF n
  <2> QED BY <1>5, <1>8 DEF IsInjective
<1> QED BY <1>7, <1>9 DEF queue

----------------------------------------------------------------------------
(* What Run leaves behind: the settings row has the queue, the memory has  *)
(* it without the account that is being loaded (Run).                      *)
LEMMA Runs ==
  ASSUME NEW s \in StateType, IsInjective(s.pending), s.current = NoAccount, NEW ex, Run(s, ex)
  PROVE  /\ IsState(state') /\ IsState(saved') /\ state'.current = NoAccount /\ saved'.current = NoAccount
         /\ stray' = FALSE
         /\ Range(state'.pending) \subseteq Range(s.pending)
         /\ Range(saved'.pending) \subseteq Range(s.pending)
         /\ Counted(s, 0) => /\ Counted(saved', 0)
                             /\ Counted(state', IF loop' = "off" THEN 0 ELSE 1)
         /\ \/ /\ loop' = "off" /\ hand' = NoAccount /\ saved' = state'
            \/ /\ loop' = "load" /\ hand' \in Accounts /\ state'.status \in Going
               /\ saved' = [state' EXCEPT !.pending = <<hand'>> \o @]
               /\ hand' \in Range(s.pending) /\ hand' \notin Range(state'.pending)
<1> DEFINE p == Pass(s, ex)
           end == CASE s.status \in Going -> [p EXCEPT !.status = "completed"]
                    [] s.status = "stopping" /\ s.current = NoAccount -> finishStop(s)
                    [] OTHER -> s
<1>1. /\ p \in StateType /\ IsInjective(p.pending)
      /\ p.status = s.status /\ p.current = NoAccount /\ p.total = s.total
      /\ Range(p.pending) \subseteq Range(s.pending)
      /\ processedCount(p) + Len(p.pending) = processedCount(s) + Len(s.pending)
  BY Passes
<1>2. stray' = FALSE BY DEF Run
<1>3. Going \subseteq Active /\ "completed" \notin Active /\ "stopped" \notin Active /\ "completed" \notin Going
  BY DEF Going, Active
<1>4. CASE s.status \in Going /\ p.pending # <<>>
  <2>1. /\ state' = [p EXCEPT !.pending = Tail(@)] /\ saved' = p
        /\ loop' = "load" /\ hand' = Head(p.pending)
    BY <1>4 DEF Run
  <2> HIDE DEF p
  <2> DEFINE q == p.pending
             L == Len(q)
  <2>2. q \in Seq(Accounts) /\ L \in Nat /\ L # 0 /\ DOMAIN q = 1 .. L BY <1>1, <1>4, StateParts
  <2>3. /\ Head(q) = q[1] /\ Tail(q) \in Seq(Accounts) /\ Len(Tail(q)) = L - 1
        /\ DOMAIN Tail(q) = 1 .. (L - 1) /\ \A i \in 1 .. (L - 1) : Tail(q)[i] = q[i + 1]
    <3>1. /\ Head(q) \in Accounts /\ Tail(q) \in Seq(Accounts) /\ Len(Tail(q)) = L - 1
          /\ \A i \in 1 .. Len(Tail(q)) : Tail(q)[i] = q[i + 1]
      BY <1>4, <2>2, HeadTailProperties
    <3>2. Head(q) = q[1] BY <2>2
    <3>3. DOMAIN Tail(q) = 1 .. Len(Tail(q)) BY <3>1, LenProperties
    <3> QED BY <3>1, <3>2, <3>3
  <2>4. /\ state'.pending = Tail(q) /\ state'.status = s.status /\ state'.current = NoAccount
        /\ state'.total = s.total /\ processedCount(state') = processedCount(p)
    BY <1>1, <2>1, StateParts DEF processedCount
  <2>5. state' \in StateType BY <1>1, <2>1, <2>3 DEF StateType
  <2>6. IsInjective(Tail(q))
    <3> SUFFICES ASSUME NEW a \in 1 .. (L - 1), NEW b \in 1 .. (L - 1), Tail(q)[a] = Tail(q)[b]
                 PROVE  a = b
      BY <2>3 DEF IsInjective
    <3>1. q[a + 1] = q[b + 1] BY <2>3
    <3>2. a + 1 \in 1 .. L /\ b + 1 \in 1 .. L BY <2>2
    <3>3. a + 1 = b + 1 BY <1>1, <2>2, <3>1, <3>2 DEF IsInjective
    <3> QED BY <3>3
  <2>7. 1 \in 1 .. L /\ hand' = q[1] BY <2>1, <2>2, <2>3
  <2>8. hand' \in Range(q) /\ hand' \in Accounts
    BY <2>2, <2>7, ElementOfSeq DEF Range
  <2>9. hand' \notin Range(Tail(q))
    <3> SUFFICES ASSUME NEW i \in 1 .. (L - 1), Tail(q)[i] = q[1] PROVE FALSE
      BY <2>3, <2>7 DEF Range
    <3>1. q[i + 1] = q[1] /\ i + 1 \in 1 .. L /\ i + 1 # 1 BY <2>2, <2>3
    <3> QED BY <1>1, <2>2, <2>7, <3>1 DEF IsInjective
  <2>10. Range(Tail(q)) \subseteq Range(q)
    <3>1. \A i \in 1 .. (L - 1) : i + 1 \in 1 .. L BY <2>2
    <3> QED BY <2>2, <2>3, <3>1 DEF Range
  <2>11. saved' = [state' EXCEPT !.pending = <<hand'>> \o @]
    <3>1. <<hand'>> \o Tail(q) = q
      <4> DEFINE h == <<hand'>>
                 c == h \o Tail(q)
      <4>1. h \in Seq(Accounts) /\ Len(h) = 1 /\ h[1] = q[1] BY <2>7, <2>8
      <4> HIDE DEF h
      <4>2. /\ c \in Seq(Accounts) /\ Len(c) = 1 + (L - 1)
            /\ \A i \in 1 .. (1 + (L - 1)) : c[i] = IF i <= 1 THEN h[i] ELSE Tail(q)[i - 1]
        BY <2>3, <4>1, ConcatProperties
      <4> HIDE DEF c
      <4>3. Len(c) = Len(q) BY <2>2, <4>2
      <4>4. \A i \in 1 .. Len(c) : c[i] = q[i]
        <5> TAKE i \in 1 .. Len(c)
        <5>1. i \in 1 .. (1 + (L - 1)) BY <4>2
        <5>2. CASE i <= 1
          <6>1. i = 1 BY <5>1, <5>2, <2>2
          <6> QED BY <4>1, <4>2, <5>1, <6>1
        <5>3. CASE ~(i <= 1)
          <6>1. i - 1 \in 1 .. (L - 1) /\ (i - 1) + 1 = i BY <2>2, <5>1, <5>3
          <6>2. c[i] = Tail(q)[i - 1] BY <4>2, <5>1, <5>3
          <6> QED BY <2>3, <6>1, <6>2
        <5> QED BY <5>2, <5>3
      <4>5. c = q BY <2>2, <4>2, <4>3, <4>4, SeqEqual
      <4> QED BY <4>5 DEF c, h
    <3>2. state'.pending = Tail(q) BY <2>4
    <3> DEFINE u == [state' EXCEPT !.pending = <<hand'>> \o @]
    <3>3. /\ state'.status = p.status /\ state'.current = p.current /\ state'.total = p.total
          /\ state'.completed = p.completed /\ state'.failed = p.failed /\ state'.banned = p.banned
          /\ state'.skipped = p.skipped
      BY <1>1, <2>1, StateParts
    <3>4. u = [status |-> p.status, pending |-> q, current |-> p.current, total |-> p.total,
               completed |-> p.completed, failed |-> p.failed, banned |-> p.banned,
               skipped |-> p.skipped]
      <4>1. u = [state' EXCEPT !.pending = q] BY <3>1, <3>2
      <4> HIDE DEF u, q
      <4> QED BY <2>5, <3>3, <4>1, StateParts
    <3>5. p = u
      <4> HIDE DEF u
      <4> QED BY <1>1, <3>4, StateParts
    <3> QED BY <2>1, <3>5
  <2>12. ASSUME Counted(s, 0) PROVE processedCount(p) + L = s.total
    <3>1. processedCount(s) + Len(s.pending) + 0 = s.total BY <1>3, <1>4, <2>12 DEF Counted, Counts
    <3>2. processedCount(s) \in Nat /\ Len(s.pending) \in Nat BY StateParts DEF processedCount
    <3> QED BY <1>1, <3>1, <3>2
  <2>13. Counted(s, 0) => Counted(saved', 0) /\ Counted(state', IF loop' = "off" THEN 0 ELSE 1)
    <3>1. processedCount(p) \in Nat BY <1>1, StateParts DEF processedCount
    <3> QED BY <1>1, <2>1, <2>2, <2>3, <2>4, <2>12, <3>1 DEF Counted
  <2> QED BY <1>1, <1>2, <1>3, <1>4, <2>1, <2>4, <2>5, <2>6, <2>8, <2>9, <2>10, <2>11, <2>13 DEF IsState
<1>5. CASE ~(s.status \in Going /\ p.pending # <<>>)
  <2>1. state' = end /\ saved' = end /\ loop' = "off" /\ hand' = NoAccount BY <1>5 DEF Run
  <2>2. /\ IsState(end) /\ end.current = NoAccount /\ Range(end.pending) \subseteq Range(s.pending)
        /\ Counted(s, 0) => Counted(end, 0)
    <3>1. CASE s.status \in Going
      <4>6. p.pending = <<>> BY <1>5, <3>1
      <4>7. end = [p EXCEPT !.status = "completed"]
        <5> HIDE DEF p
        <5> QED BY <3>1 DEF Going
      <4>1. end = [p EXCEPT !.status = "completed"] /\ p.pending = <<>> BY <4>6, <4>7
      <4> HIDE DEF p, end
      <4>2. /\ end.status = "completed" /\ end.pending = p.pending /\ end.current = NoAccount
            /\ end.total = p.total /\ processedCount(end) = processedCount(p)
        BY <1>1, <4>1, StateParts DEF processedCount
      <4>3. end \in StateType BY <1>1, <4>1 DEF StateType
      <4>4. ASSUME Counted(s, 0) PROVE processedCount(p) + Len(p.pending) = s.total
        <5>1. processedCount(s) + Len(s.pending) + 0 = s.total BY <1>3, <3>1, <4>4 DEF Counted, Counts
        <5>2. processedCount(s) \in Nat /\ Len(s.pending) \in Nat BY StateParts DEF processedCount
        <5> QED BY <1>1, <5>1, <5>2
      <4>5. processedCount(p) \in Nat /\ Len(p.pending) \in Nat BY <1>1, StateParts DEF processedCount
      <4> QED BY <1>1, <4>2, <4>3, <4>4, <4>5 DEF IsState, Counted
    <3>2. CASE s.status = "stopping"
      <4>1. end = finishStop(s) BY <3>2 DEF Going
      <4> HIDE DEF end
      <4>2. end.status = "stopped" /\ end.pending = <<>> /\ end.current = NoAccount
        BY <4>1, StateParts DEF finishStop
      <4>3. end \in StateType BY <4>1, EmptySeq DEF finishStop, StateType
      <4>4. IsInjective(<<>>) /\ Range(<<>>) = {} BY DEF IsInjective, Range
      <4>5. ~Counts(end) BY <4>2 DEF Counts, Active, Going
      <4> QED BY <4>2, <4>3, <4>4, <4>5 DEF IsState, Counted
    <3>3. CASE s.status \notin Going /\ s.status # "stopping"
      <4>1. end = s BY <3>3
      <4> HIDE DEF end
      <4> QED BY <4>1 DEF IsState
    <3> QED BY <3>1, <3>2, <3>3
  <2> HIDE DEF end
  <2> QED BY <1>2, <2>1, <2>2
<1> QED BY <1>4, <1>5

(* The two queues and what has been started, as a step leaves them.        *)
LEMMA InvFromParts ==
  ASSUME Around', Queue', Saved', AddUp', Once', HostedTaskIsWatched'
  PROVE  IInv'
  BY DEF IInv

(* Once Run has been called with a queue in order, everything is.          *)
LEMMA RunKeeps ==
  ASSUME NEW s \in StateType, IsInjective(s.pending), s.current = NoAccount, NEW ex, Run(s, ex),
         Around', mixed' \in BOOLEAN, ~mixed' => Counted(s, 0),
         \A a \in started' : a \notin Range(s.pending),
         ~(hosted' /\ task' \in Live /\ ~down')
  PROVE  IInv'
<1>1. /\ IsState(state') /\ IsState(saved') /\ state'.current = NoAccount /\ saved'.current = NoAccount
      /\ stray' = FALSE
      /\ Range(state'.pending) \subseteq Range(s.pending)
      /\ Range(saved'.pending) \subseteq Range(s.pending)
      /\ Counted(s, 0) => /\ Counted(saved', 0)
                          /\ Counted(state', IF loop' = "off" THEN 0 ELSE 1)
      /\ \/ /\ loop' = "off" /\ hand' = NoAccount /\ saved' = state'
         \/ /\ loop' = "load" /\ hand' \in Accounts /\ state'.status \in Going
            /\ saved' = [state' EXCEPT !.pending = <<hand'>> \o @]
            /\ hand' \in Range(s.pending) /\ hand' \notin Range(state'.pending)
  BY Runs
<1>2. Queue' BY <1>1, AccountsAssumption DEF Queue
<1>3. Saved' BY <1>1 DEF Saved
<1>4. AddUp' BY <1>1 DEF AddUp
<1>5. Once' BY <1>1 DEF Once, Fresh
<1>6. HostedTaskIsWatched' BY DEF HostedTaskIsWatched
<1> QED BY <1>2, <1>3, <1>4, <1>5, <1>6, InvFromParts

(* A state that is made and persisted at once, by whoever does.            *)
LEMMA SaveKeeps ==
  ASSUME NEW s, IsState(s), Save(s), Queue, Once, AddUp,
         Around', mixed' = mixed, started' = started,
         Range(s.pending) \subseteq Range(state.pending),
         loop # "wait" => s.current = NoAccount,
         loop = "load" /\ ~stray => s.status \in Going \union {"stopped"},
         ~mixed => /\ loop # "off" \/ ~down' => Counted(s, IF loop = "off" THEN 0 ELSE 1)
                   /\ Counted(s, IF s.current = NoAccount THEN 0 ELSE 1),
         HostedTaskIsWatched'
  PROVE  IInv'
<1>1. state' = s /\ saved' = s /\ loop' = loop /\ hand' = hand /\ stray' = stray BY DEF Save
<1>2. Queue' BY <1>1 DEF Queue
<1>3. Saved' BY <1>1 DEF Saved
<1>4. AddUp' BY <1>1 DEF AddUp
<1>5. Once' BY <1>1 DEF Once, Fresh
<1> QED BY <1>2, <1>3, <1>4, <1>5, InvFromParts

(* A step that leaves the queue alone.                                     *)
LEMMA AloneKeeps ==
  ASSUME IInv, Around', UNCHANGED <<hostVars, historyVars, down>>, HostedTaskIsWatched'
  PROVE  IInv'
<1>1. /\ state' = state /\ saved' = saved /\ loop' = loop /\ hand' = hand /\ stray' = stray
      /\ mixed' = mixed /\ started' = started /\ down' = down
  BY DEF hostVars, historyVars
<1>2. Queue' BY <1>1 DEF IInv, Queue
<1>3. Saved' BY <1>1 DEF IInv, Saved
<1>4. AddUp' BY <1>1 DEF IInv, AddUp
<1>5. Once' BY <1>1 DEF IInv, Once, Fresh
<1> QED BY <1>2, <1>3, <1>4, <1>5, InvFromParts

(* A counter counts one.                                                   *)
LEMMA Counting ==
  ASSUME NEW s \in StateType, NEW counter \in Counters
  PROVE  LET c == Count(s, counter)
         IN /\ c \in StateType /\ c.pending = s.pending /\ c.status = s.status
            /\ c.current = s.current /\ c.total = s.total
            /\ processedCount(c) = processedCount(s) + 1 /\ processedCount(s) \in Nat
<1> DEFINE c == Count(s, counter)
<1> SUFFICES /\ c \in StateType /\ c.pending = s.pending /\ c.status = s.status
             /\ c.current = s.current /\ c.total = s.total
             /\ processedCount(c) = processedCount(s) + 1 /\ processedCount(s) \in Nat
  OBVIOUS
<1>1. /\ s.completed \in Nat /\ s.failed \in Nat /\ s.banned \in Nat /\ s.skipped \in Nat
      /\ processedCount(s) \in Nat
  BY StateParts DEF processedCount
<1>2. CASE counter = "completed"
  <2>1. c = [s EXCEPT !.completed = s.completed + 1] BY <1>2 DEF Count
  <2>2. s.completed + 1 \in Nat BY <1>1
  <2>3. c \in StateType BY <2>1, <2>2 DEF StateType
  <2> HIDE DEF c
  <2>4. /\ c.pending = s.pending /\ c.status = s.status /\ c.current = s.current /\ c.total = s.total
        /\ c.completed = s.completed + 1 /\ c.failed = s.failed /\ c.banned = s.banned /\ c.skipped = s.skipped
    BY <2>1, StateParts
  <2>5. processedCount(c) = processedCount(s) + 1 BY <1>1, <2>4 DEF processedCount
  <2> QED BY <1>1, <2>3, <2>4, <2>5
<1>3. CASE counter = "failed"
  <2>1. c = [s EXCEPT !.failed = s.failed + 1] BY <1>3 DEF Count
  <2>2. s.failed + 1 \in Nat BY <1>1
  <2>3. c \in StateType BY <2>1, <2>2 DEF StateType
  <2> HIDE DEF c
  <2>4. /\ c.pending = s.pending /\ c.status = s.status /\ c.current = s.current /\ c.total = s.total
        /\ c.failed = s.failed + 1 /\ c.completed = s.completed /\ c.banned = s.banned /\ c.skipped = s.skipped
    BY <2>1, StateParts
  <2>5. processedCount(c) = processedCount(s) + 1 BY <1>1, <2>4 DEF processedCount
  <2> QED BY <1>1, <2>3, <2>4, <2>5
<1>4. CASE counter = "banned"
  <2>1. c = [s EXCEPT !.banned = s.banned + 1] BY <1>4 DEF Count
  <2>2. s.banned + 1 \in Nat BY <1>1
  <2>3. c \in StateType BY <2>1, <2>2 DEF StateType
  <2> HIDE DEF c
  <2>4. /\ c.pending = s.pending /\ c.status = s.status /\ c.current = s.current /\ c.total = s.total
        /\ c.banned = s.banned + 1 /\ c.completed = s.completed /\ c.failed = s.failed /\ c.skipped = s.skipped
    BY <2>1, StateParts
  <2>5. processedCount(c) = processedCount(s) + 1 BY <1>1, <2>4 DEF processedCount
  <2> QED BY <1>1, <2>3, <2>4, <2>5
<1>5. CASE counter = "skipped"
  <2>1. c = [s EXCEPT !.skipped = s.skipped + 1] BY <1>5 DEF Count
  <2>2. s.skipped + 1 \in Nat BY <1>1
  <2>3. c \in StateType BY <2>1, <2>2 DEF StateType
  <2> HIDE DEF c
  <2>4. /\ c.pending = s.pending /\ c.status = s.status /\ c.current = s.current /\ c.total = s.total
        /\ c.skipped = s.skipped + 1 /\ c.completed = s.completed /\ c.failed = s.failed /\ c.banned = s.banned
    BY <2>1, StateParts
  <2>5. processedCount(c) = processedCount(s) + 1 BY <1>1, <2>4 DEF processedCount
  <2> QED BY <1>1, <2>3, <2>4, <2>5
<1> QED BY <1>2, <1>3, <1>4, <1>5 DEF Counters

(* A queue that has stopped is empty and has no account at hand.           *)
LEMMA Finishing ==
  ASSUME NEW s \in StateType
  PROVE  LET f == finishStop(s)
         IN /\ f \in StateType /\ f.status = "stopped" /\ f.pending = <<>> /\ f.current = NoAccount
            /\ IsState(f) /\ Range(f.pending) = {} /\ \A n : Counted(f, n)
<1> DEFINE f == finishStop(s)
<1>1. f.status = "stopped" /\ f.pending = <<>> /\ f.current = NoAccount BY StateParts DEF finishStop
<1>2. f \in StateType BY EmptySeq DEF finishStop, StateType
<1>3. IsInjective(<<>>) /\ Range(<<>>) = {} BY DEF IsInjective, Range
<1>4. ~Counts(f) BY <1>1 DEF Counts, Active, Going
<1> HIDE DEF f
<1>5. IsState(f) /\ \A n : Counted(f, n) BY <1>1, <1>2, <1>3, <1>4 DEF IsState, Counted
<1> QED BY <1>1, <1>2, <1>3, <1>5 DEF f

(* An account that is done is counted once, and none is at hand any more   *)
(* (completeCurrent).                                                      *)
LEMMA Completing ==
  ASSUME NEW s \in StateType, IsInjective(s.pending), NEW counter \in Counters
  PROVE  LET c == completeCurrent(s, counter)
         IN /\ c \in StateType /\ IsInjective(c.pending) /\ c.current = NoAccount
            /\ Range(c.pending) \subseteq Range(s.pending)
            /\ s.status \in Active /\ Counted(s, 1) => Counted(c, 0)
<1> DEFINE k == Count(s, counter)
           d == [k EXCEPT !.current = NoAccount]
           c == completeCurrent(s, counter)
<1> SUFFICES /\ c \in StateType /\ IsInjective(c.pending) /\ c.current = NoAccount
             /\ Range(c.pending) \subseteq Range(s.pending)
             /\ s.status \in Active /\ Counted(s, 1) => Counted(c, 0)
  OBVIOUS
<1>1. /\ k \in StateType /\ k.pending = s.pending /\ k.status = s.status /\ k.total = s.total
      /\ processedCount(k) = processedCount(s) + 1 /\ processedCount(s) \in Nat
  BY Counting
<1> HIDE DEF k
<1>2. d \in StateType BY <1>1 DEF StateType
<1>3. /\ d.pending = s.pending /\ d.status = s.status /\ d.total = s.total /\ d.current = NoAccount
      /\ processedCount(d) = processedCount(s) + 1
  BY <1>1, StateParts DEF processedCount
<1>4. c = IF s.status = "stopping" THEN finishStop(d) ELSE [d EXCEPT !.status = "running"]
  BY DEF completeCurrent, k
<1> HIDE DEF d, c
<1>5. CASE s.status = "stopping"
  <2>1. c = finishStop(d) BY <1>4, <1>5
  <2> QED BY <1>2, <2>1, Finishing DEF IsState
<1>6. CASE s.status # "stopping"
  <2>1. c = [d EXCEPT !.status = "running"] BY <1>4, <1>6
  <2>2. "running" \in Active BY DEF Active, Going
  <2>3. c \in StateType BY <1>2, <2>1, <2>2 DEF StateType
  <2>4. /\ c.pending = s.pending /\ c.total = s.total /\ c.current = NoAccount
        /\ processedCount(c) = processedCount(s) + 1
    BY <1>2, <1>3, <2>1, StateParts DEF processedCount
  <2>5. Len(s.pending) \in Nat BY StateParts
  <2>6. s.status \in Active /\ Counted(s, 1) => Counted(c, 0)
    BY <1>1, <2>4, <2>5 DEF Counted, Counts
  <2> QED BY <2>3, <2>4, <2>6
<1> QED BY <1>5, <1>6

----------------------------------------------------------------------------
(* At first nothing is queued, counted or at hand. *)
LEMMA Initially == Init => IInv
<1> SUFFICES ASSUME Init PROVE IInv
  OBVIOUS
<1>1. idleState \in StateType BY EmptySeq DEF idleState, StateType
<1>2. IsInjective(<<>>) /\ Range(<<>>) = {} BY DEF IsInjective, Range
<1>3. IsState(idleState) /\ idleState.current = NoAccount /\ idleState.pending = <<>>
  <2>1. idleState.current = NoAccount /\ idleState.pending = <<>> BY DEF idleState
  <2> QED BY <1>1, <1>2, <2>1 DEF IsState
<1>4. ~Counts(idleState) BY DEF Counts, idleState, Active, Going
<1>5. Around
  <2>1. 0 \in 0 .. 0 /\ 0 \in 0 .. MaxStarts BY BoundsAssumption
  <2> QED BY <2>1 DEF Init, Around
<1>6. Queue BY <1>3, AccountsAssumption DEF Init, Queue
<1>7. Saved BY DEF Init, Saved
<1>8. AddUp BY <1>4 DEF Init, AddUp, Counted
<1>9. Once BY DEF Init, Once, Fresh
<1>10. HostedTaskIsWatched BY DEF Init, HostedTaskIsWatched
<1> QED BY <1>5, <1>6, <1>7, <1>8, <1>9, <1>10 DEF IInv

(* The steps that leave the queue alone: requests that come and go, tasks  *)
(* of others, the slot that is freed, the session.                         *)
LEMMA AloneSteps ==
  ASSUME IInv,
         StartRequested \/ StartFails \/ SlotFreed \/ SessionRestored \/ OtherTaskStarts
           \/ (\E a \in Accounts : Exclude(a)) \/ UNCHANGED vars
  PROVE  IInv'
<1> USE DEF hostVars, historyVars, slotVars, boundVars
<1>1. Around /\ HostedTaskIsWatched BY DEF IInv
<1>2. CASE StartRequested
  <2>1. /\ UNCHANGED <<hostVars, historyVars, down>> /\ UNCHANGED <<excluded, task, hosted, taken, ready>>
        /\ starting' = starting + 1 /\ starts' = starts + 1 /\ starts < MaxStarts
    BY <1>2 DEF StartRequested, StartAllowed
  <2>2. Around' BY <1>1, <2>1, BoundsAssumption DEF Around
  <2>3. HostedTaskIsWatched' BY <1>1, <2>1 DEF HostedTaskIsWatched
  <2> QED BY <2>1, <2>2, <2>3, AloneKeeps
<1>3. CASE StartFails
  <2>1. /\ UNCHANGED <<hostVars, historyVars, down>> /\ UNCHANGED <<excluded, task, hosted, taken, ready>>
        /\ starting > 0 /\ starting' = starting - 1 /\ starts' = starts
    BY <1>3 DEF StartFails
  <2>2. Around' BY <1>1, <2>1, BoundsAssumption DEF Around
  <2>3. HostedTaskIsWatched' BY <1>1, <2>1 DEF HostedTaskIsWatched
  <2> QED BY <2>1, <2>2, <2>3, AloneKeeps
<1>4. CASE SlotFreed \/ SessionRestored \/ OtherTaskStarts
  <2>1. /\ UNCHANGED <<hostVars, historyVars, down>> /\ UNCHANGED <<excluded, starting, starts>>
        /\ task' \in {task, "none", "auto"} /\ hosted' \in {hosted, FALSE} /\ taken' \in {taken, FALSE}
        /\ ready' \in {ready, TRUE} /\ (task' = task \/ hosted' = FALSE)
    BY <1>4 DEF SlotFreed, SessionRestored, OtherTaskStarts
  <2>2. Around' BY <1>1, <2>1 DEF Around, Live, Cancellable
  <2>3. HostedTaskIsWatched' BY <1>1, <2>1 DEF HostedTaskIsWatched
  <2> QED BY <2>1, <2>2, <2>3, AloneKeeps
<1>5. CASE \E a \in Accounts : Exclude(a)
  <2>1. /\ UNCHANGED <<hostVars, historyVars, down>>
        /\ UNCHANGED <<task, hosted, taken, ready, starting, starts>>
    BY <1>5 DEF Exclude, endUnchanged
  <2>2. excluded' \subseteq Accounts BY <1>1, <1>5 DEF Exclude, Around
  <2>3. Around' BY <1>1, <2>1, <2>2 DEF Around
  <2>4. HostedTaskIsWatched' BY <1>1, <2>1 DEF HostedTaskIsWatched
  <2> QED BY <2>1, <2>3, <2>4, AloneKeeps
<1>6. CASE UNCHANGED vars
  <2>1. /\ UNCHANGED <<hostVars, historyVars, down>>
        /\ UNCHANGED <<excluded, task, hosted, taken, ready, starting, starts>>
    BY <1>6 DEF vars
  <2>2. Around' BY <1>1, <2>1 DEF Around
  <2>3. HostedTaskIsWatched' BY <1>1, <2>1 DEF HostedTaskIsWatched
  <2> QED BY <2>1, <2>2, <2>3, AloneKeeps
<1> QED BY <1>2, <1>3, <1>4, <1>5, <1>6

(* A new queue, beside a loop that is still there or with a loop of its    *)
(* own (start, startSelected).                                             *)
LEMMA BeginKeeps ==
  ASSUME IInv, NEW ids \in Seq(Accounts), Begin(ids), Around',
         UNCHANGED <<excluded, down, slotVars>>
  PROVE  IInv'
<1> DEFINE queue == EligibleIds(ids)
           fresh == [idleState EXCEPT !.status = "running", !.pending = queue, !.total = Len(queue)]
<1> USE DEF slotVars
<1>1. HostedTaskIsWatched BY DEF IInv
<1>2. queue \in Seq(Accounts) /\ IsInjective(queue) /\ Len(queue) \in Nat
  BY Eligible, LenProperties
<1> HIDE DEF queue
<1>3. /\ fresh \in StateType /\ fresh.pending = queue /\ fresh.current = NoAccount
      /\ fresh.status = "running" /\ "running" \in Active /\ processedCount(fresh) = 0 /\ fresh.total = Len(queue)
  <2>1. fresh = [status |-> "running", pending |-> queue, current |-> NoAccount, total |-> Len(queue),
                 completed |-> 0, failed |-> 0, banned |-> 0, skipped |-> 0]
    <3>1. idleState = [status |-> "idle", pending |-> << >>, current |-> NoAccount, total |-> 0,
                       completed |-> 0, failed |-> 0, banned |-> 0, skipped |-> 0]
      BY DEF idleState
    <3> DEFINE n == Len(queue)
    <3> HIDE DEF n
    <3>2. fresh = [idleState EXCEPT !.status = "running", !.pending = queue, !.total = n] BY DEF n
    <3>3. fresh = [status |-> "running", pending |-> queue, current |-> NoAccount, total |-> n,
                   completed |-> 0, failed |-> 0, banned |-> 0, skipped |-> 0]
      <4> HIDE DEF fresh
      <4> QED BY <3>1, <3>2
    <3> QED BY <3>3 DEF n
  <2>2. "running" \in Active BY DEF Active, Going
  <2> HIDE DEF fresh
  <2>3. fresh \in StateType BY <1>2, <2>1, <2>2 DEF StateType
  <2>4. processedCount(fresh) = 0 BY <2>1 DEF processedCount
  <2> QED BY <2>1, <2>2, <2>3, <2>4
<1>4. IsState(fresh) BY <1>2, <1>3 DEF IsState
<1>5. Counted(fresh, 0) BY <1>2, <1>3 DEF Counted
<1> HIDE DEF fresh
<1>6. CASE queue = <<>>
  <2>1. UNCHANGED <<hostVars, historyVars, down>> BY <1>6 DEF Begin, queue
  <2>2. HostedTaskIsWatched' BY <1>1, <2>1 DEF HostedTaskIsWatched, hostVars
  <2> QED BY <2>1, <2>2, AloneKeeps
<1>7. CASE queue # <<>> /\ loop = "off"
  <2>1. mixed' = FALSE /\ started' = {} /\ Run(fresh, excluded) BY <1>7 DEF Begin, queue, fresh
  <2>2. ~(hosted' /\ task' \in Live /\ ~down') BY <1>1, <1>7 DEF HostedTaskIsWatched
  <2> QED BY <1>2, <1>3, <1>5, <2>1, <2>2, RunKeeps
<1>8. CASE queue # <<>> /\ loop # "off"
  <2>1. /\ mixed' = TRUE /\ started' = {} /\ state' = fresh /\ saved' = fresh /\ stray' = TRUE
        /\ loop' = loop /\ hand' = hand
    BY <1>8 DEF Begin, queue, fresh
  <2>2. Queue' BY <1>3, <1>4, <2>1 DEF IInv, Queue
  <2>3. Saved' /\ AddUp' BY <2>1 DEF Saved, AddUp
  <2>4. Once' BY <2>1 DEF Once, Fresh
  <2>5. HostedTaskIsWatched' BY <1>1, <2>1 DEF HostedTaskIsWatched
  <2> QED BY <2>2, <2>3, <2>4, <2>5, InvFromParts
<1> QED BY <1>6, <1>7, <1>8

(* Both kinds of start. *)
LEMMA StartKeeps ==
  ASSUME IInv, (\E ids \in Listings : StartListed(ids)) \/ (\E ids \in Selections : StartSelected(ids))
  PROVE  IInv'
<1> USE DEF slotVars, boundVars
<1>1. CASE \E ids \in Listings : StartListed(ids)
  <2>1. PICK ids \in Listings : StartListed(ids) BY <1>1
  <2>2. /\ ids \in Seq(Accounts) /\ Begin(ids) /\ UNCHANGED <<excluded, down, slotVars>>
        /\ ready' = ready /\ starts' = starts /\ starting > 0 /\ starting' = starting - 1
    BY <2>1, RequestsAssumption DEF StartListed
  <2>3. started' \subseteq Accounts
    BY <2>2 DEF Begin, historyVars, IInv, Around
  <2>4. Around' BY <2>2, <2>3, BoundsAssumption DEF IInv, Around
  <2> QED BY <2>2, <2>4, BeginKeeps
<1>2. CASE \E ids \in Selections : StartSelected(ids)
  <2>1. PICK ids \in Selections : StartSelected(ids) BY <1>2
  <2>2. /\ ids \in Seq(Accounts) /\ Begin(ids) /\ UNCHANGED <<excluded, down, slotVars>>
        /\ ready' = ready /\ starts' = starts + 1 /\ starts < MaxStarts /\ starting' = starting
    BY <2>1, RequestsAssumption DEF StartSelected, StartAllowed
  <2>3. started' \subseteq Accounts
    BY <2>2 DEF Begin, historyVars, IInv, Around
  <2>4. Around' BY <2>2, <2>3, BoundsAssumption DEF IInv, Around
  <2> QED BY <2>2, <2>4, BeginKeeps
<1> QED BY <1>1, <1>2

(* The loaded account is started: it is at hand, and counted among those   *)
(* that have been.                                                         *)
LEMMA AccountStartedKeeps == IInv /\ AccountStarted => IInv'
<1> SUFFICES ASSUME IInv, AccountStarted PROVE IInv'
  OBVIOUS
<1>1. Around /\ Queue /\ AddUp /\ Once BY DEF IInv
<1> DEFINE s == [state EXCEPT !.current = hand]
<1>2. /\ loop = "load" /\ state.status \in Going /\ state' = s /\ saved' = s /\ loop' = "wait"
      /\ task' = "auto" /\ hosted' = TRUE /\ taken' = FALSE
      /\ started' = (IF stray THEN started ELSE started \union {hand})
      /\ hand' = hand /\ stray' = stray /\ mixed' = mixed /\ down' = down /\ excluded' = excluded
      /\ starting' = starting /\ starts' = starts /\ ready' = ready
  BY DEF AccountStarted, StillWanted, PersistTask, boundVars
<1>3. hand \in Accounts /\ hand # NoAccount BY <1>1, <1>2, AccountsAssumption DEF Queue
<1>4. state \in StateType /\ IsInjective(state.pending) BY <1>1 DEF Queue, IsState
<1>5. s \in StateType BY <1>3, <1>4 DEF StateType
<1>6. /\ s.pending = state.pending /\ s.status = state.status /\ s.current = hand /\ s.total = state.total
      /\ processedCount(s) = processedCount(state)
  BY <1>4, StateParts DEF processedCount
<1> HIDE DEF s
<1>7. Around' BY <1>1, <1>2, <1>3 DEF Around, Live, Cancellable
<1>8. Queue'
  <2>1. IsState(s) BY <1>2, <1>4, <1>5, <1>6 DEF IsState, Active
  <2> QED BY <1>1, <1>2, <2>1 DEF Queue
<1>9. Saved' BY <1>2 DEF Saved
<1>10. AddUp'
  <2>1. ~mixed => Counted(state, 1) BY <1>1, <1>2 DEF AddUp
  <2>2. ~mixed => Counted(s, 1) BY <1>6, <2>1 DEF Counted, Counts
  <2> QED BY <1>2, <1>3, <1>6, <2>2 DEF AddUp
<1>11. Once' BY <1>1, <1>2, <1>6 DEF Once, Fresh
<1>12. HostedTaskIsWatched' BY <1>2, <1>6 DEF HostedTaskIsWatched, Active
<1> QED BY <1>7, <1>8, <1>9, <1>10, <1>11, <1>12, InvFromParts

(* It cannot be started and is skipped, or it comes too late.              *)
LEMMA NotStartedKeeps == IInv /\ (AccountNotStarted \/ LoadedTooLate) => IInv'
<1> SUFFICES ASSUME IInv, AccountNotStarted \/ LoadedTooLate PROVE IInv'
  OBVIOUS
<1> USE DEF slotVars, boundVars, historyVars
<1>1. Around /\ Queue /\ Saved /\ AddUp /\ Once /\ HostedTaskIsWatched BY DEF IInv
<1>2. /\ loop = "load" /\ mixed' = mixed /\ started' = started /\ down' = down /\ excluded' = excluded
      /\ task' = task /\ hosted' = hosted /\ taken' = taken /\ ready' = ready
      /\ starting' = starting /\ starts' = starts
  BY DEF AccountNotStarted, LoadedTooLate, SkipAccount
<1>3. Around' BY <1>1, <1>2 DEF Around
<1>4. state \in StateType /\ IsInjective(state.pending) /\ state.current = NoAccount
  BY <1>1, <1>2 DEF Queue, IsState
<1>5. ~mixed => Counted(state, 1) BY <1>1, <1>2 DEF AddUp
<1>6. CASE AccountNotStarted
  <2> DEFINE s == Count(state, "skipped")
  <2>1. Run(s, excluded) BY <1>6 DEF AccountNotStarted, SkipAccount
  <2>2. /\ s \in StateType /\ s.pending = state.pending /\ s.status = state.status
        /\ s.current = state.current /\ s.total = state.total
        /\ processedCount(s) = processedCount(state) + 1 /\ processedCount(state) \in Nat
    BY <1>4, Counting DEF Counters
  <2> HIDE DEF s
  <2>3. ~mixed => Counted(s, 0)
    <3>1. Len(state.pending) \in Nat BY <1>4, StateParts
    <3> QED BY <1>5, <2>2, <3>1 DEF Counted, Counts
  <2>4. ~(hosted' /\ task' \in Live /\ ~down') BY <1>1, <1>2 DEF HostedTaskIsWatched
  <2>5. mixed' \in BOOLEAN BY <1>1, <1>2 DEF Queue
  <2>6. \A a \in started' : a \notin Range(s.pending) BY <1>1, <1>2, <2>2 DEF Once, Fresh
  <2> QED BY <1>2, <1>3, <1>4, <2>1, <2>2, <2>3, <2>4, <2>5, <2>6, RunKeeps
<1>7. CASE LoadedTooLate
  <2>1. /\ state.status \notin Going \/ down
        /\ state' = state /\ saved' = saved /\ loop' = "off" /\ hand' = NoAccount /\ stray' = FALSE
    BY <1>7 DEF LoadedTooLate, LoopEnds, StillWanted
  <2>2. Queue' BY <1>1, <1>4, <2>1, <1>2 DEF Queue
  <2>3. Saved' BY <1>1, <1>2, <2>1 DEF Saved
  <2>4. AddUp'
    <3>1. ~mixed /\ ~down => ~Counts(state) BY <1>1, <1>2, <2>1 DEF Queue, Counts, Active, Going
    <3> QED BY <1>1, <1>2, <2>1, <3>1 DEF AddUp, Counted
  <2>5. Once' BY <1>1, <1>2, <2>1 DEF Once, Fresh
  <2>6. HostedTaskIsWatched' BY <1>1, <1>2, <2>1 DEF HostedTaskIsWatched
  <2> QED BY <1>3, <2>2, <2>3, <2>4, <2>5, <2>6, InvFromParts
<1> QED BY <1>6, <1>7

(* The end of the task: the account is counted, and the queue goes on or   *)
(* stops.                                                                  *)
LEMMA EndKeeps ==
  ASSUME IInv, task \in Live, NEW s, NEW counter \in Counters, NEW noted,
         s = state \/ (s = [state EXCEPT !.status = "stopping"] /\ state.status \in Active),
         End(s, counter, noted), endUnchanged
  PROVE  IInv'
<1> USE DEF boundVars, historyVars, hostVars
<1>1. Around /\ Queue /\ AddUp /\ Once /\ HostedTaskIsWatched BY DEF IInv
<1>2. /\ task' = "closing" /\ hosted' = hosted /\ taken' = FALSE /\ mixed' = mixed /\ started' = started
      /\ down' = down /\ starting' = starting /\ ready' = ready /\ starts' = starts
  BY DEF End, endUnchanged
<1>3. "closing" \notin Live BY DEF Live, Cancellable
<1>4. state \in StateType /\ IsInjective(state.pending) BY <1>1 DEF Queue, IsState
<1>5. /\ s \in StateType /\ s.pending = state.pending /\ s.current = state.current
      /\ s.total = state.total /\ processedCount(s) = processedCount(state)
      /\ (state.status \in Active => s.status \in Active)
  <2>1. CASE s = state BY <1>4, <2>1
  <2>2. CASE s = [state EXCEPT !.status = "stopping"]
    <3>1. "stopping" \in Active BY DEF Active
    <3>2. s \in StateType BY <1>4, <2>2, <3>1 DEF StateType
    <3> QED BY <1>4, <2>2, <3>1, <3>2, StateParts DEF processedCount
  <2> QED BY <2>1, <2>2
<1>6. CASE ~Listening
  <2>1. UNCHANGED <<hostVars, excluded>> BY <1>6 DEF End
  <2>2. Around' BY <1>1, <1>2, <2>1 DEF Around
  <2>3. HostedTaskIsWatched' BY <1>2, <1>3 DEF HostedTaskIsWatched
  <2> QED BY <1>2, <2>1, <2>2, <2>3, AloneKeeps
<1>7. CASE Listening
  <2> DEFINE ex == IF noted /\ s.current # NoAccount THEN excluded \union {s.current} ELSE excluded
             c == completeCurrent(s, counter)
  <2>1. excluded' = ex /\ Run(c, ex) BY <1>7 DEF End
  <2>2. ex \subseteq Accounts BY <1>1, <1>5, StateParts DEF Around
  <2> HIDE DEF ex
  <2>3. Around' BY <1>1, <1>2, <2>1, <2>2 DEF Around
  <2>4. /\ c \in StateType /\ IsInjective(c.pending) /\ c.current = NoAccount
        /\ Range(c.pending) \subseteq Range(s.pending)
        /\ s.status \in Active /\ Counted(s, 1) => Counted(c, 0)
    <3>1. IsInjective(s.pending) BY <1>4, <1>5
    <3> QED BY <1>5, <3>1, Completing
  <2> HIDE DEF c
  <2>5. hosted /\ loop = "wait" /\ ~down BY <1>7 DEF Listening
  <2>6. ASSUME ~mixed PROVE Counted(c, 0)
    <3>1. ~stray BY <1>1, <2>6 DEF Queue
    <3>2. state.status \in Active BY <1>1, <2>5, <3>1 DEF HostedTaskIsWatched
    <3>3. Counted(state, 1) BY <1>1, <2>5, <2>6 DEF AddUp
    <3>4. Counted(s, 1) BY <1>5, <3>2, <3>3 DEF Counted, Counts
    <3> QED BY <1>5, <2>4, <3>2, <3>4
  <2>7. \A a \in started' : a \notin Range(c.pending) BY <1>1, <1>2, <1>5, <2>4 DEF Once, Fresh
  <2>8. mixed' \in BOOLEAN BY <1>1, <1>2 DEF Queue
  <2>9. ~(hosted' /\ task' \in Live /\ ~down') BY <1>2, <1>3
  <2> QED BY <1>2, <2>1, <2>3, <2>4, <2>6, <2>7, <2>8, <2>9, RunKeeps
<1> QED BY <1>6, <1>7

(* What the listener shows of a task that goes on. *)
LEMMA ShowKeeps ==
  ASSUME IInv, task \in Live, task' \in Live, taken' \in BOOLEAN, NEW stage, NEW takeover,
         Show(stage, takeover), showUnchanged
  PROVE  IInv'
<1> USE DEF boundVars, historyVars, hostVars
<1>1. Around /\ Queue /\ AddUp /\ Once /\ HostedTaskIsWatched BY DEF IInv
<1>2. /\ hosted' = hosted /\ mixed' = mixed /\ started' = started /\ excluded' = excluded
      /\ down' = down /\ starting' = starting /\ ready' = ready /\ starts' = starts
  BY DEF showUnchanged
<1>3. Around' BY <1>1, <1>2 DEF Around
<1>4. CASE ~(Listening /\ state.status # "stopping")
  <2>1. UNCHANGED hostVars BY <1>4 DEF Show
  <2>2. HostedTaskIsWatched' BY <1>1, <1>2, <2>1 DEF HostedTaskIsWatched
  <2> QED BY <1>2, <1>3, <2>1, <2>2, AloneKeeps
<1>5. CASE Listening /\ state.status # "stopping"
  <2> DEFINE status == IF stage = "manual" \/ takeover THEN "paused" ELSE "running"
             s == [state EXCEPT !.status = status]
  <2>1. Save(s) BY <1>5 DEF Show
  <2>2. status \in Going BY DEF Going
  <2> HIDE DEF status
  <2>3. Going \subseteq Active BY DEF Active
  <2>4. state \in StateType /\ IsInjective(state.pending) BY <1>1 DEF Queue, IsState
  <2>5. s \in StateType BY <2>2, <2>3, <2>4 DEF StateType
  <2>6. /\ s.pending = state.pending /\ s.status = status /\ s.current = state.current
        /\ s.total = state.total /\ processedCount(s) = processedCount(state)
    BY <2>4, StateParts DEF processedCount
  <2> HIDE DEF s
  <2>7. state' = s /\ loop' = loop /\ hand' = hand /\ stray' = stray BY <2>1 DEF Save
  <2>8. hosted /\ loop = "wait" /\ ~down /\ hand # NoAccount BY <1>1, <1>5 DEF Listening, Queue
  <2>9. IsState(s) BY <2>2, <2>3, <2>4, <2>5, <2>6 DEF IsState
  <2>10. ~mixed => s.current # NoAccount /\ Counted(s, 1)
    <3> SUFFICES ASSUME ~mixed PROVE s.current # NoAccount /\ Counted(s, 1)
      OBVIOUS
    <3>1. state.status \in Active /\ state.current = hand BY <1>1, <2>8 DEF Queue, HostedTaskIsWatched
    <3>2. Counted(state, 1) BY <1>1, <2>8 DEF AddUp
    <3> QED BY <2>6, <2>8, <3>1, <3>2 DEF Counted, Counts
  <2>11. HostedTaskIsWatched' BY <1>1, <1>2, <2>2, <2>3, <2>6, <2>7, <2>8 DEF HostedTaskIsWatched
  <2> QED BY <1>1, <1>2, <1>3, <2>1, <2>6, <2>8, <2>9, <2>10, <2>11, SaveKeeps
<1> QED BY <1>4, <1>5

(* The steps of the task, with what its listener does.                     *)
LEMMA TaskSteps ==
  ASSUME IInv,
         \/ \E to \in Live : TaskMoves(to)
         \/ \E counter \in Counters \ {"skipped"}, noted \in BOOLEAN : TaskEnds(counter, noted)
         \/ OtpRoundsExhausted \/ CancelTask \/ TakeOver \/ ReleaseTakeover
         \/ StopCancels \/ SkipCurrent
  PROVE  IInv'
<1>1. taken \in BOOLEAN /\ TRUE \in BOOLEAN /\ FALSE \in BOOLEAN BY DEF IInv, Around
<1>2. Cancellable \subseteq Live /\ "auto" \in Live /\ "manual" \in Live /\ "callback" \in Live
  BY DEF Cancellable, Live
<1>3. "failed" \in Counters /\ "skipped" \in Counters BY DEF Counters
<1>4. Going \subseteq Active BY DEF Active
<1>5. CASE \E to \in Live : TaskMoves(to)
  <2>1. PICK to \in Live : TaskMoves(to) BY <1>5
  <2>2. task \in Live /\ task' = to /\ taken' = taken /\ Show(to, taken) /\ showUnchanged
    BY <1>2, <2>1 DEF TaskMoves
  <2> QED BY <1>1, <2>2, ShowKeeps
<1>6. CASE \E counter \in Counters \ {"skipped"}, noted \in BOOLEAN : TaskEnds(counter, noted)
  BY <1>6, EndKeeps DEF TaskEnds
<1>7. CASE OtpRoundsExhausted BY <1>2, <1>3, <1>7, EndKeeps DEF OtpRoundsExhausted
<1>8. CASE CancelTask BY <1>2, <1>3, <1>8, EndKeeps DEF CancelTask
<1>9. CASE TakeOver
  <2>1. task \in Live /\ task' = task /\ taken' = TRUE /\ Show(task, TRUE) /\ showUnchanged
    BY <1>2, <1>9 DEF TakeOver
  <2> QED BY <1>1, <2>1, ShowKeeps
<1>10. CASE ReleaseTakeover
  <2>1. task \in Live /\ task' = task /\ taken' = FALSE /\ Show(task, FALSE) /\ showUnchanged
    BY <1>10 DEF ReleaseTakeover
  <2> QED BY <1>1, <2>1, ShowKeeps
<1>11. CASE StopCancels
  <2>1. /\ state.status \in Active /\ task \in Live
        /\ End([state EXCEPT !.status = "stopping"], "failed", FALSE) /\ endUnchanged
    BY <1>2, <1>11 DEF StopCancels
  <2> QED BY <1>3, <2>1, EndKeeps
<1>12. CASE SkipCurrent BY <1>2, <1>3, <1>12, EndKeeps DEF SkipCurrent
<1> QED BY <1>5, <1>6, <1>7, <1>8, <1>9, <1>10, <1>11, <1>12

(* The queue is stopped without the task: it is stopping behind a write,   *)
(* or stops at once.                                                       *)
LEMMA StopKeeps == IInv /\ (StopLater \/ StopIdle) => IInv'
<1> SUFFICES ASSUME IInv, StopLater \/ StopIdle PROVE IInv'
  OBVIOUS
<1> USE DEF boundVars, historyVars, slotVars
<1>1. Around /\ Queue /\ AddUp /\ Once /\ HostedTaskIsWatched BY DEF IInv
<1>2. /\ task' = task /\ hosted' = hosted /\ taken' = taken /\ mixed' = mixed /\ started' = started
      /\ excluded' = excluded /\ down' = down /\ starting' = starting /\ ready' = ready /\ starts' = starts
  BY DEF StopLater, StopIdle, endUnchanged
<1>3. Around' BY <1>1, <1>2 DEF Around
<1>4. state \in StateType /\ IsInjective(state.pending) BY <1>1 DEF Queue, IsState
<1>5. CASE StopLater
  <2> DEFINE s == [state EXCEPT !.status = "stopping"]
  <2>1. Save(s) /\ state.status \in Going /\ state.current # NoAccount BY <1>5 DEF StopLater
  <2>2. "stopping" \in Active /\ Going \subseteq Active BY DEF Active
  <2>3. s \in StateType BY <1>4, <2>2 DEF StateType
  <2>4. /\ s.pending = state.pending /\ s.status = "stopping" /\ s.current = state.current
        /\ s.total = state.total /\ processedCount(s) = processedCount(state)
    BY <1>4, StateParts DEF processedCount
  <2> HIDE DEF s
  <2>5. IsState(s) BY <1>4, <2>2, <2>3, <2>4 DEF IsState
  <2>6. loop = "wait" BY <1>1, <2>1 DEF Queue
  <2>7. ~mixed => Counted(s, 1)
    <3>1. ~mixed => Counted(state, 1) BY <1>1, <2>6 DEF AddUp
    <3> QED BY <2>1, <2>2, <2>4, <3>1 DEF Counted, Counts
  <2>8. HostedTaskIsWatched'
    <3>1. state' = s /\ loop' = loop /\ hand' = hand /\ stray' = stray BY <2>1 DEF Save
    <3> QED BY <1>1, <1>2, <2>2, <2>4, <3>1 DEF HostedTaskIsWatched
  <2> QED BY <1>1, <1>2, <1>3, <2>1, <2>4, <2>5, <2>6, <2>7, <2>8, SaveKeeps
<1>6. CASE StopIdle
  <2> DEFINE s == finishStop(state)
  <2>1. Save(s) /\ state.current = NoAccount BY <1>6 DEF StopIdle, StopAtOnce
  <2>2. /\ IsState(s) /\ s.status = "stopped" /\ s.current = NoAccount /\ Range(s.pending) = {}
        /\ \A n : Counted(s, n)
    BY <1>4, Finishing
  <2> HIDE DEF s
  <2>3. HostedTaskIsWatched'
    <3>1. loop' = loop /\ hand' = hand /\ stray' = stray BY <2>1 DEF Save
    <3>2. loop = "wait" => hand # NoAccount BY <1>1 DEF Queue
    <3> QED BY <1>1, <1>2, <2>1, <3>1, <3>2 DEF HostedTaskIsWatched
  <2> QED BY <1>1, <1>2, <1>3, <2>1, <2>2, <2>3, SaveKeeps
<1> QED BY <1>5, <1>6

(* The service shuts down: the queue has stopped.                          *)
LEMMA ShutdownKeeps == IInv /\ Shutdown => IInv'
<1> SUFFICES ASSUME IInv, Shutdown PROVE IInv'
  OBVIOUS
<1>1. Around /\ Queue BY DEF IInv
<1> DEFINE s == finishStop(state)
<1>2. /\ down' = TRUE /\ state' = s /\ saved' = s /\ mixed' = mixed /\ started' = started
      /\ excluded' = excluded /\ starting' = starting /\ hosted' = hosted /\ ready' = ready /\ starts' = starts
      /\ \/ loop = "wait" /\ loop' = "off" /\ hand' = NoAccount /\ stray' = FALSE
         \/ loop # "wait" /\ loop' = loop /\ hand' = hand /\ stray' = stray
      /\ \/ task' = "closing" /\ taken' = FALSE
         \/ task' = task /\ taken' = taken
  BY DEF Shutdown, historyVars, boundVars
<1>3. /\ IsState(s) /\ s.status = "stopped" /\ s.current = NoAccount /\ Range(s.pending) = {}
      /\ \A n : Counted(s, n)
  BY <1>1, Finishing DEF Queue, IsState
<1> HIDE DEF s
<1>4. Around' BY <1>1, <1>2 DEF Around
<1>5. Queue'
  <2>1. IsState(state') /\ IsState(saved') /\ state'.current = NoAccount /\ state'.status = "stopped"
    BY <1>2, <1>3
  <2>2. CASE loop = "wait"
    <3>1. loop' = "off" /\ hand' = NoAccount /\ stray' = FALSE /\ mixed' = mixed BY <1>2, <2>2
    <3> QED BY <1>1, <2>1, <3>1 DEF Queue
  <2>3. CASE loop # "wait"
    <3>1. loop' = loop /\ hand' = hand /\ stray' = stray /\ mixed' = mixed BY <1>2, <2>3
    <3> QED BY <1>1, <2>1, <3>1 DEF Queue
  <2> QED BY <2>2, <2>3
<1>6. Saved' BY <1>2 DEF Saved
<1>7. AddUp' BY <1>2, <1>3 DEF AddUp
<1>8. Once' BY <1>1, <1>2, <1>3 DEF IInv, Once, Fresh
<1>9. HostedTaskIsWatched' BY <1>2 DEF HostedTaskIsWatched
<1> QED BY <1>4, <1>5, <1>6, <1>7, <1>8, <1>9, InvFromParts

(* The service starts again from the settings row: the account whose task  *)
(* was interrupted has failed, the others are still queued.                *)
LEMMA RestartKeeps == IInv /\ Restart => IInv'
<1> SUFFICES ASSUME IInv, Restart PROVE IInv'
  OBVIOUS
<1>1. Around /\ Queue /\ AddUp /\ Once BY DEF IInv
<1>2. /\ down' = FALSE /\ starting' = 0 /\ ready' = FALSE /\ task' = "none" /\ hosted' = FALSE
      /\ taken' = FALSE /\ excluded' = excluded /\ mixed' = mixed /\ started' = started /\ starts' = starts
  BY DEF Restart, historyVars
<1>3. Around'
  <2>1. starts \in 0 .. MaxStarts /\ 0 \in 0 .. starts BY <1>1, BoundsAssumption DEF Around
  <2> QED BY <1>1, <1>2, <2>1 DEF Around
<1>4. saved \in StateType /\ IsInjective(saved.pending) /\ IsState(saved) BY <1>1 DEF Queue, IsState
<1>5. CASE saved.status \in Going
  <2> DEFINE i == Interrupted(saved)
             s == [i EXCEPT !.status = "running"]
  <2>1. Run(s, excluded) BY <1>5 DEF Restart
  <2>2. /\ i \in StateType /\ i.pending = saved.pending /\ i.current = NoAccount /\ i.total = saved.total
        /\ processedCount(i) = processedCount(saved) + (IF saved.current = NoAccount THEN 0 ELSE 1)
        /\ processedCount(saved) \in Nat
    <3>1. processedCount(saved) \in Nat BY <1>4, StateParts DEF processedCount
    <3>2. CASE saved.current = NoAccount
      <4>1. i = saved BY <3>2 DEF Interrupted
      <4> QED BY <1>4, <3>1, <3>2, <4>1
    <3>3. CASE saved.current # NoAccount
      <4> DEFINE k == Count(saved, "failed")
      <4>1. i = [k EXCEPT !.current = NoAccount] BY <3>3 DEF Interrupted
      <4>2. /\ k \in StateType /\ k.pending = saved.pending /\ k.total = saved.total
            /\ processedCount(k) = processedCount(saved) + 1
        BY <1>4, Counting DEF Counters
      <4> HIDE DEF k, i
      <4>3. i \in StateType BY <4>1, <4>2 DEF StateType
      <4>4. /\ i.pending = k.pending /\ i.current = NoAccount /\ i.total = k.total
            /\ processedCount(i) = processedCount(k)
        BY <4>1, <4>2, StateParts DEF processedCount
      <4> QED BY <3>1, <3>3, <4>2, <4>3, <4>4
    <3> QED BY <3>2, <3>3
  <2> HIDE DEF i
  <2>3. "running" \in Active /\ Going \subseteq Active BY DEF Active, Going
  <2>4. s \in StateType BY <2>2, <2>3 DEF StateType
  <2>5. /\ s.pending = saved.pending /\ s.current = NoAccount /\ s.total = saved.total
        /\ processedCount(s) = processedCount(i)
    BY <2>2, StateParts DEF processedCount
  <2> HIDE DEF s
  <2>6. ~mixed => Counted(s, 0)
    <3> SUFFICES ASSUME ~mixed PROVE Counted(s, 0)
      OBVIOUS
    <3>1. processedCount(saved) + Len(saved.pending) + (IF saved.current = NoAccount THEN 0 ELSE 1) = saved.total
      BY <1>1, <1>5, <2>3 DEF AddUp, Counted, Counts
    <3>2. Len(saved.pending) \in Nat BY <1>4, StateParts
    <3> QED BY <2>2, <2>5, <3>1, <3>2 DEF Counted
  <2>7. \A a \in started' : a \notin Range(s.pending) BY <1>1, <1>2, <2>5 DEF Once, Fresh
  <2>8. mixed' \in BOOLEAN BY <1>1, <1>2 DEF Queue
  <2> QED BY <1>2, <1>3, <1>4, <2>1, <2>4, <2>5, <2>6, <2>7, <2>8, RunKeeps
<1>6. CASE saved.status \notin Going
  <2> DEFINE s == Stopped(saved)
  <2>1. state' = s /\ saved' = s /\ loop' = "off" /\ hand' = NoAccount /\ stray' = FALSE
    BY <1>6 DEF Restart
  <2>2. /\ IsState(s) /\ s.current = NoAccount /\ (~mixed => Counted(s, 0))
        /\ \A a \in started : a \notin Range(s.pending)
    <3>1. CASE saved.status = "stopping"
      <4>1. s = finishStop(saved) BY <3>1 DEF Stopped
      <4> QED BY <1>4, <4>1, Finishing
    <3>2. CASE saved.status # "stopping"
      <4>1. s = saved BY <3>2 DEF Stopped
      <4>2. saved.current = NoAccount BY <1>4, <1>6, <3>2 DEF IsState, Active
      <4> QED BY <1>1, <1>4, <4>1, <4>2 DEF AddUp, Once, Fresh
    <3> QED BY <3>1, <3>2
  <2> HIDE DEF s
  <2>3. Queue' BY <1>1, <1>2, <2>1, <2>2 DEF Queue
  <2>4. Saved' BY <2>1 DEF Saved
  <2>5. AddUp' BY <1>2, <2>1, <2>2 DEF AddUp
  <2>6. Once' BY <1>2, <2>1, <2>2 DEF Once, Fresh
  <2>7. HostedTaskIsWatched' BY <1>2 DEF HostedTaskIsWatched
  <2> QED BY <1>3, <2>3, <2>4, <2>5, <2>6, <2>7, InvFromParts
<1> QED BY <1>5, <1>6

(* The invariant holds in every reachable state.                           *)
LEMMA InvHolds == Spec => []IInv
<1>1. IInv /\ [Next]_vars => IInv'
  <2> SUFFICES ASSUME IInv, [Next]_vars PROVE IInv'
    OBVIOUS
  <2>1. CASE \/ StartRequested \/ StartFails \/ SlotFreed \/ SessionRestored \/ OtherTaskStarts
             \/ (\E a \in Accounts : Exclude(a)) \/ UNCHANGED vars
    BY <2>1, AloneSteps
  <2>2. CASE (\E ids \in Listings : StartListed(ids)) \/ (\E ids \in Selections : StartSelected(ids))
    BY <2>2, StartKeeps
  <2>3. CASE Loop BY <2>3, AccountStartedKeeps, NotStartedKeeps DEF Loop
  <2>4. CASE \/ \E to \in Live : TaskMoves(to)
             \/ \E counter \in Counters \ {"skipped"}, noted \in BOOLEAN : TaskEnds(counter, noted)
             \/ OtpRoundsExhausted \/ CancelTask \/ TakeOver \/ ReleaseTakeover
             \/ StopCancels \/ SkipCurrent
    BY <2>4, TaskSteps
  <2>5. CASE StopLater \/ StopIdle BY <2>5, StopKeeps
  <2>6. CASE Shutdown BY <2>6, ShutdownKeeps
  <2>7. CASE Restart BY <2>7, RestartKeeps
  <2> QED BY <2>1, <2>2, <2>3, <2>4, <2>5, <2>6, <2>7 DEF Next
<1> QED BY Initially, <1>1, PTL DEF Spec

----------------------------------------------------------------------------
(* The queue has its type and never holds an account twice (eligibleIds,   *)
(* parseState).                                                            *)
THEOREM HostingTyped == Spec => []TypeOK
<1>1. IInv => TypeOK
  <2> SUFFICES ASSUME IInv PROVE TypeOK
    OBVIOUS
  <2>1. Around /\ Queue BY DEF IInv
  <2>2. starting \in 0 .. MaxStarts BY <2>1, BoundsAssumption DEF Around
  <2>3. {down, hosted, taken, ready, stray, mixed} \subseteq BOOLEAN BY <2>1 DEF Around, Queue
  <2> QED BY <2>1, <2>2, <2>3 DEF Around, Queue, IsState, TypeOK
<1> QED BY <1>1, InvHolds, PTL

(* No account of the queue is lost or counted twice, through any stop,     *)
(* skip or restart (completeCurrent, finishStop and restore).              *)
THEOREM NoneIsLost == Spec => []CountsAddUp
<1>1. IInv => CountsAddUp
  <2> SUFFICES ASSUME IInv, ~down, ~mixed, state.status \in Active \union {"completed"}
               PROVE  processedCount(state) + Len(state.pending) + (IF loop = "off" THEN 0 ELSE 1) = state.total
    BY DEF CountsAddUp
  <2> QED BY DEF IInv, AddUp, Counted, Counts
<1> QED BY <1>1, InvHolds, PTL

(* The settings row is what a restart goes on from (persist and #run).     *)
THEOREM RowIsCurrent == Spec => []SavedIsCurrent
<1>1. IInv => SavedIsCurrent BY DEF IInv, Saved, SavedIsCurrent
<1> QED BY <1>1, InvHolds, PTL

(* No account is started twice from one queue, not even after a restart.   *)
THEOREM OneStartEach == Spec => []StartedOnce
<1>1. IInv => StartedOnce BY DEF IInv, Once, Fresh, StartedOnce
<1> QED BY <1>1, InvHolds, PTL

(* A hosted task is attended by the loop while the service is up           *)
(* (waitForTerminal, stop and skipCurrent).                                *)
THEOREM TasksAreWatched == Spec => []HostedTaskIsWatched
<1>1. IInv => HostedTaskIsWatched BY DEF IInv
<1> QED BY <1>1, InvHolds, PTL
=============================================================================
