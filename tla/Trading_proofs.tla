----------------------------- MODULE Trading_proofs -----------------------------
(***************************************************************************)
(* The safety properties of LimitOrders, for any levels, prices, quotes    *)
(* and number of detours of the user, and of TransactionTracking, for any  *)
(* transactions and times: a level that executes becomes a swap, and a     *)
(* submitted swap a row that is tracked.  The two share no variable.       *)
(*                                                                         *)
(* A level that ends gives way to the next one of the queue: what that     *)
(* does (Taken) is proved once, for a time-out, a refused quote, a         *)
(* dismissed dialog and a settled swap alike.  The inductive invariant     *)
(* relates the level that executes to the dialog, the swap, the ticket and *)
(* the signatures.                                                         *)
(*                                                                         *)
(* The emission of a tracker (Reload) makes both its properties true       *)
(* whatever the map was, so the work lies in the answers that do not       *)
(* reload.                                                                 *)
(***************************************************************************)
EXTENDS LimitOrders, TransactionTracking, SequenceTheorems, FiniteSetTheorems,
        TLAPS

Distinct(q) == \A m, n \in 1 .. Len(q) : q[m] = q[n] => m = n

-----------------------------------------------------------------------------
(* The queue                                                               *)

LEMMA OrderedLevels ==
    ASSUME NEW levels \in SUBSET Orders, NEW q \in InOrder(levels)
    PROVE  /\ q \in Seq(Orders) /\ Distinct(q)
           /\ \A i : Contains(q, i) <=> i \in levels
<1> DEFINE n == Cardinality(levels)
<1>1. n \in Nat
  BY OrdersAssumption, FS_Subset, FS_CardinalityType
<1> HIDE DEF n
<1>2. /\ q \in [1 .. n -> levels] /\ \A i \in levels : Contains(q, i)
      /\ \A j, k \in DOMAIN q : j < k => q[j] < q[k]
  BY DEF InOrder, n
<1>3. q \in Seq(levels) /\ Len(q) = n
  BY <1>1, <1>2, SeqDef, LenProperties
<1>4. q \in Seq(Orders)
  BY <1>1, <1>2, <1>3
<1>5. Distinct(q)
  <2>1. \A j \in 1 .. n : q[j] \in Nat
    BY <1>2, OrdersAssumption
  <2>2. \A j, k \in 1 .. n : j < k \/ k < j \/ j = k
    BY <1>1
  <2>3. \A j, k \in 1 .. n : j < k => q[j] < q[k]
    BY <1>2
  <2>4. \A j, k \in 1 .. n : q[j] = q[k] => j = k
    BY <2>1, <2>2, <2>3
  <2> QED
    BY <1>3, <2>4 DEF Distinct
<1>6. \A i : Contains(q, i) <=> i \in levels
  BY <1>2, <1>3 DEF Contains
<1> QED
  BY <1>4, <1>5, <1>6

LEMMA Joined ==
    ASSUME NEW p \in Seq(Orders), NEW q \in Seq(Orders)
    PROVE  /\ p \o q \in Seq(Orders)
           /\ \A i : Contains(p \o q, i) <=> Contains(p, i) \/ Contains(q, i)
           /\ Distinct(p) /\ Distinct(q) /\ (\A i : Contains(p, i) => ~ Contains(q, i)) =>
                 Distinct(p \o q)
<1> DEFINE r == p \o q
           n == Len(p)
<1>1. /\ r \in Seq(Orders) /\ Len(r) = n + Len(q) /\ n \in Nat /\ Len(q) \in Nat
      /\ \A i \in 1 .. n + Len(q) : r[i] = IF i <= n THEN p[i] ELSE q[i - n]
  BY ConcatProperties, LenProperties
<1> HIDE DEF r
<1>2. \A i \in 1 .. n : i \in 1 .. Len(r) /\ r[i] = p[i]
  BY <1>1
<1>3. \A i \in 1 .. Len(q) : n + i \in 1 .. Len(r) /\ r[n + i] = q[i]
  <2> SUFFICES ASSUME NEW i \in 1 .. Len(q)
               PROVE  n + i \in 1 .. Len(r) /\ r[n + i] = q[i]
    OBVIOUS
  <2>1. n + i \in 1 .. n + Len(q) /\ ~ (n + i <= n) /\ (n + i) - n = i
    BY <1>1
  <2> HIDE DEF n
  <2> QED
    BY <1>1, <2>1
<1>4. \A i \in 1 .. Len(r) :
         \/ i \in 1 .. n /\ r[i] = p[i]
         \/ i - n \in 1 .. Len(q) /\ r[i] = q[i - n]
  BY <1>1
<1>5. \A i : Contains(r, i) <=> Contains(p, i) \/ Contains(q, i)
  <2>1. ASSUME NEW i, Contains(r, i)  PROVE Contains(p, i) \/ Contains(q, i)
    BY <1>4, <2>1 DEF Contains, n
  <2>2. ASSUME NEW i, Contains(p, i)  PROVE Contains(r, i)
    BY <1>2, <2>2 DEF Contains, n
  <2>3. ASSUME NEW i, Contains(q, i)  PROVE Contains(r, i)
    <3>1. PICK j \in 1 .. Len(q) : q[j] = i
      BY <2>3 DEF Contains
    <3> QED
      BY <1>3, <3>1 DEF Contains
  <2> QED
    BY <2>1, <2>2, <2>3
<1>6. ASSUME Distinct(p), Distinct(q), \A i : Contains(p, i) => ~ Contains(q, i)
      PROVE  Distinct(r)
  <2> SUFFICES ASSUME NEW j \in 1 .. Len(r), NEW k \in 1 .. Len(r), r[j] = r[k]
               PROVE  j = k
    BY DEF Distinct
  <2>1. CASE j \in 1 .. n /\ k \in 1 .. n
    BY <1>2, <1>6, <2>1 DEF Distinct
  <2>2. CASE j \notin 1 .. n /\ k \notin 1 .. n
    <3>1. j - n = k - n
      BY <1>4, <1>6, <2>2 DEF Distinct
    <3> QED
      BY <1>1, <3>1
  <2>3. CASE (j \in 1 .. n /\ k \notin 1 .. n) \/ (j \notin 1 .. n /\ k \in 1 .. n)
    <3>1. Contains(p, r[j]) /\ Contains(q, r[j])
      BY <1>4, <2>3 DEF Contains
    <3> QED
      BY <1>6, <3>1
  <2> QED
    BY <2>1, <2>2, <2>3
<1> QED
  BY <1>1, <1>5, <1>6 DEF r

LEMMA TailOfLevels ==
    ASSUME NEW q \in Seq(Orders), q # <<>>
    PROVE  /\ Head(q) \in Orders /\ Tail(q) \in Seq(Orders)
           /\ \A i : Contains(q, i) <=> i = Head(q) \/ Contains(Tail(q), i)
           /\ Distinct(q) => Distinct(Tail(q))
<1> DEFINE r == Tail(q)
<1>1. /\ Head(q) \in Orders /\ r \in Seq(Orders) /\ Len(r) = Len(q) - 1
      /\ \A i \in 1 .. Len(r) : r[i] = q[i + 1]
      /\ Head(q) = q[1] /\ Len(q) \in Nat \ {0}
  BY HeadTailProperties, EmptySeq
<1> HIDE DEF r
<1>2. \A i \in 1 .. Len(r) : i + 1 \in 1 .. Len(q) /\ r[i] = q[i + 1]
  BY <1>1
<1>3. \A i \in 1 .. Len(q) : i = 1 \/ (i - 1 \in 1 .. Len(r) /\ r[i - 1] = q[i])
  BY <1>1
<1>4. \A i : Contains(q, i) <=> i = Head(q) \/ Contains(r, i)
  <2>1. 1 \in 1 .. Len(q)
    BY <1>1
  <2> QED
    BY <1>1, <1>2, <1>3, <2>1 DEF Contains
<1>5. ASSUME Distinct(q)  PROVE Distinct(r)
  <2>1. \A j, k \in 1 .. Len(r) : r[j] = r[k] => j + 1 = k + 1
    BY <1>2, <1>5 DEF Distinct
  <2>2. \A j, k \in 1 .. Len(r) : j + 1 = k + 1 => j = k
    BY <1>1
  <2> QED
    BY <2>1, <2>2 DEF Distinct
<1> QED
  BY <1>1, <1>4, <1>5 DEF r

(* What is behind the n-th level of the queue.                             *)
LEMMA RestOfLevels ==
    ASSUME NEW q \in Seq(Orders), NEW n \in 1 .. Len(q)
    PROVE  /\ SubSeq(q, n + 1, Len(q)) \in Seq(Orders)
           /\ \A m \in 1 .. Len(q) : m > n => Contains(SubSeq(q, n + 1, Len(q)), q[m])
           /\ Distinct(q) => Distinct(SubSeq(q, n + 1, Len(q)))
<1> DEFINE r == SubSeq(q, n + 1, Len(q))
           k == n + 1
<1>1. Len(q) \in Nat /\ k \in Nat /\ k > 0 /\ \A i \in k .. Len(q) : q[i] \in Orders
  BY LenProperties, ElementOfSeq
<1>2. /\ r \in Seq(Orders)
      /\ Len(r) = IF k <= Len(q) THEN Len(q) - k + 1 ELSE 0
      /\ \A i \in 1 .. Len(q) - k + 1 : r[i] = q[k + i - 1]
  BY <1>1, SubSeqProperties
<1> HIDE DEF r
<1>3. Len(r) = Len(q) - n /\ \A i \in 1 .. Len(r) : r[i] = q[n + i]
  BY <1>1, <1>2
<1>4. \A m \in 1 .. Len(q) : m > n => m - n \in 1 .. Len(r) /\ r[m - n] = q[m]
  BY <1>1, <1>3
<1>5. ASSUME Distinct(q)  PROVE Distinct(r)
  <2>1. \A i \in 1 .. Len(r) : n + i \in 1 .. Len(q)
    BY <1>1, <1>3
  <2>2. \A i, j \in 1 .. Len(r) : r[i] = r[j] => n + i = n + j
    BY <1>3, <1>5, <2>1 DEF Distinct
  <2>3. \A i, j \in 1 .. Len(r) : n + i = n + j => i = j
    BY <1>1
  <2> QED
    BY <2>2, <2>3 DEF Distinct
<1> QED
  BY <1>2, <1>4, <1>5 DEF r, Contains

LEMMA RemovedLevel ==
    ASSUME NEW q \in Seq(Orders), NEW n \in 1 .. Len(q), Distinct(q)
    PROVE  /\ RemoveAt(q, n) \in Seq(Orders) /\ Distinct(RemoveAt(q, n))
           /\ \A i : Contains(RemoveAt(q, n), i) <=> Contains(q, i) /\ i # q[n]
<1> DEFINE a == SubSeq(q, 1, n - 1)
           b == SubSeq(q, n + 1, Len(q))
<1>1. Len(q) \in Nat /\ \A i \in 1 .. Len(q) : q[i] \in Orders
  BY LenProperties, ElementOfSeq
<1>2. a \in Seq(Orders) /\ Len(a) = n - 1 /\ \A i \in 1 .. n - 1 : a[i] = q[i]
  <2>1. n - 1 \in Nat /\ \A i \in 1 .. n - 1 : q[i] \in Orders
    BY <1>1
  <2> QED
    BY <1>1, <2>1, SubSeqProperties
<1>3. b \in Seq(Orders) /\ Distinct(b) /\ Len(b) = Len(q) - n
      /\ \A i \in 1 .. Len(q) - n : b[i] = q[n + i]
  <2> DEFINE k == n + 1
  <2>1. k \in Nat /\ k > 0 /\ \A i \in k .. Len(q) : q[i] \in Orders
    BY <1>1
  <2>2. /\ Len(b) = IF k <= Len(q) THEN Len(q) - k + 1 ELSE 0
        /\ \A i \in 1 .. Len(q) - k + 1 : b[i] = q[k + i - 1]
    BY <1>1, <2>1, SubSeqProperties
  <2>3. Len(b) = Len(q) - n /\ \A i \in 1 .. Len(q) - n : b[i] = q[n + i]
    BY <1>1, <2>2
  <2> QED
    BY <2>3, RestOfLevels
<1> HIDE DEF a, b
<1>4. Distinct(a)
  <2>1. \A i \in 1 .. Len(a) : i \in 1 .. Len(q) /\ a[i] = q[i]
    BY <1>1, <1>2
  <2> QED
    BY <2>1 DEF Distinct
<1>5. \A i : Contains(a, i) => ~ Contains(b, i)
  <2> SUFFICES ASSUME NEW j \in 1 .. n - 1, NEW k \in 1 .. Len(q) - n, a[j] = b[k]
               PROVE  FALSE
    BY <1>2, <1>3 DEF Contains
  <2>1. j \in 1 .. Len(q) /\ n + k \in 1 .. Len(q) /\ q[j] = q[n + k] /\ j # n + k
    BY <1>1, <1>2, <1>3
  <2> QED
    BY <2>1 DEF Distinct
<1>6. \A i : Contains(a, i) \/ Contains(b, i) <=> Contains(q, i) /\ i # q[n]
  <2>1. ASSUME NEW i, Contains(a, i)  PROVE Contains(q, i) /\ i # q[n]
    <3>1. PICK j \in 1 .. n - 1 : q[j] = i
      BY <1>2, <2>1 DEF Contains
    <3>2. j \in 1 .. Len(q) /\ j # n
      BY <1>1
    <3> QED
      BY <3>1, <3>2 DEF Contains, Distinct
  <2>2. ASSUME NEW i, Contains(b, i)  PROVE Contains(q, i) /\ i # q[n]
    <3>1. PICK j \in 1 .. Len(q) - n : q[n + j] = i
      BY <1>3, <2>2 DEF Contains
    <3>2. n + j \in 1 .. Len(q) /\ n + j # n
      BY <1>1
    <3> QED
      BY <3>1, <3>2 DEF Contains, Distinct
  <2>3. ASSUME NEW i, Contains(q, i), i # q[n]  PROVE Contains(a, i) \/ Contains(b, i)
    <3>1. PICK j \in 1 .. Len(q) : q[j] = i
      BY <2>3 DEF Contains
    <3>2. CASE j < n
      <4>1. j \in 1 .. Len(a) /\ a[j] = i
        BY <1>1, <1>2, <3>1, <3>2
      <4> QED
        BY <4>1 DEF Contains
    <3>3. CASE j > n
      <4>1. j - n \in 1 .. Len(b) /\ b[j - n] = q[n + (j - n)] /\ n + (j - n) = j
        BY <1>1, <1>3, <3>3
      <4> QED
        BY <3>1, <4>1 DEF Contains
    <3>4. j # n
      BY <2>3, <3>1
    <3> QED
      BY <1>1, <3>2, <3>3, <3>4
  <2> QED
    BY <2>1, <2>2, <2>3
<1>7. RemoveAt(q, n) = a \o b
  BY DEF RemoveAt, a, b
<1> QED
  BY <1>2, <1>3, <1>4, <1>5, <1>6, <1>7, Joined

-----------------------------------------------------------------------------
(* The inductive invariant                                                 *)

\* A level that waits or is with the user is the one that executes.
PanelInv ==
    /\ executing = None => ~ auto /\ ~ confirm
    /\ auto => ~ confirm
    /\ executing # None => status[executing] = "executing"

LevelsInv ==
    /\ \A i \in Orders : status[i] = "none" => side[i] = "unseen"
    /\ Distinct(queue)
    /\ ~ mounted => executing = None /\ \A i \in Orders : status[i] # "pending"

\* The quote fills the limit of the level at some price of the other asset.
Fills(i) == quote # None /\ \E usd \in Prices : QuoteFillsLimit(i, quote.output, usd)

\* The ticket, the quote and the request for one are the level's, but for another
\* asset that was not listed, and it is with the user on a quote that fills it.
TicketInv ==
    executing # None /\ ~ edited =>
        /\ ticket = executing
        /\ target = "counter" \/ unlisted
        /\ quote # None => quote.of = executing /\ quote.to = target
        /\ fetch # None => fetch.of = executing /\ fetch.to = target
        /\ confirm /\ ~ requoted /\ dialog.level = executing /\ ~ dialog.accepted =>
              Fills(executing) /\ fetch = None

\* The user is asked to sign what executes, before it is signed.
DialogInv ==
    /\ dialog.mode = "approve" => dialog.level = User
    /\ ~ astray =>
        /\ dialog.mode = "swap" /\ ~ dialog.accepted =>
              IF executing = None THEN dialog.level = User
              ELSE dialog.level = executing /\ confirm /\ swap # "pending"
        /\ confirm => dialog.mode # "approve"

\* A pending swap is that of the level that executes, if one does.
SignedInv ==
    ~ astray =>
        /\ auto => swap # "pending"
        /\ \A i \in Orders :
            /\ signed[i] \in {0, 1}
            /\ status[i] = "completed" => signed[i] = 1
            /\ status[i] \in {"none", "pending", "paused"} => signed[i] = 0
            /\ status[i] = "executing" =>
                 (signed[i] = 1 <=> executing = i /\ swap = "pending")

IInv ==
    /\ TypeOK
    /\ PanelInv
    /\ LevelsInv
    /\ TicketInv
    /\ DialogInv
    /\ SignedInv
    /\ NoFillLost

LEMMA SameQuoteFills ==
    ASSUME UNCHANGED <<executing, quote>>
    PROVE  Fills(executing)' = Fills(executing)
<1> QED
  BY DEF Fills, QuoteFillsLimit

LEMMA InitInvariant == Init => IInv
<1> SUFFICES ASSUME Init  PROVE IInv
  OBVIOUS
<1> USE PanelAssumption DEF Init, LevelsInit
<1>1. TypeOK
  <2>1. LevelsTypeOK
    BY DEF LevelsTypeOK, Statuses, Sides
  <2>2. queue \in Seq(Orders) /\ signed \in [Orders -> Nat]
    OBVIOUS
  <2>3. target \in Targets /\ swap \in Swaps
    BY DEF Targets, Swaps
  <2>4. /\ mounted \in BOOLEAN /\ auto \in BOOLEAN /\ confirm \in BOOLEAN
        /\ due \in BOOLEAN /\ edited \in BOOLEAN /\ astray \in BOOLEAN
        /\ unlisted \in BOOLEAN /\ requoted \in BOOLEAN
    OBVIOUS
  <2> QED
    BY <2>1, <2>2, <2>3, <2>4 DEF TypeOK
<1>2. PanelInv /\ TicketInv
  BY DEF PanelInv, TicketInv
<1>3. LevelsInv
  BY DEF LevelsInv, Distinct
<1>4. DialogInv /\ SignedInv
  BY DEF DialogInv, SignedInv, NoDialog
<1>5. NoFillLost
  BY DEF NoFillLost, Pending
<1> QED
  BY <1>1, <1>2, <1>3, <1>4, <1>5 DEF IInv

-----------------------------------------------------------------------------
(* What the panel takes up                                                 *)

\* With the statuses s, the next level of the queue is taken up, if any.
Taken(s) ==
    /\ executing' \in Orders \cup {None}
    /\ queue' \in Seq(Orders) /\ Distinct(queue')
    /\ \A i \in Orders :
          Contains(queue, i) /\ s[i] = "pending" => i = executing' \/ Contains(queue', i)
    /\ confirm' = FALSE /\ edited' = FALSE /\ requoted' = FALSE
    /\ unlisted' \in BOOLEAN /\ target' \in Targets
    /\ executing' = None => status' = s /\ auto' = FALSE /\ UNCHANGED quoteVars
    /\ executing' # None =>
          /\ s[executing'] = "pending"
          /\ status' = [s EXCEPT ![executing'] = "executing"]
          /\ auto' = TRUE
          /\ ticket' = executing' /\ quote' = None /\ fetch' = None /\ due' = TRUE
          /\ target' = "counter" \/ unlisted'

LEMMA StartedTicket ==
    ASSUME TypeOK, NEW i \in Orders, NEW waiting, NEW s, Start(i, waiting, s)
    PROVE  /\ unlisted' \in BOOLEAN /\ target' \in Targets
           /\ target' = "counter" \/ unlisted'
<1>1. target' = "counter" \/ target' = target
  BY DEF Start, SelectTarget
<1>2. unlisted' = (target' # "counter")
  BY DEF Start, SelectTarget
<1>3. unlisted' \in BOOLEAN
  BY <1>2
<1> QED
  BY <1>1, <1>2, <1>3 DEF TypeOK, Targets

LEMMA TakeNextEffect ==
    ASSUME TypeOK, Distinct(queue), NEW s \in [Orders -> Statuses], TakeNext(s)
    PROVE  Taken(s)
<1> DEFINE live == {n \in 1 .. Len(queue) : s[queue[n]] = "pending"}
<1>1. queue \in Seq(Orders) /\ Len(queue) \in Nat
      /\ \A n \in 1 .. Len(queue) : queue[n] \in Orders
  BY LenProperties, ElementOfSeq DEF TypeOK
<1>2. CASE live = {} /\ Idle(s)
  <2>1. \A i : ~ (Contains(queue, i) /\ s[i] = "pending")
    BY <1>2 DEF Contains
  <2>2. queue' \in Seq(Orders) /\ Distinct(queue')
    BY <1>2 DEF Idle, Distinct
  <2> QED
    BY <1>2, <2>1, <2>2 DEF Idle, Taken, TypeOK, quoteVars
<1>3. ASSUME NEW n \in live, \A m \in live : n <= m,
             Start(queue[n], SubSeq(queue, n + 1, Len(queue)), s)
      PROVE  Taken(s)
  <2> DEFINE i == queue[n]
             rest == SubSeq(queue, n + 1, Len(queue))
  <2>1. i \in Orders /\ i # None /\ s[i] = "pending"
    BY <1>1, PanelAssumption
  <2>2. rest \in Seq(Orders) /\ Distinct(rest)
        /\ \A m \in 1 .. Len(queue) : m > n => Contains(rest, queue[m])
    BY <1>1, RestOfLevels
  <2>3. ASSUME NEW j, Contains(queue, j), s[j] = "pending"
        PROVE  j = i \/ Contains(rest, j)
    <3>1. PICK m \in 1 .. Len(queue) : queue[m] = j
      BY <2>3 DEF Contains
    <3>2. m \in live
      BY <2>3, <3>1
    <3>3. n <= m /\ n \in Nat /\ m \in Nat
      BY <1>1, <1>3, <3>2
    <3>4. m = n \/ m > n
      BY <3>3
    <3> QED
      BY <2>2, <3>1, <3>4
  <2> HIDE DEF i, rest, live
  <2>4. Start(i, rest, s)
    BY <1>3 DEF i, rest
  <2>5. /\ unlisted' \in BOOLEAN /\ target' \in Targets
        /\ target' = "counter" \/ unlisted'
    BY <2>1, <2>4, StartedTicket
  <2> QED
    BY <2>1, <2>2, <2>3, <2>4, <2>5 DEF Start, Taken
<1> QED
  BY <1>2, <1>3 DEF TakeNext

LEMMA TakeUpEffect ==
    ASSUME TypeOK, Distinct(queue), NEW hits \in SUBSET Orders,
           \A i \in hits : status[i] = "pending", TakeUp(hits)
    PROVE  /\ \/ executing = None /\ executing' # None /\ Taken(status)
              \/ /\ UNCHANGED <<status, executing, auto, confirm, quoteVars, levelHistory>>
                 /\ queue' \in Seq(Orders) /\ Distinct(queue')
                 /\ \A i : Contains(queue, i) => Contains(queue', i)
           /\ \A i \in hits : i = executing \/ i = executing' \/ Contains(queue', i)
<1> DEFINE new == {i \in hits : i # executing /\ ~ Contains(queue, i)}
<1>1. PICK fresh \in InOrder(new) :
         IF executing = None /\ fresh # <<>>
         THEN Start(Head(fresh), queue \o Tail(fresh), status)
         ELSE /\ queue' = queue \o fresh
              /\ UNCHANGED <<status, executing, auto, confirm, quoteVars, levelHistory>>
  BY DEF TakeUp
<1>2. queue \in Seq(Orders)
  BY DEF TypeOK
<1>3. fresh \in Seq(Orders) /\ Distinct(fresh) /\ \A i : Contains(fresh, i) <=> i \in new
  <2>1. new \in SUBSET Orders
    OBVIOUS
  <2> HIDE DEF new
  <2> QED
    BY <2>1, OrderedLevels
<1>4. \A i : Contains(queue, i) => ~ Contains(fresh, i)
  BY <1>3
<1>5. CASE executing = None /\ fresh # <<>>
  <2>1. /\ Head(fresh) \in Orders /\ Tail(fresh) \in Seq(Orders) /\ Distinct(Tail(fresh))
        /\ \A i : Contains(fresh, i) <=> i = Head(fresh) \/ Contains(Tail(fresh), i)
    BY <1>3, <1>5, TailOfLevels
  <2> DEFINE h == Head(fresh)
             t == Tail(fresh)
  <2> HIDE DEF h, t, new
  <2>2. \A i : Contains(queue, i) => ~ Contains(t, i)
    BY <1>4, <2>1 DEF t
  <2>3. queue \o t \in Seq(Orders) /\ Distinct(queue \o t)
        /\ \A i : Contains(queue \o t, i) <=> Contains(queue, i) \/ Contains(t, i)
    BY <1>2, <2>1, <2>2, Joined DEF t
  <2>4. h \in Orders /\ h # None /\ h \in new
    BY <1>3, <2>1, PanelAssumption DEF h
  <2>5. status[h] = "pending"
    BY <2>4 DEF new
  <2>6. Start(h, queue \o t, status)
    BY <1>1, <1>5 DEF h, t
  <2>7. Taken(status) /\ executing' # None
    <3>1. /\ unlisted' \in BOOLEAN /\ target' \in Targets
          /\ target' = "counter" \/ unlisted'
      BY <2>4, <2>6, StartedTicket
    <3> QED
      BY <2>3, <2>4, <2>5, <2>6, <3>1 DEF Start, Taken
  <2>8. \A i \in hits : i = executing \/ i = executing' \/ Contains(queue', i)
    <3>1. executing' = h /\ queue' = queue \o t
      BY <2>6 DEF Start
    <3>2. \A i \in hits : i = executing \/ Contains(queue, i) \/ i \in new
      BY DEF new
    <3> QED
      BY <1>3, <2>1, <2>3, <3>1, <3>2 DEF h, t
  <2> QED
    BY <1>5, <2>7, <2>8
<1>6. CASE ~ (executing = None /\ fresh # <<>>)
  <2>1. queue \o fresh \in Seq(Orders) /\ Distinct(queue \o fresh)
        /\ \A i : Contains(queue \o fresh, i) <=> Contains(queue, i) \/ Contains(fresh, i)
    BY <1>2, <1>3, <1>4, Joined
  <2>2. /\ queue' = queue \o fresh
        /\ UNCHANGED <<status, executing, auto, confirm, quoteVars, levelHistory>>
    BY <1>1, <1>6
  <2>3. \A i \in hits : i = executing \/ Contains(queue, i) \/ i \in new
    OBVIOUS
  <2> HIDE DEF new
  <2> QED
    BY <1>3, <2>1, <2>2, <2>3
<1> QED
  BY <1>5, <1>6

-----------------------------------------------------------------------------
(* A level ends                                                            *)

\* The level that executes ends as x, and the next one is taken up.
LevelEnded(x) ==
    /\ executing # None
    /\ Taken([status EXCEPT ![executing] = x])
    /\ side' = IF x = "pending" THEN [side EXCEPT ![executing] = "unseen"] ELSE side

LEMMA FailEffect ==
    ASSUME IInv, executing # None, Fail
    PROVE  LevelEnded("failed")
<1>1. [status EXCEPT ![executing] = "failed"] \in [Orders -> Statuses]
  BY DEF IInv, TypeOK, LevelsTypeOK, Statuses
<1> QED
  BY <1>1, TakeNextEffect DEF IInv, LevelsInv, Fail, LevelEnded

LEMMA RearmEffect ==
    ASSUME IInv, executing # None, Rearm
    PROVE  LevelEnded("pending")
<1>1. [status EXCEPT ![executing] = "pending"] \in [Orders -> Statuses]
  BY DEF IInv, TypeOK, LevelsTypeOK, Statuses
<1> QED
  BY <1>1, TakeNextEffect DEF IInv, LevelsInv, Rearm, LevelEnded

LEMMA EndedKeeps ==
    ASSUME IInv, NEW x \in {"failed", "pending", "completed"}, LevelEnded(x),
           UNCHANGED <<prices, inFlight, mounted, approval, signed, detours>>,
           dialog' \in {dialog, NoDialog}, swap' \in Swaps, astray' \in BOOLEAN,
           ~ astray' => /\ ~ astray /\ swap' # "pending"
                        /\ ~ (dialog'.mode = "swap" /\ ~ dialog'.accepted)
                        /\ x = "completed" => signed[executing] = 1
                        /\ x = "pending" => signed[executing] = 0
    PROVE  IInv'
<1> DEFINE s == [status EXCEPT ![executing] = x]
           next == executing'
<1>1. /\ executing \in Orders /\ status \in [Orders -> Statuses]
      /\ side \in [Orders -> Sides] /\ None \notin Orders
      /\ x \in Statuses /\ x \notin {"none", "executing", "paused"}
  BY PanelAssumption DEF IInv, TypeOK, LevelsTypeOK, LevelEnded, Statuses
<1>2. /\ Taken(s) /\ s \in [Orders -> Statuses] /\ s[executing] = x
      /\ \A i \in Orders : i # executing => s[i] = status[i]
  BY <1>1 DEF LevelEnded
<1>3. /\ side' \in [Orders -> Sides]
      /\ \A i \in Orders : i # executing => side'[i] = side[i]
      /\ x = "pending" => side'[executing] = "unseen"
      /\ x # "pending" => side' = side
  BY <1>1 DEF LevelEnded, Sides
<1> HIDE DEF s
<1>4. /\ status' \in [Orders -> Statuses]
      /\ next \in Orders => status'[next] = "executing" /\ s[next] = "pending" /\ auto'
      /\ next \notin Orders => next = None /\ ~ auto'
      /\ \A i \in Orders : i # next => status'[i] = s[i]
  BY <1>1, <1>2 DEF Taken, Statuses
<1>5. TypeOK'
  <2>1. LevelsTypeOK'
    BY <1>3, <1>4 DEF IInv, TypeOK, LevelsTypeOK
  <2>2. (/\ mounted \in BOOLEAN /\ executing \in Orders \cup {None} /\ queue \in Seq(Orders)
         /\ auto \in BOOLEAN /\ confirm \in BOOLEAN /\ edited \in BOOLEAN
         /\ unlisted \in BOOLEAN /\ requoted \in BOOLEAN)'
    BY <1>2 DEF IInv, TypeOK, Taken
  <2>3. (/\ ticket \in Tickets \cup {None} /\ target \in Targets
         /\ quote \in Quotes \cup {None}
         /\ fetch \in Requests \cup {None} /\ due \in BOOLEAN)'
    BY <1>2 DEF IInv, TypeOK, Taken, quoteVars, Tickets
  <2>4. (/\ dialog \in Dialogs \cup {NoDialog} /\ swap \in Swaps
         /\ approval \in {"none", "sent", "handled"} /\ signed \in [Orders -> Nat]
         /\ astray \in BOOLEAN /\ detours \in Nat)'
    BY DEF IInv, TypeOK, NoDialog, Dialogs, Tickets
  <2> QED
    BY <2>1, <2>2, <2>3, <2>4 DEF TypeOK
<1>6. PanelInv'
  BY <1>1, <1>2, <1>4 DEF PanelInv, Taken
<1>7. LevelsInv'
  <2>1. \A i \in Orders : status'[i] = "none" => i # executing /\ status[i] = "none"
    BY <1>1, <1>2, <1>4
  <2>2. mounted'
    BY DEF IInv, LevelsInv, LevelEnded, TypeOK
  <2> QED
    BY <1>2, <1>3, <2>1, <2>2 DEF IInv, LevelsInv, Taken
<1>8. TicketInv'
  <2>1. executing' # None => ticket' = executing' /\ quote' = None /\ fetch' = None
                             /\ (target' = "counter" \/ unlisted') /\ confirm' = FALSE
    BY <1>2 DEF Taken
  <2> QED
    BY <2>1 DEF TicketInv
<1>9. DialogInv'
  BY <1>2 DEF IInv, DialogInv, Taken, NoDialog
<1>10. SignedInv'
  <2> SUFFICES ASSUME ~ astray'  PROVE SignedInv'
    BY DEF SignedInv
  <2>1. \A i \in Orders :
           /\ signed[i] \in {0, 1}
           /\ s[i] = "completed" => signed[i] = 1
           /\ s[i] \in {"none", "pending", "paused"} => signed[i] = 0
           /\ s[i] = "executing" => signed[i] = 0
    BY <1>1, <1>2 DEF IInv, SignedInv, PanelInv, LevelEnded
  <2>2. \A i \in Orders :
           /\ signed'[i] \in {0, 1}
           /\ status'[i] = "completed" => signed'[i] = 1
           /\ status'[i] \in {"none", "pending", "paused"} => signed'[i] = 0
           /\ status'[i] = "executing" => signed'[i] = 0
    BY <1>4, <2>1
  <2> QED
    BY <2>2 DEF SignedInv
<1>11. NoFillLost'
  <2> SUFFICES ASSUME NEW i \in Orders, status'[i] = "pending", side'[i] \in FillSide(i)
               PROVE  Contains(queue', i)
    BY DEF NoFillLost, Pending
  <2>1. i # next /\ s[i] = "pending"
    BY <1>4
  <2>2. i # executing
    <3>1. "unseen" \notin FillSide(i)
      BY DEF FillSide
    <3> QED
      BY <1>2, <1>3, <2>1, <3>1
  <2>3. status[i] = "pending" /\ side[i] \in FillSide(i)
    BY <1>2, <1>3, <2>1, <2>2
  <2>4. Contains(queue, i)
    BY <2>3 DEF IInv, NoFillLost, Pending
  <2> QED
    BY <1>2, <2>1, <2>4 DEF Taken
<1> QED
  BY <1>5, <1>6, <1>7, <1>8, <1>9, <1>10, <1>11 DEF IInv

-----------------------------------------------------------------------------
(* The chart                                                               *)

LEMMA MountKeeps ==
    ASSUME IInv, Mount
    PROVE  IInv'
<1>1. /\ status \in [Orders -> Statuses] /\ side \in [Orders -> Sides] /\ executing = None
      /\ status' = [i \in Orders |-> IF status[i] = "paused" THEN "pending" ELSE status[i]]
      /\ side' = [i \in Orders |-> IF status[i] = "paused" THEN "unseen" ELSE side[i]]
      /\ UNCHANGED <<prices, inFlight, executing, queue, auto, confirm, ticket, quote,
                     fetch, due, dialog, swap, approval, history, detours>>
      /\ mounted' /\ mounted' \in BOOLEAN /\ target' \in Targets
  BY DEF IInv, TypeOK, LevelsTypeOK, LevelsInv, Mount, Resumed, Forgotten
<1>2. TypeOK'
  <2>1. status' \in [Orders -> Statuses] /\ side' \in [Orders -> Sides]
    BY <1>1 DEF Statuses, Sides
  <2> QED
    BY <1>1, <2>1 DEF IInv, TypeOK, LevelsTypeOK, quoteVars, history, levelHistory
<1>3. PanelInv' /\ TicketInv' /\ DialogInv'
  BY <1>1 DEF IInv, PanelInv, TicketInv, DialogInv, quoteVars, history, levelHistory
<1>4. LevelsInv'
  BY <1>1 DEF IInv, LevelsInv, Distinct
<1>5. SignedInv'
  BY <1>1 DEF IInv, SignedInv, quoteVars, history, levelHistory
<1>6. NoFillLost'
  <2> SUFFICES ASSUME NEW i \in Orders, status'[i] = "pending", side'[i] \in FillSide(i)
               PROVE  Contains(queue', i)
    BY DEF NoFillLost, Pending
  <2>1. status[i] = "pending" /\ side[i] \in FillSide(i)
    BY <1>1 DEF FillSide
  <2> QED
    BY <1>1, <2>1 DEF IInv, NoFillLost, Pending
<1> QED
  BY <1>2, <1>3, <1>4, <1>5, <1>6 DEF IInv

LEMMA UnmountKeeps ==
    ASSUME IInv, Unmount
    PROVE  IInv'
<1> DEFINE back == [i \in Orders |-> IF swap = "initial" /\ status[i] = "executing"
                                     THEN "pending" ELSE status[i]]
<1>1. /\ status \in [Orders -> Statuses] /\ side \in [Orders -> Sides]
      /\ back \in [Orders -> Statuses]
  BY DEF IInv, TypeOK, LevelsTypeOK, Statuses
<1>2. /\ status' = [i \in Orders |-> IF back[i] = "pending" THEN "paused" ELSE back[i]]
      /\ side' = [i \in Orders |-> IF back[i] = "pending" THEN "unseen" ELSE side[i]]
      /\ executing' = None /\ queue' = <<>> /\ ~ auto' /\ ~ confirm' /\ ~ edited'
      /\ unlisted' = FALSE /\ requoted' = FALSE /\ approval' = "none"
      /\ target' = "counter"
      /\ mounted' = FALSE /\ ticket' = None /\ quote' = None /\ fetch' = None /\ ~ due'
      /\ dialog' = NoDialog /\ swap' = "initial"
      /\ auto' \in BOOLEAN /\ confirm' \in BOOLEAN /\ due' \in BOOLEAN /\ edited' \in BOOLEAN
      /\ astray' = (astray \/ (executing # None /\ swap = "pending"))
      /\ UNCHANGED <<prices, inFlight, signed>> /\ detours' = detours + 1
  BY DEF Unmount, Paused, Forgotten, Detour
<1>3. TypeOK'
  <2>1. status' \in [Orders -> Statuses] /\ side' \in [Orders -> Sides]
    BY <1>1, <1>2 DEF Statuses, Sides
  <2>2. LevelsTypeOK'
    BY <1>2, <2>1 DEF IInv, TypeOK, LevelsTypeOK
  <2>3. queue' \in Seq(Orders)
    BY <1>2
  <2>4. astray' \in BOOLEAN
    BY <1>2
  <2>5. detours' \in Nat /\ signed' \in [Orders -> Nat]
    BY <1>2 DEF IInv, TypeOK
  <2>6. executing' \in Orders \cup {None} /\ mounted' \in BOOLEAN
    BY <1>2
  <2>7. dialog' \in Dialogs \cup {NoDialog} /\ swap' \in Swaps
    BY <1>2 DEF Swaps
  <2>8. (/\ ticket \in Tickets \cup {None} /\ quote \in Quotes \cup {None}
         /\ fetch \in Requests \cup {None} /\ target \in Targets)'
    BY <1>2 DEF Targets
  <2> QED
    BY <1>2, <2>2, <2>3, <2>4, <2>5, <2>6, <2>7, <2>8 DEF TypeOK
<1>4. PanelInv' /\ TicketInv' /\ DialogInv'
  BY <1>2, PanelAssumption DEF PanelInv, TicketInv, DialogInv, NoDialog
<1>5. LevelsInv'
  <2>1. \A i \in Orders : status'[i] = "none" => status[i] = "none" /\ side'[i] = side[i]
    BY <1>1, <1>2
  <2>2. Distinct(queue')
    BY <1>2 DEF Distinct
  <2>3. \A i \in Orders : status'[i] # "pending"
    BY <1>1, <1>2
  <2> QED
    BY <1>2, <2>1, <2>2, <2>3 DEF IInv, LevelsInv
<1>6. SignedInv'
  <2> SUFFICES ASSUME ~ astray', NEW i \in Orders
               PROVE  /\ signed[i] \in {0, 1}
                      /\ status'[i] = "completed" => signed[i] = 1
                      /\ status'[i] \in {"none", "pending", "paused"} => signed[i] = 0
                      /\ status'[i] = "executing" => signed[i] = 0
    BY <1>2 DEF SignedInv
  <2>1. ~ astray /\ ~ (executing # None /\ swap = "pending")
    BY <1>2
  <2>2. /\ signed[i] \in {0, 1}
        /\ status[i] = "completed" => signed[i] = 1
        /\ status[i] \in {"none", "pending", "paused"} => signed[i] = 0
        /\ status[i] = "executing" => signed[i] = 0
    BY <2>1, PanelAssumption DEF IInv, SignedInv
  <2> QED
    BY <1>1, <1>2, <2>2
<1>7. NoFillLost'
  BY <1>1, <1>2 DEF NoFillLost, Pending
<1> QED
  BY <1>3, <1>4, <1>5, <1>6, <1>7 DEF IInv

LEMMA PlaceOrderKeeps ==
    ASSUME IInv, NEW i \in Orders, PlaceOrder(i)
    PROVE  IInv'
<1>1. /\ mounted /\ status[i] = "none" /\ status' = [status EXCEPT ![i] = "pending"]
      /\ status \in [Orders -> Statuses]
      /\ UNCHANGED <<side, prices, inFlight, panelVars, quoteVars, dialog, swap, approval,
                     history, detours>>
  BY DEF IInv, TypeOK, LevelsTypeOK, PlaceOrder, AddLevel
<1>2. TypeOK'
  BY <1>1 DEF IInv, TypeOK, LevelsTypeOK, Statuses, panelVars, quoteVars, history,
              levelHistory
<1>3. PanelInv' /\ TicketInv' /\ DialogInv'
  <2>1. UNCHANGED <<executing, quote>>
    BY <1>1 DEF panelVars, quoteVars
  <2> QED
    BY <1>1, <2>1, SameQuoteFills
       DEF IInv, TypeOK, PanelInv, TicketInv, DialogInv, panelVars, quoteVars, history,
           levelHistory
<1>4. LevelsInv'
  BY <1>1 DEF IInv, LevelsInv, Distinct, panelVars
<1>5. SignedInv'
  BY <1>1 DEF IInv, SignedInv, panelVars, history, levelHistory
<1>6. NoFillLost'
  <2>1. side[i] = "unseen"
    BY <1>1 DEF IInv, LevelsInv
  <2> QED
    BY <1>1, <2>1 DEF IInv, NoFillLost, Pending, FillSide, panelVars
<1> QED
  BY <1>2, <1>3, <1>4, <1>5, <1>6 DEF IInv

LEMMA RemoveLevelKeeps ==
    ASSUME IInv, NEW i \in Orders, RemoveLevel(i)
    PROVE  IInv'
<1>1. /\ status[i] \in {"pending", "paused", "completed", "failed"}
      /\ status' = [status EXCEPT ![i] = "removed"] /\ status \in [Orders -> Statuses]
      /\ UNCHANGED <<side, prices, inFlight, mounted, executing, auto, confirm,
                     quoteVars, dialog, swap, approval, history>>
      /\ detours' = detours + 1
  BY DEF IInv, TypeOK, LevelsTypeOK, RemoveLevel, Removable, Detour
<1>2. /\ queue' \in Seq(Orders) /\ Distinct(queue')
      /\ \A j : Contains(queue', j) <=> Contains(queue, j) /\ j # i
  <2>1. CASE ~ Contains(queue, i) /\ UNCHANGED queue
    BY <2>1 DEF IInv, TypeOK, LevelsInv
  <2>2. ASSUME NEW n \in 1 .. Len(queue), queue[n] = i, queue' = RemoveAt(queue, n)
        PROVE  /\ queue' \in Seq(Orders) /\ Distinct(queue')
               /\ \A j : Contains(queue', j) <=> Contains(queue, j) /\ j # i
    BY <2>2, RemovedLevel DEF IInv, TypeOK, LevelsInv
  <2> QED
    BY <2>1, <2>2 DEF RemoveLevel
<1>3. TypeOK'
  <2>1. LevelsTypeOK'
    BY <1>1 DEF IInv, TypeOK, LevelsTypeOK, Statuses
  <2> QED
    BY <1>1, <1>2, <2>1 DEF IInv, TypeOK, quoteVars, history, levelHistory
<1>4. PanelInv' /\ TicketInv' /\ DialogInv'
  <2>1. UNCHANGED <<executing, quote>>
    BY <1>1 DEF quoteVars
  <2> QED
    BY <1>1, <2>1, SameQuoteFills
       DEF IInv, TypeOK, PanelInv, TicketInv, DialogInv, quoteVars, history, levelHistory
<1>5. LevelsInv'
  BY <1>1, <1>2 DEF IInv, LevelsInv
<1>6. SignedInv'
  BY <1>1 DEF IInv, SignedInv, history, levelHistory
<1>7. NoFillLost'
  BY <1>1, <1>2 DEF IInv, NoFillLost, Pending
<1> QED
  BY <1>3, <1>4, <1>5, <1>6, <1>7 DEF IInv

LEMMA EditTicketKeeps ==
    ASSUME IInv, EditTicket \/ ChangeTarget
    PROVE  IInv'
<1>1. /\ UNCHANGED <<levelVars, panelVars, dialog, swap, approval, signed, astray,
                     unlisted, requoted>>
      /\ edited' = (executing # None) /\ edited' \in BOOLEAN
      /\ detours' = detours + 1
  BY DEF EditTicket, ChangeTarget, Detour
<1>2. (/\ ticket \in Tickets \cup {None} /\ target \in Targets
       /\ quote \in Quotes \cup {None} /\ fetch \in Requests \cup {None}
       /\ due \in BOOLEAN)'
  <2>1. CASE EditTicket
    BY <2>1 DEF EditTicket, IInv, TypeOK, Tickets
  <2>2. CASE ChangeTarget
    <3>1. due' \in BOOLEAN
      BY <2>2 DEF ChangeTarget
    <3> QED
      BY <2>2, <3>1 DEF ChangeTarget, IInv, TypeOK
  <2> QED
    BY <2>1, <2>2
<1>3. TypeOK'
  BY <1>1, <1>2 DEF IInv, TypeOK, LevelsTypeOK, levelVars, panelVars
<1>4. PanelInv' /\ LevelsInv' /\ NoFillLost'
  BY <1>1 DEF IInv, PanelInv, LevelsInv, NoFillLost, Distinct, Pending, levelVars, panelVars
<1>5. TicketInv' /\ DialogInv'
  BY <1>1 DEF IInv, TicketInv, DialogInv, panelVars
<1>6. SignedInv'
  BY <1>1 DEF IInv, SignedInv, levelVars, panelVars
<1> QED
  BY <1>3, <1>4, <1>5, <1>6 DEF IInv

-----------------------------------------------------------------------------
(* Crossings and quotes                                                    *)

LEMMA PollsKeep ==
    ASSUME IInv, AskForPrices \/ \E a \in Pools : NoPriceArrives(a)
    PROVE  IInv'
<1>1. /\ inFlight' \subseteq Pools
      /\ UNCHANGED <<status, side, prices, panelVars, quoteVars, dialog, swap, approval,
                     history, detours>>
  BY DEF IInv, TypeOK, LevelsTypeOK, AskForPrices, Poll, AssetsToPoll, NoPriceArrives,
         FetchFails
<1>2. TypeOK'
  BY <1>1 DEF IInv, TypeOK, LevelsTypeOK, panelVars, quoteVars, history, levelHistory
<1>3. PanelInv' /\ LevelsInv' /\ NoFillLost'
  BY <1>1 DEF IInv, PanelInv, LevelsInv, NoFillLost, Distinct, Pending, panelVars
<1>4. TicketInv' /\ DialogInv' /\ SignedInv'
  <2>1. UNCHANGED <<executing, quote>>
    BY <1>1 DEF panelVars, quoteVars
  <2> QED
    BY <1>1, <2>1, SameQuoteFills
       DEF IInv, TicketInv, DialogInv, SignedInv, panelVars, quoteVars, history,
           levelHistory
<1> QED
  BY <1>2, <1>3, <1>4 DEF IInv

(* A level that was not where it fills, and is, is among the hits.         *)
LEMMA PriceArrivesKeeps ==
    ASSUME IInv, NEW a \in Pools, NEW p \in Prices, PriceArrives(a, p)
    PROVE  IInv'
<1> DEFINE known == [prices EXCEPT ![a] = p]
           hits == Hits(known)
<1>1. /\ status \in [Orders -> Statuses] /\ side \in [Orders -> Sides]
      /\ side' = NextSides(known) /\ TakeUp(hits)
      /\ inFlight' = inFlight \ {a} /\ prices' = known
      /\ astray' = (astray \/ (executing # executing' /\ OwnTrade))
      /\ UNCHANGED <<mounted, dialog, swap, approval, signed, detours>>
  BY DEF IInv, TypeOK, LevelsTypeOK, PriceArrives, Publish
<1>2. /\ side' \in [Orders -> Sides]
      /\ \A i \in Orders :
            side'[i] = IF status[i] = "pending" /\ SideOf(i, known) # "unseen"
                       THEN SideOf(i, known) ELSE side[i]
  <2> HIDE DEF known
  <2>1. \A i \in Orders : SideOf(i, known) \in Sides
    BY DEF SideOf, Sides
  <2> QED
    BY <1>1, <2>1 DEF NextSides, Pending
<1>3. prices' \in [Pools -> Prices \cup {Unknown}] /\ inFlight' \subseteq Pools
  BY <1>1 DEF IInv, TypeOK, LevelsTypeOK
<1>4. \A i \in Orders : status[i] = "pending" /\ side'[i] \in FillSide(i) =>
                           i \in hits \/ Contains(queue, i)
  <2> SUFFICES ASSUME NEW i \in Orders, status[i] = "pending", side'[i] \in FillSide(i),
                      i \notin hits
               PROVE  Contains(queue, i)
    OBVIOUS
  <2>1. "unseen" \notin FillSide(i)
    BY DEF FillSide
  <2>2. ~ Crosses(i, side[i], SideOf(i, known))
    BY DEF Hits, Pending
  <2> HIDE DEF known, hits
  <2>3. side[i] \in FillSide(i)
    BY <1>2, <2>1, <2>2 DEF Crosses
  <2> QED
    BY <2>3 DEF IInv, NoFillLost, Pending
<1>5. hits \in SUBSET Orders /\ \A i \in hits : status[i] = "pending"
  BY DEF Hits, Pending
<1> HIDE DEF known, hits
<1>6. /\ \/ executing = None /\ executing' # None /\ Taken(status)
         \/ /\ UNCHANGED <<status, executing, auto, confirm, quoteVars, levelHistory>>
            /\ queue' \in Seq(Orders) /\ Distinct(queue')
            /\ \A i : Contains(queue, i) => Contains(queue', i)
      /\ \A i \in hits : i = executing \/ i = executing' \/ Contains(queue', i)
  BY <1>1, <1>5, TakeUpEffect DEF IInv, LevelsInv
<1>7. \A i \in Orders : status[i] = "none" => side'[i] = "unseen"
  BY <1>2 DEF IInv, LevelsInv
<1>8. astray' \in BOOLEAN
  BY <1>1
<1>9. CASE executing = None /\ executing' # None /\ Taken(status)
  <2> DEFINE next == executing'
  <2>1. /\ next \in Orders /\ status[next] = "pending" /\ auto' = TRUE /\ ~ confirm'
        /\ confirm' = FALSE /\ edited' = FALSE /\ queue' \in Seq(Orders) /\ Distinct(queue')
        /\ status' = [status EXCEPT ![next] = "executing"]
        /\ ticket' = next /\ quote' = None /\ fetch' = None /\ due' = TRUE
        /\ unlisted' \in BOOLEAN /\ requoted' = FALSE /\ target' \in Targets
        /\ target' = "counter" \/ unlisted'
    BY <1>9 DEF Taken
  <2>2. TypeOK'
    <3>1. LevelsTypeOK'
      BY <1>1, <1>2, <1>3, <2>1 DEF LevelsTypeOK, Statuses
    <3> QED
      BY <1>1, <1>8, <2>1, <3>1 DEF IInv, TypeOK, Tickets
  <2>3. PanelInv' /\ TicketInv'
    BY <1>1, <1>9, <2>1 DEF PanelInv, TicketInv
  <2>4. LevelsInv'
    <3>1. \A i \in Orders : status'[i] = "none" => status[i] = "none"
      BY <1>1, <2>1
    <3>2. mounted'
      BY <1>1, <2>1 DEF IInv, LevelsInv
    <3> QED
      BY <1>1, <1>7, <2>1, <3>1, <3>2 DEF LevelsInv
  <2>5. ~ astray' => ~ astray /\ dialog.mode # "swap" /\ swap # "pending"
    BY <1>1, <1>9 DEF OwnTrade
  <2>6. DialogInv'
    BY <1>1, <2>1, <2>5 DEF IInv, DialogInv
  <2>7. SignedInv'
    BY <1>1, <1>9, <2>1, <2>5 DEF IInv, SignedInv
  <2>8. NoFillLost'
    <3>1. \A i \in Orders : status'[i] = "pending" => status[i] = "pending" /\ i # next
      BY <1>1, <2>1
    <3> QED
      BY <1>4, <1>6, <1>9, <3>1, PanelAssumption DEF NoFillLost, Pending, Taken
  <2> QED
    BY <2>2, <2>3, <2>4, <2>6, <2>7, <2>8 DEF IInv
<1>10. CASE /\ UNCHANGED <<status, executing, auto, confirm, quoteVars, levelHistory>>
            /\ queue' \in Seq(Orders) /\ Distinct(queue')
            /\ \A i : Contains(queue, i) => Contains(queue', i)
  <2>1. TypeOK'
    <3>1. LevelsTypeOK'
      BY <1>1, <1>2, <1>3, <1>10 DEF LevelsTypeOK
    <3> QED
      BY <1>1, <1>8, <1>10, <3>1 DEF IInv, TypeOK, quoteVars, levelHistory
  <2>2. PanelInv' /\ LevelsInv'
    BY <1>1, <1>7, <1>10 DEF IInv, PanelInv, LevelsInv
  <2>3. TicketInv' /\ DialogInv' /\ SignedInv'
    <3>1. UNCHANGED <<executing, quote>>
      BY <1>10 DEF quoteVars
    <3> QED
      BY <1>1, <1>10, <3>1, SameQuoteFills
         DEF IInv, TicketInv, DialogInv, SignedInv, quoteVars, levelHistory
  <2>4. NoFillLost'
    <3>1. \A i \in Orders : i = executing => status[i] # "pending"
      BY PanelAssumption DEF IInv, PanelInv
    <3> QED
      BY <1>4, <1>6, <1>10, <3>1 DEF NoFillLost, Pending
  <2> QED
    BY <2>1, <2>2, <2>3, <2>4 DEF IInv
<1> QED
  BY <1>6, <1>9, <1>10

(* A quote is asked for what is on the ticket; if that is the level's, so  *)
(* is the request.                                                         *)
LEMMA AskForQuoteKeeps ==
    ASSUME IInv, AskForQuote \/ ApprovalConfirmed
    PROVE  IInv'
<1>1. /\ UNCHANGED <<levelVars, panelVars, ticket, target, dialog, swap, signed, astray,
                     edited, unlisted, detours>>
      /\ due' \in BOOLEAN /\ requoted' \in BOOLEAN
      /\ approval' \in {"none", "sent", "handled"}
  BY DEF AskForQuote, ApprovalConfirmed, IInv, TypeOK, panelVars, history, levelHistory
<1>2. /\ quote' \in Quotes \cup {None} /\ fetch' \in Requests \cup {None}
      /\ quote' = quote \/ quote' = None
      /\ \/ fetch' = fetch
         \/ ticket # None /\ fetch' = [of |-> ticket, to |-> target]
  <2>1. CASE UNCHANGED <<quote, fetch>>
    BY <2>1 DEF IInv, TypeOK
  <2>2. CASE FetchQuote /\ ticket # None
    BY <2>2 DEF FetchQuote, IInv, TypeOK, Requests
  <2> QED
    BY <2>1, <2>2 DEF AskForQuote, ApprovalConfirmed
<1>3. TypeOK'
  BY <1>1, <1>2 DEF IInv, TypeOK, LevelsTypeOK, levelVars, panelVars
<1>4. PanelInv' /\ LevelsInv' /\ NoFillLost'
  BY <1>1 DEF IInv, PanelInv, LevelsInv, NoFillLost, Distinct, Pending, levelVars, panelVars
<1>5. TicketInv'
  <2>1. confirm => requoted' \/ dialog = NoDialog
    BY DEF AskForQuote, ApprovalConfirmed, QuotesPaused
  <2>2. dialog = NoDialog => dialog.level = None
    BY DEF NoDialog
  <2> QED
    BY <1>1, <1>2, <2>1, <2>2 DEF IInv, TicketInv, panelVars
<1>6. DialogInv' /\ SignedInv'
  BY <1>1 DEF IInv, DialogInv, SignedInv, levelVars, panelVars
<1> QED
  BY <1>3, <1>4, <1>5, <1>6 DEF IInv

LEMMA QuoteArrivesKeeps ==
    ASSUME IInv, QuoteArrives
    PROVE  IInv'
<1>1. /\ fetch \in Requests /\ fetch # None /\ fetch' = None
      /\ UNCHANGED <<levelVars, panelVars, ticket, target, due, dialog, swap, approval,
                     history, detours>>
  BY DEF QuoteArrives, IInv, TypeOK
<1>2. /\ quote' \in Quotes \cup {None}
      /\ quote' # None => quote' = quote \/ (quote'.of = fetch.of /\ quote'.to = fetch.to)
  BY <1>1 DEF QuoteArrives, IInv, TypeOK, Quotes, Requests
<1>3. TypeOK'
  BY <1>1, <1>2 DEF IInv, TypeOK, LevelsTypeOK, levelVars, panelVars, history, levelHistory
<1>4. PanelInv' /\ LevelsInv' /\ NoFillLost'
  BY <1>1 DEF IInv, PanelInv, LevelsInv, NoFillLost, Distinct, Pending, levelVars, panelVars
<1>5. TicketInv'
  BY <1>1, <1>2 DEF IInv, TicketInv, panelVars, history, levelHistory
<1>6. DialogInv' /\ SignedInv'
  BY <1>1 DEF IInv, DialogInv, SignedInv, levelVars, panelVars, history, levelHistory
<1> QED
  BY <1>3, <1>4, <1>5, <1>6 DEF IInv

(* While a level waits for its quote no swap is pending and it is not with *)
(* the user.                                                               *)
LEMMA WaitFails ==
    ASSUME IInv, QuoteRefused \/ TimeIsUp
    PROVE  IInv'
<1>1. /\ auto /\ Fail
      /\ UNCHANGED <<prices, inFlight, mounted, dialog, swap, approval, signed, astray,
                     detours>>
  BY DEF QuoteRefused, QuoteChecked, TimeIsUp
<1>2. executing # None /\ ~ confirm /\ swap \in Swaps /\ astray \in BOOLEAN
  BY <1>1 DEF IInv, TypeOK, PanelInv
<1>3. LevelEnded("failed")
  BY <1>1, <1>2, FailEffect
<1>4. ~ astray => swap # "pending" /\ ~ (dialog.mode = "swap" /\ ~ dialog.accepted)
  BY <1>1, <1>2 DEF IInv, SignedInv, DialogInv
<1> QED
  BY <1>1, <1>2, <1>3, <1>4, EndedKeeps

LEMMA QuoteConfirmedKeeps ==
    ASSUME IInv, QuoteConfirmed
    PROVE  IInv'
<1>1. /\ auto /\ Fills(executing) /\ fetch = None
      /\ auto' = FALSE /\ confirm' = TRUE /\ due' = TRUE
      /\ dialog' = [mode |-> "swap", level |-> executing, accepted |-> FALSE]
      /\ UNCHANGED <<levelVars, mounted, executing, queue, ticket, target, quote, fetch,
                     swap, approval, history, detours>>
  <2>1. CounterUsd \subseteq Prices
    BY DEF CounterUsd, IInv, TypeOK, LevelsTypeOK, Pools
  <2> QED
    BY <2>1 DEF QuoteConfirmed, QuoteChecked, Fills
<1>2. executing \in Orders /\ executing # None
  BY <1>1 DEF IInv, TypeOK, PanelInv
<1>3. TypeOK'
  <2>1. dialog' \in Dialogs
    BY <1>1, <1>2 DEF Dialogs, Tickets
  <2> QED
    BY <1>1, <2>1 DEF IInv, TypeOK, LevelsTypeOK, levelVars, history, levelHistory
<1>4. PanelInv' /\ LevelsInv' /\ NoFillLost'
  BY <1>1, <1>2 DEF IInv, PanelInv, LevelsInv, NoFillLost, Distinct, Pending, levelVars
<1>5. TicketInv'
  <2>1. Fills(executing)'
    BY <1>1 DEF Fills, QuoteFillsLimit
  <2> QED
    BY <1>1, <2>1 DEF IInv, TicketInv, history, levelHistory
<1>6. DialogInv'
  BY <1>1, <1>2 DEF IInv, DialogInv, SignedInv, history, levelHistory
<1>7. SignedInv'
  BY <1>1 DEF IInv, SignedInv, levelVars, history, levelHistory
<1> QED
  BY <1>3, <1>4, <1>5, <1>6, <1>7 DEF IInv

-----------------------------------------------------------------------------
(* Dialogs and the swap                                                    *)

LEMMA OpenOwnDialogKeeps ==
    ASSUME IInv, NEW mode \in {"swap", "approve"}, OpenOwnDialog(mode)
    PROVE  IInv'
<1>1. /\ mode = "swap" => fetch = None /\ quote # None
      /\ dialog' = [mode |-> mode, level |-> User, accepted |-> FALSE]
      /\ due' = TRUE
      /\ astray' = (astray \/ (executing # None /\ (mode = "swap" \/ confirm)))
      /\ UNCHANGED <<levelVars, panelVars, ticket, target, quote, fetch, swap, approval,
                     signed, levelHistory>>
      /\ detours' = detours + 1
  BY DEF OpenOwnDialog, Detour
<1>2. /\ astray' \in BOOLEAN
      /\ ~ astray' => ~ astray /\ (executing = None \/ (mode = "approve" /\ ~ confirm))
  BY <1>1
<1>3. TypeOK'
  <2>1. dialog' \in Dialogs
    BY <1>1 DEF Dialogs, Tickets
  <2> QED
    BY <1>1, <1>2, <2>1 DEF IInv, TypeOK, LevelsTypeOK, levelVars, panelVars, levelHistory
<1>4. PanelInv' /\ LevelsInv' /\ NoFillLost'
  BY <1>1 DEF IInv, PanelInv, LevelsInv, NoFillLost, Distinct, Pending, levelVars, panelVars
<1>5. TicketInv'
  <2>1. executing # User
    BY PanelAssumption DEF IInv, TypeOK
  <2> QED
    BY <1>1, <2>1 DEF IInv, TicketInv, panelVars, levelHistory
<1>6. DialogInv'
  BY <1>1, <1>2 DEF IInv, DialogInv, PanelInv, panelVars
<1>7. SignedInv'
  BY <1>1, <1>2 DEF IInv, SignedInv, levelVars, panelVars
<1> QED
  BY <1>3, <1>4, <1>5, <1>6, <1>7 DEF IInv

LEMMA MinOfTwo ==
    ASSUME NEW n \in Nat
    PROVE  Min({n, 2}) = IF n < 2 THEN n ELSE 2
<1> DEFINE m == IF n < 2 THEN n ELSE 2
<1>1. m \in {n, 2} /\ \A y \in {n, 2} : m <= y
  OBVIOUS
<1>2. \A x \in {n, 2} : (\A y \in {n, 2} : x <= y) => x = m
  OBVIOUS
<1>3. Min({n, 2}) = CHOOSE x \in {n, 2} : \A y \in {n, 2} : x <= y
  BY DEF Min
<1> HIDE DEF m
<1>4. Min({n, 2}) = m
  BY <1>1, <1>2, <1>3
<1> QED
  BY <1>4 DEF m

\* What the acceptance of a dialog does, by the OK of a Ledger or a vault.
Accepted ==
    /\ ~ dialog.accepted
    /\ dialog # NoDialog
    /\ Submit
    /\ dialog' \in {NoDialog, [dialog EXCEPT !.accepted = TRUE]}
    /\ UNCHANGED <<levelVars, panelVars, quoteVars, levelHistory, astray, detours>>

LEMMA AcceptedKeeps ==
    ASSUME IInv, Accepted
    PROVE  IInv'
<1>1. /\ dialog \in Dialogs /\ ~ dialog.accepted
      /\ UNCHANGED <<levelVars, panelVars, quoteVars, levelHistory, astray, detours>>
  BY DEF IInv, TypeOK, Accepted
<1>2. /\ dialog' \in Dialogs \cup {NoDialog}
      /\ dialog'.mode \in {dialog.mode, "none"}
      /\ dialog'.mode # "none" => dialog'.level = dialog.level /\ dialog'.accepted
  <2>1. CASE dialog' = NoDialog
    BY <2>1 DEF NoDialog
  <2>2. CASE dialog' = [dialog EXCEPT !.accepted = TRUE]
    <3>1. dialog' \in Dialogs /\ dialog'.mode = dialog.mode /\ dialog'.level = dialog.level
      BY <1>1, <2>2 DEF Dialogs
    <3>2. dialog'.accepted
      BY <1>1, <2>2 DEF Dialogs
    <3> QED
      BY <3>1, <3>2
  <2> QED
    BY <2>1, <2>2 DEF Accepted
<1>3. \/ UNCHANGED <<swap, signed>>
      \/ /\ dialog.mode = "swap" /\ swap' = "pending"
         /\ signed' = [i \in Orders |-> IF dialog.level = i THEN Min({signed[i] + 1, 2})
                                        ELSE signed[i]]
  BY DEF Accepted, Submit, SubmitSwap
<1>4. signed \in [Orders -> Nat]
  BY DEF IInv, TypeOK
<1>5. /\ signed' \in [Orders -> Nat] /\ swap' \in Swaps
      /\ \A i \in Orders : dialog.level # i => signed'[i] = signed[i]
      /\ \A i \in Orders :
            dialog.level = i /\ swap' = "pending" /\ swap # "pending" /\ signed[i] = 0 =>
                signed'[i] = 1
  <2>1. \A i \in Orders : Min({signed[i] + 1, 2}) = IF signed[i] + 1 < 2 THEN signed[i] + 1 ELSE 2
    BY <1>4, MinOfTwo
  <2>2. \A i \in Orders : Min({signed[i] + 1, 2}) \in Nat
                          /\ (signed[i] = 0 => Min({signed[i] + 1, 2}) = 1)
    BY <1>4, <2>1
  <2> QED
    BY <1>3, <1>4, <2>2 DEF IInv, TypeOK, Swaps
<1>6. TypeOK'
  <2>1. approval' \in {"none", "sent", "handled"}
    BY DEF Accepted, Submit, SubmitApproval, IInv, TypeOK
  <2>2. LevelsTypeOK'
    BY <1>1 DEF IInv, TypeOK, LevelsTypeOK, levelVars
  <2> QED
    BY <1>1, <1>2, <1>5, <2>1, <2>2 DEF IInv, TypeOK, panelVars, quoteVars, levelHistory
<1>7. PanelInv' /\ LevelsInv' /\ NoFillLost'
  BY <1>1 DEF IInv, PanelInv, LevelsInv, NoFillLost, Distinct, Pending, levelVars, panelVars
<1>8. TicketInv'
  <2>1. executing # None => dialog'.accepted \/ dialog'.level # executing
    <3>1. dialog' \in Dialogs => dialog'.mode # "none"
      BY DEF Dialogs
    <3>2. dialog' = NoDialog => dialog'.level = None
      BY DEF NoDialog
    <3> QED
      BY <1>2, <3>1, <3>2
  <2> QED
    BY <1>1, <2>1 DEF IInv, TicketInv, panelVars, quoteVars, levelHistory
<1>9. DialogInv'
  BY <1>1, <1>2 DEF IInv, DialogInv, panelVars
<1>10. SignedInv'
  <2>1. CASE UNCHANGED <<swap, signed>>
    BY <1>1, <2>1 DEF IInv, SignedInv, levelVars, panelVars
  <2>2. CASE dialog.mode = "swap" /\ swap' = "pending"
             /\ ~ UNCHANGED <<swap, signed>> /\ ~ astray
    <3>1. CASE executing = None
      <4>1. dialog.level = User /\ User \notin Orders /\ ~ auto
        BY <1>1, <2>2, <3>1, PanelAssumption DEF IInv, DialogInv, PanelInv
      <4> QED
        BY <1>1, <1>5, <2>2, <3>1, <4>1, PanelAssumption
           DEF IInv, SignedInv, levelVars, panelVars
    <3>2. CASE executing # None
      <4>1. /\ dialog.level = executing /\ swap # "pending" /\ ~ auto
            /\ executing \in Orders /\ status[executing] = "executing"
        BY <1>1, <2>2, <3>2 DEF IInv, TypeOK, DialogInv, PanelInv
      <4>2. signed[executing] = 0
        BY <2>2, <4>1 DEF IInv, SignedInv
      <4>3. signed'[executing] = 1
        BY <1>5, <2>2, <4>1, <4>2
      <4>4. \A i \in Orders : i # executing => signed'[i] = signed[i]
        BY <1>5, <4>1
      <4> QED
        BY <1>1, <2>2, <4>1, <4>3, <4>4 DEF IInv, SignedInv, levelVars, panelVars
    <3> QED
      BY <3>1, <3>2
  <2>3. CASE astray
    BY <1>1, <2>3 DEF SignedInv
  <2> QED
    BY <1>3, <2>1, <2>2, <2>3
<1> QED
  BY <1>6, <1>7, <1>8, <1>9, <1>10 DEF IInv

LEMMA DismissedKeeps ==
    ASSUME IInv, CloseDialog
    PROVE  IInv'
<1>1. /\ dialog \in Dialogs /\ dialog' = NoDialog
      /\ UNCHANGED <<prices, inFlight, mounted, approval, signed, detours>>
  BY DEF CloseDialog, IInv, TypeOK
<1>2. /\ swap' \in Swaps /\ astray' \in BOOLEAN
      /\ \/ swap' = "initial" /\ (~ astray' => ~ astray /\ ~ (executing # None /\ swap = "pending"))
         \/ swap' = swap /\ astray' = astray
  BY DEF CloseDialog, IInv, TypeOK, Swaps
<1>3. ~ dialog'.mode \in {"swap", "approve"}
  BY <1>1 DEF NoDialog
<1>4. CASE ~ dialog.accepted /\ confirm
  <2>1. executing # None /\ ~ auto
    BY <1>4 DEF IInv, PanelInv
  <2>2. LevelEnded("pending")
    BY <1>4, <2>1, RearmEffect DEF CloseDialog, Dismiss
  <2>3. ~ astray => swap # "pending" /\ signed[executing] = 0
    <3>1. ~ astray => dialog.mode = "swap" /\ swap # "pending"
      BY <1>1, <1>4, <2>1 DEF IInv, DialogInv, Dialogs
    <3> QED
      BY <2>1, <3>1 DEF IInv, TypeOK, PanelInv, SignedInv
  <2>4. ~ astray' => ~ astray /\ swap' # "pending"
    BY <1>2, <2>3
  <2> QED
    BY <1>1, <1>2, <1>3, <2>2, <2>3, <2>4, EndedKeeps
<1>5. CASE dialog.accepted \/ ~ confirm
  <2>1. UNCHANGED <<status, side, executing, queue, auto, confirm, quoteVars, levelHistory>>
    BY <1>5 DEF CloseDialog, Dismiss
  <2>2. TypeOK'
    BY <1>1, <1>2, <2>1 DEF IInv, TypeOK, LevelsTypeOK, quoteVars, levelHistory
  <2>3. PanelInv' /\ LevelsInv' /\ NoFillLost'
    BY <1>1, <2>1 DEF IInv, PanelInv, LevelsInv, NoFillLost, Distinct, Pending
  <2>4. TicketInv' /\ DialogInv'
    BY <1>1, <1>3, <2>1 DEF IInv, TicketInv, DialogInv, NoDialog, quoteVars, levelHistory
  <2>5. SignedInv'
    BY <1>1, <1>2, <2>1, PanelAssumption DEF IInv, SignedInv
  <2> QED
    BY <2>2, <2>3, <2>4, <2>5 DEF IInv
<1> QED
  BY <1>4, <1>5

LEMMA SwapSettlesKeeps ==
    ASSUME IInv, SwapSettles
    PROVE  IInv'
<1>1. /\ swap = "pending"
      /\ UNCHANGED <<side, prices, inFlight, mounted, dialog, approval, signed, astray,
                     detours>>
  BY DEF SwapSettles
<1>2. PICK result \in {"success", "failure"} :
         /\ swap' = result
         /\ IF executing = None
            THEN UNCHANGED <<status, executing, queue, auto, confirm, quoteVars, levelHistory>>
            ELSE TakeNext([status EXCEPT ![executing] =
                               IF result = "success" THEN "completed" ELSE "failed"])
  BY DEF SwapSettles
<1>3. swap' \in Swaps /\ swap' # "pending" /\ astray' \in BOOLEAN
  BY <1>1, <1>2 DEF IInv, TypeOK, Swaps
<1>4. CASE executing # None
  <2> DEFINE x == IF result = "success" THEN "completed" ELSE "failed"
  <2>1. x \in {"failed", "completed"}
    OBVIOUS
  <2>2. TakeNext([status EXCEPT ![executing] = x])
    BY <1>2, <1>4
  <2> HIDE DEF x
  <2>3. [status EXCEPT ![executing] = x] \in [Orders -> Statuses]
    BY <2>1 DEF IInv, TypeOK, LevelsTypeOK, Statuses
  <2>4. LevelEnded(x)
    BY <1>1, <1>4, <2>1, <2>2, <2>3, TakeNextEffect DEF IInv, LevelsInv, LevelEnded
  <2>5. ~ astray => signed[executing] = 1
    BY <1>1, <1>4 DEF IInv, TypeOK, PanelInv, SignedInv
  <2>6. ~ astray => ~ (dialog.mode = "swap" /\ ~ dialog.accepted)
    BY <1>1, <1>4 DEF IInv, DialogInv
  <2> QED
    BY <1>1, <1>3, <2>1, <2>4, <2>5, <2>6, EndedKeeps
<1>5. CASE executing = None
  <2>1. UNCHANGED <<status, executing, queue, auto, confirm, quoteVars, levelHistory>>
    BY <1>2, <1>5
  <2>2. TypeOK'
    BY <1>1, <1>3, <2>1 DEF IInv, TypeOK, LevelsTypeOK, quoteVars, levelHistory
  <2>3. PanelInv' /\ LevelsInv' /\ NoFillLost'
    BY <1>1, <2>1 DEF IInv, PanelInv, LevelsInv, NoFillLost, Distinct, Pending
  <2>4. TicketInv' /\ DialogInv'
    BY <1>1, <1>5, <2>1 DEF IInv, TicketInv, DialogInv, PanelInv, quoteVars, levelHistory
  <2>5. SignedInv'
    BY <1>1, <1>3, <1>5, <2>1, PanelAssumption DEF IInv, SignedInv
  <2> QED
    BY <2>2, <2>3, <2>4, <2>5 DEF IInv
<1> QED
  BY <1>4, <1>5

(* The receipt is left; a swap that is pending then leads astray.          *)
LEMMA ReceiptKeeps ==
    ASSUME IInv, CloseReceipt \/ FinishReceipt
    PROVE  IInv'
<1>1. /\ UNCHANGED <<levelVars, panelVars, dialog, signed>> /\ swap' = "initial"
      /\ due' \in BOOLEAN /\ edited' \in BOOLEAN /\ astray' \in BOOLEAN /\ detours' \in Nat
      /\ approval' \in {"none", "sent", "handled"} /\ UNCHANGED <<target, unlisted>>
      /\ requoted' \in BOOLEAN
      /\ ticket' \in Tickets \cup {None} /\ quote' \in Quotes \cup {None}
      /\ fetch' \in Requests \cup {None}
  <2>1. CASE CloseReceipt
    BY <2>1 DEF CloseReceipt, Detour, IInv, TypeOK, levelHistory
  <2>2. CASE FinishReceipt
    BY <2>2 DEF FinishReceipt, IInv, TypeOK, panelVars
  <2> QED
    BY <2>1, <2>2
<1>2. ~ astray' => ~ astray /\ ~ (executing # None /\ swap = "pending")
  BY DEF CloseReceipt, FinishReceipt
<1>3. \/ UNCHANGED <<ticket, quote, fetch, edited, requoted>>
      \/ edited' = (executing # None)
  BY DEF CloseReceipt, FinishReceipt, levelHistory
<1>4. TypeOK'
  BY <1>1 DEF IInv, TypeOK, LevelsTypeOK, Swaps, levelVars, panelVars
<1>5. PanelInv' /\ LevelsInv' /\ NoFillLost'
  BY <1>1 DEF IInv, PanelInv, LevelsInv, NoFillLost, Distinct, Pending, levelVars, panelVars
<1>6. TicketInv'
  <2>1. CASE UNCHANGED <<ticket, quote, fetch, edited, requoted>>
    <3>1. UNCHANGED <<executing, quote>>
      BY <1>1, <2>1 DEF panelVars
    <3> QED
      BY <1>1, <2>1, <3>1, SameQuoteFills DEF IInv, TicketInv, panelVars
  <2>2. CASE edited' = (executing # None)
    BY <1>1, <2>2 DEF TicketInv, panelVars
  <2> QED
    BY <1>3, <2>1, <2>2
<1>7. DialogInv'
  BY <1>1, <1>2 DEF IInv, DialogInv, panelVars
<1>8. SignedInv'
  BY <1>1, <1>2, PanelAssumption DEF IInv, SignedInv, levelVars, panelVars
<1> QED
  BY <1>4, <1>5, <1>6, <1>7, <1>8 DEF IInv

-----------------------------------------------------------------------------
(* The theorems                                                            *)

LEMMA NextInvariant == IInv /\ [Next]_vars => IInv'
<1> SUFFICES ASSUME IInv, [Next]_vars  PROVE IInv'
  OBVIOUS
<1>1. CASE Mount
  BY <1>1, MountKeeps
<1>2. CASE Unmount
  BY <1>2, UnmountKeeps
<1>3. ASSUME NEW i \in Orders, PlaceOrder(i) \/ RemoveLevel(i)  PROVE IInv'
  BY <1>3, PlaceOrderKeeps, RemoveLevelKeeps
<1>4. CASE EditTicket \/ ChangeTarget
  BY <1>4, EditTicketKeeps
<1>5. CASE AskForPrices \/ \E a \in Pools : NoPriceArrives(a)
  BY <1>5, PollsKeep
<1>6. ASSUME NEW a \in Pools, NEW p \in Prices, PriceArrives(a, p)  PROVE IInv'
  BY <1>6, PriceArrivesKeeps
<1>7. CASE AskForQuote \/ ApprovalConfirmed
  BY <1>7, AskForQuoteKeeps
<1>8. CASE QuoteArrives
  BY <1>8, QuoteArrivesKeeps
<1>9. CASE QuoteRefused \/ TimeIsUp
  BY <1>9, WaitFails
<1>10. CASE QuoteConfirmed
  BY <1>10, QuoteConfirmedKeeps
<1>11. ASSUME NEW mode \in {"swap", "approve"}, OpenOwnDialog(mode)  PROVE IInv'
  BY <1>11, OpenOwnDialogKeeps
<1>12. CASE AcceptOnLedger \/ AcceptOnVault
  <2>1. Accepted
    BY <1>12 DEF AcceptOnLedger, AcceptOnVault, Accepted
  <2> QED
    BY <2>1, AcceptedKeeps
<1>13. CASE CloseDialog
  BY <1>13, DismissedKeeps
<1>14. CASE SwapSettles
  BY <1>14, SwapSettlesKeeps
<1>15. CASE CloseReceipt \/ FinishReceipt
  BY <1>15, ReceiptKeeps
<1>16. CASE UNCHANGED vars
  <2> USE <1>16 DEF vars, levelVars, panelVars, quoteVars, history, levelHistory
  <2>1. TypeOK'
    BY DEF IInv, TypeOK, LevelsTypeOK
  <2>2. PanelInv' /\ LevelsInv' /\ NoFillLost'
    BY DEF IInv, PanelInv, LevelsInv, NoFillLost, Distinct, Pending
  <2>3. TicketInv' /\ DialogInv' /\ SignedInv'
    BY SameQuoteFills DEF IInv, TicketInv, DialogInv, SignedInv
  <2> QED
    BY <2>1, <2>2, <2>3 DEF IInv
<1> QED
  BY <1>1, <1>2, <1>3, <1>4, <1>5, <1>6, <1>7, <1>8, <1>9, <1>10, <1>11, <1>12, <1>13,
     <1>14, <1>15, <1>16 DEF Next

LEMMA Invariant == Spec => []IInv
<1> QED
  BY InitInvariant, NextInvariant, PTL DEF Spec

(* The variables keep their types, for any set of levels.                  *)
THEOREM TypeCorrect == Spec => []TypeOK
<1>1. IInv => TypeOK
  BY DEF IInv
<1> QED
  BY Invariant, <1>1, PTL

(* No crossing is lost: whatever hits polls report while a level executes, *)
(* is dismissed, fails or settles, a pending level that was last seen      *)
(* where it fills is in the queue (crossings subscription,                 *)
(* limitApi.finish, setWatching).                                          *)
THEOREM NoCrossingIsLost == Spec => []NoFillLost
<1>1. IInv => NoFillLost
  BY DEF IInv
<1> QED
  BY Invariant, <1>1, PTL

(* An order is signed at most once, is not pending once it was signed and  *)
(* is completed only if it was, unless the panel went astray (dismissSwap, *)
(* the swap result effect, the cleanup of the chart).                      *)
THEOREM OrdersAreFilledOnce == Spec => []FilledOnce
<1>1. IInv => FilledOnce
  BY DEF IInv, SignedInv, FilledOnce
<1> QED
  BY Invariant, <1>1, PTL

(* The user is asked to sign what the order says: the dialog, the ticket   *)
(* and a quote for it are those of the level that executes, its other      *)
(* asset if that was listed when it started, and the quote fills the limit *)
(* unless an approval has asked for another (start, trigger effect,        *)
(* onApprovalConfirmed).                                                   *)
THEOREM TheOrderIsSigned == Spec => []SignsTheOrder
<1>1. IInv => SignsTheOrder
  <2> SUFFICES ASSUME IInv, dialog.level \in Orders, ~ dialog.accepted, ~ edited, ~ astray
               PROVE  /\ dialog.level = executing
                      /\ ticket = executing
                      /\ target = "counter" \/ unlisted
                      /\ quote # None => quote.of = ticket /\ quote.to = target
                      /\ requoted \/ Fills(executing)
    BY DEF SignsTheOrder, Fills
  <2>1. dialog \in Dialogs
    BY PanelAssumption DEF IInv, TypeOK, NoDialog
  <2>2. dialog.level # User
    BY PanelAssumption
  <2>3. dialog.mode = "swap"
    BY <2>1, <2>2 DEF IInv, DialogInv, Dialogs
  <2>4. executing # None /\ dialog.level = executing /\ confirm
    BY <2>2, <2>3 DEF IInv, DialogInv
  <2> QED
    BY <2>3, <2>4 DEF IInv, TicketInv
<1> QED
  BY Invariant, <1>1, PTL

-----------------------------------------------------------------------------
(* The trackers of submitted swaps                                         *)

TrackingInv == TrackingTypeOK /\ OnePoll /\ ShownIsKnown

Map == [Txs -> Row \cup {NoRow}]

-----------------------------------------------------------------------------
LEMMA StoppedIsRow == ASSUME NEW row \in Row PROVE Stopped(row) \in Row
BY DEF Stopped, Row

LEMMA UpdatedIsRow ==
    ASSUME NEW row \in Row, NEW state \in States, now \in Nat
    PROVE  Updated(row, state) \in Row /\ Updated(row, state).state = state
<1>1. IsComplete(state) \in BOOLEAN BY DEF IsComplete
<1>2. (IF IsComplete(state) THEN now ELSE row.completedAt) \in Nat BY DEF Row
<1> QED BY <1>1, <1>2 DEF Updated, Row

\* A failed swap is never an unfinished one of another tracker than Chainflip.
LEMMA AnswersAreStates == ASSUME NEW row \in Row PROVE Answers(row) \subseteq States
BY DEF Answers, States

LEMMA StartedIsMap == ASSUME NEW map \in Map PROVE Started(map) \in Map
<1> SUFFICES ASSUME NEW t \in Txs PROVE Started(map)[t] \in Row \cup {NoRow}
  BY DEF Started, Map
<1>1. CASE map[t] # NoRow /\ Active(map[t]) /\ OverAge(map[t])
  BY <1>1, StoppedIsRow DEF Started, Map
<1>2. CASE ~(map[t] # NoRow /\ Active(map[t]) /\ OverAge(map[t]))
  BY <1>2 DEF Started, Map
<1> QED BY <1>1, <1>2

(* Whatever the handler left in the map, a reload restores the invariant.  *)
LEMMA ReloadRestores ==
    ASSUME NEW map \in Map, Reload(map), UNCHANGED tracker, now' \in Nat, TrackingTypeOK
    PROVE  TrackingInv'
<1>1. /\ rows' = Started(map)
      /\ shown' = rows'
      /\ settling' = TRUE
      /\ chains' = [t \in Txs |-> IF rows'[t] # NoRow /\ Active(rows'[t]) THEN 1 ELSE 0]
  BY DEF Reload
<1>2. rows' \in Map BY <1>1, StartedIsMap
<1>3. TrackingTypeOK'
  <2>1. tracker' \in Trackers BY DEF TrackingTypeOK
  <2>2. rows' \in [Txs -> Row \cup {NoRow}] BY <1>2 DEF Map
  <2>3. shown' \in [Txs -> Row \cup {NoRow}] BY <2>2, <1>1
  <2>4. chains' \in [Txs -> Nat] BY <1>1
  <2>5. settling' \in BOOLEAN BY <1>1
  <2> QED BY <2>1, <2>2, <2>3, <2>4, <2>5 DEF TrackingTypeOK
<1>4. OnePoll'
  <2> SUFFICES ASSUME NEW t \in Txs
               PROVE  IF Polled(t)' THEN chains'[t] = 1 \/ (Ended(t)' /\ chains'[t] = 0)
                                    ELSE chains'[t] = 0
    BY DEF OnePoll
  <2> QED BY <1>1 DEF Polled
<1>5. ShownIsKnown' BY <1>1 DEF ShownIsKnown
<1> QED BY <1>3, <1>4, <1>5 DEF TrackingInv

-----------------------------------------------------------------------------
LEMMA InitTrackingInv == TrackingInit => TrackingInv
<1> SUFFICES ASSUME TrackingInit PROVE TrackingInv OBVIOUS
<1>1. /\ tracker \in Trackers /\ now = 0 /\ settling = TRUE /\ shown = rows
      /\ rows = [t \in Txs |-> NoRow] /\ chains = [t \in Txs |-> 0]
  BY DEF TrackingInit
<1>2. TrackingTypeOK
  <2>1. settling \in BOOLEAN BY <1>1
  <2>2. /\ tracker \in Trackers /\ now \in Nat
        /\ rows \in [Txs -> Row \cup {NoRow}]
        /\ shown \in [Txs -> Row \cup {NoRow}]
        /\ chains \in [Txs -> Nat]
    BY <1>1
  <2> QED BY <2>1, <2>2 DEF TrackingTypeOK
<1>3. OnePoll BY <1>1 DEF OnePoll, Polled
<1>4. ShownIsKnown BY <1>1 DEF ShownIsKnown
<1> QED BY <1>2, <1>3, <1>4 DEF TrackingInv

(* An answer: the row completes or is too old and the reload restores the  *)
(* invariant, or only this transaction's entries change.                   *)
LEMMA ContinueKeeps ==
    ASSUME TrackingInv, NEW t \in Txs, NEW row \in Row, chains[t] > 0, Polled(t),
           Ended(t) => row.state = "failed",
           ~ row.pollingStopped, Continue(t, row), UNCHANGED <<tracker, now>>
    PROVE  TrackingInv'
<1> DEFINE map == [rows EXCEPT ![t] = row]
<1>0. TrackingTypeOK /\ OnePoll /\ ShownIsKnown BY DEF TrackingInv
<1>1. map \in Map /\ now' \in Nat BY <1>0 DEF TrackingTypeOK, Map
<1>2. CASE row.isComplete /\ Reload(map) BY <1>0, <1>1, <1>2, ReloadRestores
<1>3. CASE Reload([rows EXCEPT ![t] = Stopped(row)])
  <2>1. [rows EXCEPT ![t] = Stopped(row)] \in Map
    BY <1>0, StoppedIsRow DEF TrackingTypeOK, Map
  <2> QED BY <1>0, <1>1, <1>3, <2>1, ReloadRestores
<1>4. CASE /\ ~ row.isComplete /\ rows' = map
           /\ IF Silent(row)
              THEN /\ chains' = [chains EXCEPT ![t] = chains[t] - 1]
                   /\ UNCHANGED <<shown, settling>>
              ELSE /\ shown' = map
                   /\ settling' = TRUE
                   /\ UNCHANGED chains
  <2>1. chains[t] = 1 BY <1>0 DEF OnePoll
  <2>2. rows[t] # NoRow /\ rows \in Map /\ row # NoRow
    BY <1>0, NoRowAssumption DEF Polled, TrackingTypeOK, Map
  <2>3. rows'[t] = row /\ \A u \in Txs \ {t} : rows'[u] = rows[u]
    BY <1>4, <2>2 DEF Map
  <2>4. Polled(t)' BY <1>4, <2>2, <2>3 DEF Polled, Active
  <2>5. \A u \in Txs \ {t} : (Polled(u)' <=> Polled(u)) /\ (Ended(u)' <=> Ended(u))
    BY <2>3 DEF Polled, Ended, Silent
  <2>6. CASE Silent(row)
    <3>1. chains' = [chains EXCEPT ![t] = 0] /\ UNCHANGED <<shown, settling>>
      BY <1>4, <2>1, <2>6
    <3>2. Ended(t)' BY <2>2, <2>3, <2>6 DEF Ended, Silent
    <3>3. TrackingTypeOK'
      <4>1. tracker' \in Trackers /\ now' \in Nat BY <1>0 DEF TrackingTypeOK
      <4>2. rows' \in [Txs -> Row \cup {NoRow}] BY <1>1, <1>4 DEF Map
      <4>3. chains' \in [Txs -> Nat] BY <1>0, <3>1 DEF TrackingTypeOK
      <4>4. shown' \in [Txs -> Row \cup {NoRow}] BY <1>0, <3>1 DEF TrackingTypeOK
      <4>5. settling' \in BOOLEAN BY <1>0, <3>1 DEF TrackingTypeOK
      <4> QED BY <4>1, <4>2, <4>3, <4>4, <4>5 DEF TrackingTypeOK
    <3>4. OnePoll'
      <4> SUFFICES ASSUME NEW u \in Txs
                   PROVE  IF Polled(u)' THEN chains'[u] = 1 \/ (Ended(u)' /\ chains'[u] = 0)
                                        ELSE chains'[u] = 0
        BY DEF OnePoll
      <4>1. CASE u = t BY <1>0, <2>4, <3>1, <3>2, <4>1 DEF TrackingTypeOK
      <4>2. CASE u # t BY <1>0, <2>5, <3>1, <4>2 DEF OnePoll, TrackingTypeOK
      <4> QED BY <4>1, <4>2
    <3>5. shown[t] # NoRow BY <1>0, <2>2 DEF ShownIsKnown
    <3>6. ShownIsKnown' BY <1>0, <2>3, <2>5, <3>1, <3>2, <3>5 DEF ShownIsKnown
    <3> QED BY <3>3, <3>4, <3>6 DEF TrackingInv
  <2>7. CASE ~ Silent(row)
    <3>1. shown' = rows' /\ settling' = TRUE /\ chains' = chains BY <1>4, <2>7
    <3>2. TrackingTypeOK'
      <4>1. tracker' \in Trackers /\ now' \in Nat BY <1>0 DEF TrackingTypeOK
      <4>2. rows' \in [Txs -> Row \cup {NoRow}] BY <1>1, <1>4 DEF Map
      <4>3. shown' \in [Txs -> Row \cup {NoRow}] BY <3>1, <4>2
      <4>4. chains' \in [Txs -> Nat] BY <1>0, <3>1 DEF TrackingTypeOK
      <4>5. settling' \in BOOLEAN BY <3>1
      <4> QED BY <4>1, <4>2, <4>3, <4>4, <4>5 DEF TrackingTypeOK
    <3>3. OnePoll'
      <4> SUFFICES ASSUME NEW u \in Txs
                   PROVE  IF Polled(u)' THEN chains'[u] = 1 \/ (Ended(u)' /\ chains'[u] = 0)
                                        ELSE chains'[u] = 0
        BY DEF OnePoll
      <4>1. CASE u = t BY <2>1, <2>4, <3>1, <4>1
      <4>2. CASE u # t BY <1>0, <2>5, <3>1, <4>2 DEF OnePoll
      <4> QED BY <4>1, <4>2
    <3>4. ShownIsKnown' BY <3>1 DEF ShownIsKnown
    <3> QED BY <3>2, <3>3, <3>4 DEF TrackingInv
  <2> QED BY <2>6, <2>7
<1> QED BY <1>2, <1>3, <1>4 DEF Continue

LEMMA NextTrackingInv == TrackingInv /\ [TrackingNext]_trackingVars => TrackingInv'
<1> SUFFICES ASSUME TrackingInv, [TrackingNext]_trackingVars PROVE TrackingInv' OBVIOUS
<1>0. TrackingTypeOK /\ OnePoll /\ ShownIsKnown BY DEF TrackingInv
<1>a. rows \in Map /\ now \in Nat /\ tracker \in Trackers BY <1>0 DEF TrackingTypeOK, Map
<1>1. ASSUME NEW t \in Txs, AddTransaction(t) PROVE TrackingInv'
  <2> DEFINE row == [state |-> "unknown", startTime |-> now, isComplete |-> FALSE,
                     completedAt |-> 0, pollingStopped |-> FALSE]
  <2>1. row \in Row BY <1>a DEF Row, States
  <2>2. [rows EXCEPT ![t] = row] \in Map BY <1>a, <2>1 DEF Map
  <2> HIDE DEF row
  <2>3. Reload([rows EXCEPT ![t] = row]) /\ UNCHANGED <<tracker, now>>
    BY <1>1 DEF AddTransaction, row
  <2> QED BY <1>0, <1>a, <2>2, <2>3, ReloadRestores
<1>2. ASSUME NEW t \in Txs, RemoveTransaction(t) PROVE TrackingInv'
  <2>1. [rows EXCEPT ![t] = NoRow] \in Map BY <1>a DEF Map
  <2> QED BY <1>0, <1>2, <1>a, <2>1, ReloadRestores DEF RemoveTransaction
<1>3. ASSUME NEW t \in Txs, PollSucceeds(t) PROVE TrackingInv'
  <2>1. PICK state \in Answers(rows[t]) : Continue(t, Updated(rows[t], state))
    BY <1>3 DEF PollSucceeds
  <2>2. chains[t] > 0 /\ Polled(t) /\ UNCHANGED <<tracker, now>>
    BY <1>3 DEF PollSucceeds
  <2>3. rows[t] \in Row /\ ~ rows[t].pollingStopped
    BY <1>a, <2>2 DEF Polled, Active, Map
  <2>4. state \in States BY <2>1, <2>3, AnswersAreStates
  <2>5. Updated(rows[t], state) \in Row /\ Updated(rows[t], state).state = state
    BY <1>a, <2>3, <2>4, UpdatedIsRow
  <2>6. ~ Updated(rows[t], state).pollingStopped BY <2>3 DEF Updated, Row
  <2>7. Ended(t) => state = "failed" BY <2>1 DEF Ended, Silent, Answers
  <2> QED BY <2>1, <2>2, <2>5, <2>6, <2>7, ContinueKeeps
<1>4. ASSUME NEW t \in Txs, PollFails(t) PROVE TrackingInv'
  <2>1. chains[t] > 0 /\ Polled(t) /\ Continue(t, rows[t]) /\ UNCHANGED <<tracker, now>>
    BY <1>4 DEF PollFails
  <2>2. rows[t] \in Row /\ ~ rows[t].pollingStopped
    BY <1>a, <2>1 DEF Polled, Active, Map
  <2>3. Ended(t) => rows[t].state = "failed" BY DEF Ended, Silent
  <2> QED BY <2>1, <2>2, <2>3, ContinueKeeps
<1>5. CASE Cleanup
  <2>1. CASE Expired \cup Overdue = {}
    <3>1. UNCHANGED <<tracker, now, rows, chains, shown>> /\ settling' = FALSE
      BY <1>5, <2>1 DEF Cleanup
    <3>2. TrackingTypeOK'
      <4>1. settling' \in BOOLEAN BY <3>1
      <4> QED BY <1>0, <3>1, <4>1 DEF TrackingTypeOK
    <3>3. OnePoll' BY <1>0, <3>1 DEF OnePoll, Polled, Ended, Silent
    <3>4. ShownIsKnown' BY <1>0, <3>1 DEF ShownIsKnown, Ended, Silent
    <3> QED BY <3>2, <3>3, <3>4 DEF TrackingInv
  <2>2. CASE Expired \cup Overdue # {}
    <3> DEFINE map == [t \in Txs |-> IF t \in Expired THEN NoRow
                                     ELSE IF t \in Overdue THEN Stopped(rows[t])
                                     ELSE rows[t]]
    <3>1. ASSUME NEW t \in Txs PROVE map[t] \in Row \cup {NoRow}
      <4>1. CASE t \in Overdue
        <5>1. rows[t] # NoRow BY <1>0, <4>1 DEF Overdue, ShownIsKnown, Ended
        <5> QED BY <1>a, <5>1, StoppedIsRow DEF Map
      <4>2. CASE t \notin Overdue BY <1>a, <4>2 DEF Map
      <4> QED BY <4>1, <4>2
    <3>2. map \in Map BY <3>1 DEF Map
    <3> HIDE DEF map
    <3>3. Reload(map) /\ UNCHANGED <<tracker, now>> BY <1>5, <2>2 DEF Cleanup, map
    <3> QED BY <1>0, <1>a, <3>2, <3>3, ReloadRestores
  <2> QED BY <2>1, <2>2
<1>6. CASE Tick
  <2>1. now' \in Nat /\ UNCHANGED <<tracker, rows, chains, shown, settling>>
    BY <1>6, <1>a DEF Tick
  <2>2. TrackingTypeOK' BY <1>0, <2>1 DEF TrackingTypeOK
  <2>3. OnePoll' BY <1>0, <2>1 DEF OnePoll, Polled, Ended, Silent
  <2>4. ShownIsKnown' BY <1>0, <2>1 DEF ShownIsKnown, Ended, Silent
  <2> QED BY <2>2, <2>3, <2>4 DEF TrackingInv
<1>7. CASE UNCHANGED trackingVars
  <2>1. UNCHANGED <<tracker, now, rows, chains, shown, settling>> BY <1>7 DEF trackingVars
  <2>2. TrackingTypeOK' BY <1>0, <2>1 DEF TrackingTypeOK
  <2>3. OnePoll' BY <1>0, <2>1 DEF OnePoll, Polled, Ended, Silent
  <2>4. ShownIsKnown' BY <1>0, <2>1 DEF ShownIsKnown, Ended, Silent
  <2> QED BY <2>2, <2>3, <2>4 DEF TrackingInv
<1> QED BY <1>1, <1>2, <1>3, <1>4, <1>5, <1>6, <1>7 DEF TrackingNext, Answer

LEMMA TrackingInvAlways == TrackingSpec => []TrackingInv
BY InitTrackingInv, NextTrackingInv, PTL DEF TrackingSpec

-----------------------------------------------------------------------------
(* Every variable stays in its type.                                       *)
THEOREM TrackingTypeCorrect == TrackingSpec => []TrackingTypeOK
<1>1. TrackingInv => TrackingTypeOK BY DEF TrackingInv
<1> QED BY <1>1, TrackingInvAlways, PTL

(* However reloads, answers and the cleanup interleave, an unfinished      *)
(* transaction has exactly one chain of requests and any other none.       *)
THEOREM OnePollAlways == TrackingSpec => []OnePoll
<1>1. TrackingInv => OnePoll BY DEF TrackingInv
<1> QED BY <1>1, TrackingInvAlways, PTL

(* The list the screens were given last is the map of the service, but for *)
(* a failure of a Chainflip swap.                                          *)
THEOREM ShownIsKnownAlways == TrackingSpec => []ShownIsKnown
<1>1. TrackingInv => ShownIsKnown BY DEF TrackingInv
<1> QED BY <1>1, TrackingInvAlways, PTL

=================================================================================
