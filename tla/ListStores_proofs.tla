---------------------------- MODULE ListStores_proofs ----------------------------
(***************************************************************************)
(* The lists of the renderer for any items, calls in flight, changes and   *)
(* failures: what is shown and what is stored is what the user made of the *)
(* stored list, unless a change was computed from a list that was not the  *)
(* latest.                                                                 *)
(*                                                                         *)
(* Replaying is recursive, so its facts come first, from an induction over *)
(* the made changes (UpTo).                                                *)
(***************************************************************************)
EXTENDS ListStores, FileStore_proofs, SequenceTheorems, FiniteSetTheorems

-----------------------------------------------------------------------------
(* Replaying changes                                                       *)

(* Induction over 0 .. N.  If a number is outside S, the smallest interval *)
(* 0 .. n with such an n has a smaller one.                                *)
LEMMA UpTo ==
    ASSUME NEW N \in Nat, NEW S, 0 \in S, \A n \in 0 .. N - 1 : n \in S => n + 1 \in S
    PROVE  0 .. N \subseteq S
<1> SUFFICES ASSUME NEW z \in 0 .. N, z \notin S
             PROVE  FALSE
  OBVIOUS
<1> DEFINE T == {0 .. n : n \in (0 .. N) \ S}
           R == StrictSubsetOrdering(0 .. N)
<1>1. IsWellFoundedOn(R, SUBSET (0 .. N))
  <2>1. FiniteSubsetsOf(0 .. N) = SUBSET (0 .. N)
    <3>1. IsFiniteSet(0 .. N)
      BY FS_Interval
    <3> QED
      BY <3>1, FS_FiniteSubsetsOfFinite
  <2> QED
    BY <2>1, FS_StrictSubsetOrderingWellFounded
<1>2. T \subseteq SUBSET (0 .. N) /\ T # {}
  OBVIOUS
<1> HIDE DEF T, R
<1>3. PICK x \in T : \A y \in T : ~ (<<y, x>> \in R)
  BY <1>1, <1>2, WFMin
<1>4. PICK n \in (0 .. N) \ S : x = 0 .. n
  BY DEF T
<1>5. n # 0 /\ n - 1 \in 0 .. N - 1 /\ n - 1 + 1 = n
  BY <1>4
<1>6. n - 1 \notin S
  BY <1>4, <1>5
<1>7. 0 .. (n - 1) \in T
  BY <1>5, <1>6 DEF T
<1>8. /\ 0 .. (n - 1) \subseteq 0 .. n /\ 0 .. n \subseteq 0 .. N
      /\ 0 .. (n - 1) # 0 .. n
  <2>1. n \in 0 .. n /\ n \notin 0 .. (n - 1)
    BY <1>5
  <2> QED
    BY <1>5, <2>1
<1>9. <<0 .. (n - 1), x>> \in R
  BY <1>4, <1>8 DEF R, StrictSubsetOrdering
<1> QED
  BY <1>3, <1>7, <1>9

\* The lists on the way from a list, one for each change made.
Way(list, made, g) ==
    g[0] = list /\ \A k \in 1 .. Len(made) : g[k] = Applied(g[k - 1], made[k])

LEMMA WayExists ==
    ASSUME NEW list \in Values, NEW made \in Seq(Change)
    PROVE  \E g \in [0 .. Len(made) -> Values] : Way(list, made, g)
<1> DEFINE N == Len(made)
           S == {n \in 0 .. N : \E g \in [0 .. n -> Values] :
                    g[0] = list /\ \A k \in 1 .. n : g[k] = Applied(g[k - 1], made[k])}
<1>1. N \in Nat /\ \A k \in 1 .. N : made[k] \in Change
  BY LenProperties, ElementOfSeq
<1>2. 0 \in S
  <2> DEFINE g == [k \in 0 .. 0 |-> list]
  <2>1. g \in [0 .. 0 -> Values]
    OBVIOUS
  <2>2. g[0] = list
    OBVIOUS
  <2>3. \A k \in 1 .. 0 : FALSE
    OBVIOUS
  <2>4. 0 \in 0 .. N
    BY <1>1
  <2> HIDE DEF g
  <2>5. \A k \in 1 .. 0 : g[k] = Applied(g[k - 1], made[k])
    BY <2>3
  <2> QED
    BY <2>1, <2>2, <2>4, <2>5
<1>3. ASSUME NEW n \in 0 .. N - 1, n \in S
      PROVE  n + 1 \in S
  <2>1. PICK g \in [0 .. n -> Values] :
           g[0] = list /\ \A k \in 1 .. n : g[k] = Applied(g[k - 1], made[k])
    BY <1>3
  <2> DEFINE h == [k \in 0 .. n + 1 |-> IF k = n + 1 THEN Applied(g[n], made[n + 1]) ELSE g[k]]
  <2>2. n \in Nat /\ n + 1 \in 1 .. N /\ n + 1 \in 0 .. N /\ n + 1 # n
    BY <1>1
  <2>3. made[n + 1] \in Change /\ g[n] \in Values
    BY <1>1, <2>2
  <2>4. Applied(g[n], made[n + 1]) \in Values
    BY <2>3, ListsAssumption
  <2>5. h \in [0 .. n + 1 -> Values]
    <3>1. ASSUME NEW k \in 0 .. n + 1, k # n + 1
          PROVE  g[k] \in Values
      <4>1. k \in 0 .. n
        BY <2>2, <3>1
      <4> QED
        BY <4>1
    <3> QED
      BY <2>4, <3>1
  <2>6. h[0] = list
    BY <2>1, <2>2
  <2>7. ASSUME NEW k \in 1 .. n + 1
        PROVE  h[k] = Applied(h[k - 1], made[k])
    <3>1. CASE k = n + 1
      <4>1. k - 1 = n /\ n \in 0 .. n + 1 /\ k \in 0 .. n + 1
        BY <2>2, <3>1
      <4> QED
        BY <2>2, <3>1, <4>1
    <3>2. CASE k # n + 1
      <4>1. k \in 1 .. n /\ k \in 0 .. n + 1 /\ k - 1 \in 0 .. n + 1 /\ k - 1 # n + 1
        BY <2>2, <3>2
      <4> QED
        BY <2>1, <3>2, <4>1
    <3> QED
      BY <3>1, <3>2
  <2> HIDE DEF h
  <2> QED
    BY <2>2, <2>5, <2>6, <2>7
<1> HIDE DEF S
<1>4. 0 .. N \subseteq S
  BY <1>1, <1>2, <1>3, UpTo
<1>5. N \in S
  BY <1>1, <1>4
<1> QED
  BY <1>5 DEF S, Way

LEMMA WayIsUnique ==
    ASSUME NEW list, NEW made \in Seq(Change), NEW g, NEW h,
           Way(list, made, g), Way(list, made, h)
    PROVE  g[Len(made)] = h[Len(made)]
<1> DEFINE N == Len(made)
           S == {n \in 0 .. N : g[n] = h[n]}
<1>1. N \in Nat
  BY LenProperties
<1>2. 0 \in S
  BY <1>1 DEF Way
<1>3. ASSUME NEW n \in 0 .. N - 1, n \in S
      PROVE  n + 1 \in S
  <2>1. n + 1 \in 1 .. N /\ n + 1 - 1 = n /\ n + 1 \in 0 .. N
    BY <1>1
  <2>2. /\ g[n + 1] = Applied(g[n + 1 - 1], made[n + 1])
        /\ h[n + 1] = Applied(h[n + 1 - 1], made[n + 1])
    BY <2>1 DEF Way
  <2>3. g[n + 1] = Applied(g[n], made[n + 1]) /\ h[n + 1] = Applied(h[n], made[n + 1])
    BY <2>1, <2>2
  <2> QED
    BY <1>3, <2>1, <2>3
<1> HIDE DEF S
<1>4. 0 .. N \subseteq S
  BY <1>1, <1>2, <1>3, UpTo
<1> QED
  BY <1>1, <1>4 DEF S

(* Replaying leads to the end of the way.                                  *)
LEMMA ReplayedIsEnd ==
    ASSUME NEW list \in Values, NEW made \in Seq(Change), NEW g, Way(list, made, g)
    PROVE  Replayed(list, made) = g[Len(made)]
<1> DEFINE N == Len(made)
           after == CHOOSE after : after = [n \in 0 .. Len(made) |->
                        IF n = 0 THEN list ELSE Applied(after[n - 1], made[n])]
<1>1. N \in Nat
  BY LenProperties
<1>2. PICK h \in [0 .. N -> Values] : Way(list, made, h)
  BY WayExists
<1>3. h = [n \in 0 .. N |-> IF n = 0 THEN list ELSE Applied(h[n - 1], made[n])]
  <2>1. ASSUME NEW n \in 0 .. N
        PROVE  h[n] = IF n = 0 THEN list ELSE Applied(h[n - 1], made[n])
    <3>1. n = 0 \/ n \in 1 .. N
      BY <1>1
    <3> QED
      BY <1>2, <3>1 DEF Way
  <2> QED
    BY <2>1
<1>4. after = [n \in 0 .. N |-> IF n = 0 THEN list ELSE Applied(after[n - 1], made[n])]
  BY <1>3
<1>5. Replayed(list, made) = after[N]
  BY DEF Replayed
<1> HIDE DEF after
<1>6. Way(list, made, after)
  <2>1. after[0] = list
    BY <1>1, <1>4
  <2>2. ASSUME NEW k \in 1 .. N
        PROVE  after[k] = Applied(after[k - 1], made[k])
    <3>1. k \in 0 .. N /\ k # 0
      BY <1>1
    <3> QED
      BY <1>4, <3>1
  <2> QED
    BY <2>1, <2>2 DEF Way
<1> QED
  BY <1>5, <1>6, WayIsUnique

LEMMA ReplayedIsList ==
    ASSUME NEW list \in Values, NEW made \in Seq(Change)
    PROVE  Replayed(list, made) \in Values
<1>1. PICK g \in [0 .. Len(made) -> Values] : Way(list, made, g)
  BY WayExists
<1>2. Len(made) \in 0 .. Len(made)
  BY LenProperties
<1> QED
  BY <1>1, <1>2, ReplayedIsEnd

LEMMA ReplayedNothing ==
    ASSUME NEW list \in Values
    PROVE  Replayed(list, <<>>) = list
<1>1. Way(list, <<>>, [k \in {0} |-> list])
  BY DEF Way
<1> QED
  BY <1>1, ReplayedIsEnd

(* A change made during the load is replayed last.                         *)
LEMMA ReplayedOneMore ==
    ASSUME NEW list \in Values, NEW made \in Seq(Change), NEW change \in Change
    PROVE  Replayed(list, Append(made, change)) = Applied(Replayed(list, made), change)
<1> DEFINE N == Len(made)
           more == Append(made, change)
<1>1. /\ N \in Nat /\ more \in Seq(Change) /\ Len(more) = N + 1
      /\ \A k \in 1 .. N : more[k] = made[k]
      /\ more[N + 1] = change
  BY LenProperties, AppendProperties
<1> HIDE DEF more
<1>2. PICK g \in [0 .. Len(more) -> Values] : Way(list, more, g)
  BY <1>1, WayExists
<1>3. Way(list, made, g)
  BY <1>1, <1>2 DEF Way
<1>4. Replayed(list, more) = g[N + 1] /\ Replayed(list, made) = g[N]
  BY <1>1, <1>2, <1>3, ReplayedIsEnd
<1>5. N + 1 \in 1 .. Len(more) /\ N + 1 - 1 = N
  BY <1>1
<1>6. g[N + 1] = Applied(g[N], change)
  BY <1>1, <1>2, <1>5 DEF Way
<1> QED
  BY <1>4, <1>6 DEF more

-----------------------------------------------------------------------------
(* The inductive invariant                                                 *)

(* What a call carries, whatever goes wrong.                               *)
CallOK(c, call) ==
    /\ call.kind \in {"none", "get", "save"}
    /\ call.phase = "idle" <=> call.kind = "none"
    /\ call.kind = "get" => c = First
    /\ call.kind = "save" =>
          /\ call.partial \in Content
          /\ call.phase = "answered" => call.data = call.partial
    /\ call.phase \in {"opening", "filling"} =>
          \/ call.goal = "create"
          \/ call.goal = "save" /\ call.kind = "save" /\ call.data = call.partial

CallsInv == \A c \in Slots : CallOK(c, calls[c])

(* Only the favourites replay and queue.                                   *)
ClientInv ==
    /\ memory = None => client = "addresses"
    /\ hydrated \/ pending # <<>> \/ queue # <<>> => client = "favourites"
    /\ hydrated => pending = <<>>
    /\ queue # <<>> => hydrated
    /\ client = "favourites" => (hydrated <=> calls[First].kind # "get")

OneCall == \A c, d \in Slots : ~ Idle(c) /\ ~ Idle(d) => c = d

NoGet == \A c \in Slots : calls[c].kind # "get"

(* What is shown, what is underway and what the file holds, next to what   *)
(* the user asked for.                                                     *)
Shows == NoGet /\ (client = "addresses" => AllIdle) => memory = intent

Underway ==
    /\ behind => hydrated
    /\ queue # <<>> => queue[Len(queue)] = intent
    /\ AllIdle /\ queue = <<>> /\ ~ behind => Shown[List] = intent

Gets(c) ==
    /\ calls[c].phase # "rejected"
    /\ intent = Replayed(Shown[List], pending)
    /\ Writing(c) => calls[c].data = Defaults /\ Shown = Defaults
    /\ calls[c].phase = "answered" => calls[c].data = Shown

Saves(c) ==
    /\ queue = <<>> => calls[c].partial[List] = intent
    /\ calls[c].phase = "rejected" => client = "favourites"
    /\ calls[c].phase = "answered" => Shown = calls[c].partial

AskedInv ==
    /\ OneCall
    /\ Shows
    /\ Underway
    /\ \A c \in Slots :
          /\ calls[c].kind = "get" => Gets(c)
          /\ calls[c].kind = "save" => Saves(c)
          /\ calls[c].phase = "filling" => file.form = "empty"

IInv ==
    /\ TypeOK
    /\ CallsInv
    /\ ClientInv
    /\ ~ lost => AskedInv

-----------------------------------------------------------------------------
(* The one field of the file                                               *)

LEMMA ListContent ==
    ASSUME NEW content \in Content
    PROVE  /\ Clean(content) /\ content[List] \in Values
           /\ \A other \in Content : other[List] = content[List] => other = content
           /\ \A other \in Content : Over(content, other) = content
<1>1. content \in [{List} -> Values]
  BY ListAssumption DEF Content
<1>2. Clean(content) /\ content[List] \in Values
  BY <1>1, ListAssumption DEF Clean
<1>3. ASSUME NEW other \in Content, other[List] = content[List]
      PROVE  other = content
  <2>1. other \in [{List} -> Values]
    BY ListAssumption DEF Content
  <2> QED
    BY <1>1, <1>3, <2>1
<1>4. ASSUME NEW other \in Content
      PROVE  Over(content, other) = content
  <2>1. Over(content, other) = [f \in {List} |-> content[f]]
    BY <1>1, ListAssumption DEF Over
  <2> QED
    BY <1>1, <2>1
<1> QED
  BY <1>2, <1>3, <1>4

LEMMA ListSent ==
    ASSUME NEW list \in Values
    PROVE  [f \in {List} |-> list] \in Content /\ [f \in {List} |-> list][List] = list
BY ListAssumption DEF Content

(* A list names no endpoint, so no reader migrates the file.               *)
LEMMA ShownPlainly ==
    ASSUME FileTypeOK
    PROVE  /\ Shown \in Content
           /\ file.form = "json" => Shown = Over(file.data, Defaults)
           /\ file.form # "json" => Shown = Defaults
<1>1. Over(file.data, Defaults) \in Content
  BY OverIsContent, DefaultsAreClean DEF FileTypeOK
<1>2. MigrateNineRealmsUrls(Over(file.data, Defaults)) = Over(file.data, Defaults)
  BY <1>1, ListContent, MigratedIsClean
<1> QED
  BY <1>2, ShownIsClean DEF Shown

LEMMA ReadPlainly ==
    ASSUME FileTypeOK, NEW c \in Slots, Read(c)
    PROVE  /\ OnlyCall(c) /\ Has(c, Shown)
           /\ calls[c].phase = "reading"
           /\ UNCHANGED <<file, failures>> /\ disturbed' \in BOOLEAN
<1>1. calls' = [calls EXCEPT ![c] = Obtained(c, Shown)]
  BY ShownPlainly DEF Read
<1>2. disturbed' \in BOOLEAN
  BY DEF Read
<1> QED
  BY <1>1, <1>2, ShownPlainly, ObtainedEffect DEF Read

-----------------------------------------------------------------------------
(* Types and what the calls carry                                          *)

LEMMA InitInvariant == Init => IInv
<1> SUFFICES ASSUME Init  PROVE IInv
  OBVIOUS
<1>1. /\ FileInit /\ client \in Clients /\ memory = IF client = "addresses" THEN None ELSE <<>>
      /\ hydrated = FALSE /\ pending = <<>> /\ queue = <<>> /\ changes = 0
      /\ intent = Shown[List] /\ behind = FALSE /\ lost = FALSE
  BY DEF Init
<1>2. \A c \in Slots : calls[c] \in Call /\ calls \in [Slots -> Call]
  <2>1. Ask(First, "get", Defaults) \in Call
    BY AskFacts, DefaultsAreClean DEF Kinds
  <2> QED
    BY <2>1, NoCallFacts DEF Init
<1>3. /\ calls[First].kind = "get" /\ calls[First].phase = "checking"
      /\ \A c \in Slots : c # First => calls[c].kind = "none" /\ calls[c].phase = "idle"
  <2>1. Ask(First, "get", Defaults).kind = "get" /\ Ask(First, "get", Defaults).phase = "checking"
    BY AskFacts, DefaultsAreClean DEF Kinds
  <2> QED
    BY <2>1, NoCallFacts, ListAssumption DEF Init
<1>4. FileTypeOK
  <2>1. file \in [form : Forms, data : Partial]
    BY <1>1, DefaultsAreClean DEF FileInit, Forms
  <2>2. calls \in [Slots -> Call]
    BY <1>2, ListAssumption
  <2> QED
    BY <1>1, <2>1, <2>2 DEF FileTypeOK, FileInit, Call
<1>5. Shown \in Content /\ Shown[List] \in Values /\ <<>> \in Values
  BY <1>4, ShownPlainly, ListContent, DefaultsAreClean, ListAssumption
<1>6. TypeOK
  <2>1. memory \in Values \cup {None} /\ intent \in Values
    BY <1>1, <1>5
  <2>2. pending \in Seq(Change) /\ queue \in Seq(Values)
    BY <1>1
  <2>3. hydrated \in BOOLEAN /\ behind \in BOOLEAN /\ lost \in BOOLEAN /\ changes \in Nat
    BY <1>1
  <2> QED
    BY <1>1, <1>4, <2>1, <2>2, <2>3 DEF TypeOK
<1>7. CallsInv
  BY <1>3 DEF CallsInv, CallOK
<1>8. ClientInv
  <2>1. ~ hydrated /\ hydrated \in BOOLEAN
    BY <1>1
  <2>2. memory = None => client = "addresses"
    BY <1>1, <1>5, ListAssumption
  <2> QED
    BY <1>1, <1>3, <2>1, <2>2 DEF ClientInv
<1>9. AskedInv
  <2>1. OneCall /\ ~ NoGet /\ ~ AllIdle
    BY <1>3, ListAssumption DEF OneCall, NoGet, AllIdle, Idle
  <2>2. Gets(First)
    BY <1>1, <1>3, <1>5, ReplayedNothing DEF Gets, Writing
  <2>3. \A c \in Slots : c # First => calls[c].kind \notin {"get", "save"}
    BY <1>3
  <2> QED
    BY <1>1, <1>3, <2>1, <2>2, <2>3 DEF AskedInv, Shows, Underway
<1> QED
  BY <1>6, <1>7, <1>8, <1>9 DEF IInv

(* A call that goes on stays a get or a save.                              *)
LEMMA GoesOnKeepsCalls ==
    ASSUME CallsInv, NEW c \in Slots, OnlyCall(c), CallOK(c, calls'[c])
    PROVE  CallsInv'
BY DEF CallsInv, OnlyCall

LEMMA DueIsOK ==
    ASSUME TypeOK, CallsInv, NEW c \in Slots, ~ Idle(c), OnlyCall(c),
           Due(c, "create", Defaults)
    PROVE  CallOK(c, calls'[c])
BY DEF CallsInv, CallOK, OnlyCall, Due, Idle

LEMMA HasIsOK ==
    ASSUME TypeOK, CallsInv, NEW c \in Slots, ~ Idle(c), OnlyCall(c),
           NEW content \in Content, Has(c, content)
    PROVE  CallOK(c, calls'[c])
<1>1. CASE calls[c].kind = "save"
  <2>1. Due(c, "save", calls[c].partial) /\ calls[c].partial \in Content
    BY <1>1, ListContent DEF CallsInv, CallOK, Has
  <2> QED
    BY <1>1, <2>1 DEF CallsInv, CallOK, OnlyCall, Due
<1>2. CASE calls[c].kind # "save"
  BY <1>2 DEF CallsInv, CallOK, OnlyCall, Has, Idle
<1> QED
  BY <1>1, <1>2

(* One operation of the main process, done or failed: c was not idle and   *)
(* is not, and nothing but the file and c's call changes.                  *)
WorkTypes(c) ==
    /\ TypeOK' /\ CallsInv'
    /\ OnlyCall(c) /\ ~ Idle(c) /\ ~ Idle(c)'
    /\ UNCHANGED <<client, listVars, changes, intent, behind>>

LEMMA WorkKeepsTypes ==
    ASSUME TypeOK, CallsInv, NEW c \in Slots, Work(c)
    PROVE  WorkTypes(c)
<1>1. /\ FileStep(c) /\ FileTypeOK /\ calls[c] \in Call
      /\ UNCHANGED <<client, listVars, changes, intent, behind, lost>>
  BY DEF Work, TypeOK, FileTypeOK, Call
<1>2. /\ OnlyCall(c) /\ ~ Idle(c) /\ ~ Idle(c)' /\ CallOK(c, calls'[c])
      /\ file' \in [form : Forms, data : Partial]
      /\ failures' \in Nat /\ disturbed' \in BOOLEAN
  <2>1. CASE Check(c)
    <3>1. /\ OnlyCall(c) /\ calls[c].phase = "checking"
          /\ Due(c, "create", Defaults) \/ calls'[c].phase = "reading"
          /\ UNCHANGED <<file, failures, disturbed>>
      BY <1>1, <2>1, CheckEffect
    <3>2. CallOK(c, calls'[c])
      BY <3>1, DueIsOK DEF Idle, CallsInv, CallOK, OnlyCall
    <3> QED
      BY <1>1, <3>1, <3>2 DEF Idle, Due, FileTypeOK
  <2>2. CASE Read(c)
    <3>1. /\ OnlyCall(c) /\ Has(c, Shown) /\ calls[c].phase = "reading"
          /\ UNCHANGED <<file, failures>> /\ disturbed' \in BOOLEAN
      BY <1>1, <2>2, ReadPlainly
    <3>2. CallOK(c, calls'[c])
      BY <1>1, <3>1, HasIsOK, ShownPlainly DEF Idle
    <3> QED
      BY <1>1, <3>1, <3>2 DEF Idle, Has, Due, FileTypeOK
  <2>3. CASE Open(c)
    <3>1. /\ OnlyCall(c) /\ calls[c].phase = "opening" /\ calls'[c].phase = "filling"
          /\ calls'[c].goal = calls[c].goal /\ calls'[c].data = calls[c].data
          /\ file' = [form |-> "empty", data |-> Defaults]
          /\ disturbed' = (disturbed \/ \E d \in Slots \ {c} : Writing(d))
          /\ UNCHANGED failures
      BY <1>1, <2>3, OpenEffect
    <3>2. CallOK(c, calls'[c])
      BY <3>1 DEF CallsInv, CallOK, OnlyCall
    <3>3. file' \in [form : Forms, data : Partial] /\ disturbed' \in BOOLEAN
      BY <3>1, DefaultsAreClean DEF Forms
    <3> QED
      BY <1>1, <3>1, <3>2, <3>3 DEF Idle, FileTypeOK
  <2>4. CASE Fill(c)
    <3>1. /\ OnlyCall(c) /\ calls[c].phase = "filling"
          /\ \/ file' = [form |-> "json", data |-> calls[c].data]
             \/ file.form # "empty" /\ file' = [form |-> "garbage", data |-> Defaults]
          /\ IF calls[c].goal = "save"
             THEN calls'[c].phase = "answered" /\ calls'[c].data = calls[c].data
             ELSE Has(c, calls[c].data)
          /\ UNCHANGED <<failures, disturbed>>
      BY <1>1, <2>4, FillEffect
    <3>2. calls[c].data \in Content /\ calls[c].data \in Partial
      BY <1>1, ContentIsPartial DEF Call
    <3>3. CallOK(c, calls'[c])
      <4>1. CASE calls[c].goal = "save"
        BY <3>1, <4>1 DEF CallsInv, CallOK, OnlyCall
      <4>2. CASE calls[c].goal # "save"
        BY <3>1, <3>2, <4>2, HasIsOK DEF Idle
      <4> QED
        BY <4>1, <4>2
    <3>4. file' \in [form : Forms, data : Partial]
      BY <3>1, <3>2, DefaultsAreClean DEF Forms
    <3>5. ~ Idle(c)'
      BY <3>1 DEF Idle, Has, Due
    <3> QED
      BY <1>1, <3>1, <3>3, <3>4, <3>5 DEF Idle, FileTypeOK
  <2> QED
    BY <1>1, <2>1, <2>2, <2>3, <2>4 DEF FileStep
<1>3. TypeOK'
  BY <1>1, <1>2 DEF TypeOK, FileTypeOK, listVars, OnlyCall, Call
<1>4. CallsInv'
  BY <1>2, GoesOnKeepsCalls
<1> QED
  BY <1>1, <1>2, <1>3, <1>4 DEF WorkTypes

LEMMA FailureKeepsTypes ==
    ASSUME TypeOK, CallsInv, NEW c \in Slots, Failure(c)
    PROVE  WorkTypes(c)
<1>1. /\ Fails(c) /\ FileTypeOK /\ lost' \in BOOLEAN
      /\ UNCHANGED <<client, listVars, changes, intent, behind>>
  BY DEF Failure, TypeOK
<1>2. /\ OnlyCall(c) /\ ~ Idle(c)
      /\ Due(c, "create", Defaults) \/ Has(c, Defaults) \/ calls'[c].phase = "rejected"
      /\ file' \in [form : Forms, data : Partial]
      /\ failures' \in Nat /\ disturbed' \in BOOLEAN
  BY <1>1, FailEffect
<1>3. CallOK(c, calls'[c]) /\ ~ Idle(c)'
  <2>1. CASE Due(c, "create", Defaults)
    BY <1>2, <2>1, DueIsOK DEF Idle, Due
  <2>2. CASE Has(c, Defaults)
    BY <1>2, <2>2, HasIsOK, DefaultsAreClean DEF Idle, Has, Due
  <2>3. CASE calls'[c].phase = "rejected"
    BY <1>2, <2>3 DEF Idle, CallsInv, CallOK, OnlyCall
  <2> QED
    BY <1>2, <2>1, <2>2, <2>3
<1>4. TypeOK'
  BY <1>1, <1>2 DEF TypeOK, FileTypeOK, listVars, OnlyCall, Call
<1>5. CallsInv'
  BY <1>2, <1>3, GoesOnKeepsCalls
<1> QED
  BY <1>1, <1>2, <1>3, <1>4, <1>5 DEF WorkTypes

-----------------------------------------------------------------------------
(* The main process goes on with a call, or fails                          *)

LEMMA KindsStay ==
    ASSUME TypeOK, CallsInv, NEW c \in Slots, WorkTypes(c)
    PROVE  /\ \A d \in Slots : calls'[d].kind = calls[d].kind
           /\ ClientInv => ClientInv'
<1>1. \A d \in Slots : calls'[d].kind = calls[d].kind
  BY DEF WorkTypes, OnlyCall
<1>2. ASSUME ClientInv
      PROVE  ClientInv'
  <2>1. calls'[First].kind = calls[First].kind
    BY <1>1, ListAssumption
  <2>2. UNCHANGED <<memory, hydrated, pending, queue, client>>
    BY DEF WorkTypes, listVars
  <2> QED
    BY <1>2, <2>1, <2>2 DEF ClientInv
<1> QED
  BY <1>1, <1>2

(* While nothing is lost, c is the only call, and only its own part of the *)
(* invariant is left to show.                                              *)
LEMMA AskedIfTheCallIs ==
    ASSUME TypeOK, CallsInv, AskedInv, NEW c \in Slots, WorkTypes(c),
           calls[c].kind = "get" => Gets(c)',
           calls[c].kind = "save" => Saves(c)',
           calls'[c].phase = "filling" => file'.form = "empty"
    PROVE  AskedInv'
<1>1. /\ \A d \in Slots : calls'[d].kind = calls[d].kind
      /\ \A d \in Slots : d # c => calls'[d] = calls[d]
      /\ ~ Idle(c) /\ ~ Idle(c)'
      /\ UNCHANGED <<client, memory, hydrated, pending, queue, intent, behind>>
  BY KindsStay DEF WorkTypes, OnlyCall, listVars
<1>2. \A d \in Slots : d # c =>
         /\ calls'[d].kind \notin {"get", "save"} /\ calls'[d].phase = "idle"
  <2>1. \A d \in Slots : d # c => Idle(d)
    BY <1>1 DEF AskedInv, OneCall
  <2> QED
    BY <1>1, <2>1 DEF CallsInv, CallOK, Idle
<1>3. OneCall'
  BY <1>1, <1>2 DEF OneCall, Idle
<1>4. ~ AllIdle /\ ~ AllIdle'
  BY <1>1 DEF AllIdle, Idle
<1>5. Shows'
  <2>1. NoGet' <=> NoGet
    BY <1>1 DEF NoGet
  <2>2. Shows
    BY DEF AskedInv
  <2> QED
    BY <1>1, <1>4, <2>1, <2>2 DEF Shows
<1>6. Underway'
  BY <1>1, <1>4 DEF AskedInv, Underway
<1>7. ASSUME NEW d \in Slots
      PROVE  /\ calls'[d].kind = "get" => Gets(d)'
             /\ calls'[d].kind = "save" => Saves(d)'
             /\ calls'[d].phase = "filling" => file'.form = "empty"
  <2>1. CASE d = c
    BY <1>1, <2>1
  <2>2. CASE d # c
    BY <1>2, <2>2
  <2> QED
    BY <2>1, <2>2
<1> QED
  BY <1>3, <1>5, <1>6, <1>7 DEF AskedInv

LEMMA CheckKeepsAsked ==
    ASSUME TypeOK, CallsInv, AskedInv, NEW c \in Slots, WorkTypes(c), Check(c)
    PROVE  AskedInv'
<1>1. /\ OnlyCall(c) /\ calls[c].phase = "checking"
      /\ \/ file.form = "absent" /\ Due(c, "create", Defaults)
         \/ calls'[c].phase = "reading"
      /\ UNCHANGED file
  BY CheckEffect DEF TypeOK
<1>2. Shown' = Shown /\ UNCHANGED <<client, pending, queue, intent>>
  BY <1>1 DEF Shown, WorkTypes, listVars
<1>3. calls'[c].phase \in {"opening", "reading"} /\ calls'[c].partial = calls[c].partial
  BY <1>1 DEF Due, OnlyCall
<1>4. Writing(c)' => calls'[c].data = Defaults /\ Shown = Defaults
  BY <1>1, ShownPlainly DEF Writing, Due, TypeOK
<1>5. calls[c].kind = "get" => Gets(c)'
  BY <1>2, <1>3, <1>4 DEF AskedInv, Gets
<1>6. calls[c].kind = "save" => Saves(c)'
  BY <1>2, <1>3 DEF AskedInv, Saves
<1> QED
  BY <1>3, <1>5, <1>6, AskedIfTheCallIs

LEMMA ReadKeepsAsked ==
    ASSUME TypeOK, CallsInv, AskedInv, NEW c \in Slots, WorkTypes(c), Read(c)
    PROVE  AskedInv'
<1>1. OnlyCall(c) /\ Has(c, Shown) /\ UNCHANGED file
  BY ReadPlainly DEF TypeOK
<1>2. Shown' = Shown /\ UNCHANGED <<client, pending, queue, intent>>
  BY <1>1 DEF Shown, WorkTypes, listVars
<1>3. ASSUME calls[c].kind = "get"
      PROVE  Gets(c)' /\ calls'[c].phase = "answered"
  <2>1. calls'[c].phase = "answered" /\ calls'[c].data = Shown
    BY <1>1, <1>3 DEF Has
  <2> QED
    BY <1>2, <1>3, <2>1 DEF AskedInv, Gets, Writing
<1>4. ASSUME calls[c].kind = "save"
      PROVE  Saves(c)' /\ calls'[c].phase = "opening"
  <2>1. calls'[c].phase = "opening" /\ calls'[c].partial = calls[c].partial
    BY <1>1, <1>4 DEF Has, Due, OnlyCall
  <2> QED
    BY <1>2, <1>4, <2>1 DEF AskedInv, Saves
<1>5. calls'[c].phase # "filling"
  BY <1>1 DEF Has, Due
<1> QED
  BY <1>3, <1>4, <1>5, AskedIfTheCallIs

LEMMA OpenKeepsAsked ==
    ASSUME TypeOK, CallsInv, AskedInv, NEW c \in Slots, WorkTypes(c), Open(c)
    PROVE  AskedInv'
<1>1. /\ OnlyCall(c) /\ calls[c].phase = "opening" /\ calls'[c].phase = "filling"
      /\ calls'[c].data = calls[c].data /\ file' = [form |-> "empty", data |-> Defaults]
  BY OpenEffect DEF TypeOK
<1>2. file'.form = "empty" /\ Shown' = Defaults
  BY <1>1 DEF Shown
<1>3. UNCHANGED <<client, pending, queue, intent>> /\ calls'[c].partial = calls[c].partial
  BY <1>1 DEF WorkTypes, listVars, OnlyCall
<1>4. ASSUME calls[c].kind = "get"
      PROVE  Gets(c)'
  <2>1. /\ calls[c].data = Defaults /\ Shown = Defaults
        /\ intent = Replayed(Shown[List], pending)
    BY <1>1, <1>4 DEF AskedInv, Gets, Writing
  <2>2. intent' = Replayed(Shown'[List], pending')
    BY <1>2, <1>3, <2>1
  <2> QED
    BY <1>1, <1>2, <2>1, <2>2 DEF Gets, Writing
<1>5. calls[c].kind = "save" => Saves(c)'
  BY <1>1, <1>3 DEF AskedInv, Saves
<1> QED
  BY <1>2, <1>4, <1>5, AskedIfTheCallIs

LEMMA FillKeepsAsked ==
    ASSUME TypeOK, CallsInv, AskedInv, NEW c \in Slots, WorkTypes(c), Fill(c)
    PROVE  AskedInv'
<1>1. /\ OnlyCall(c) /\ calls[c].phase = "filling"
      /\ \/ file' = [form |-> "json", data |-> calls[c].data]
         \/ file.form # "empty"
      /\ IF calls[c].goal = "save"
         THEN calls'[c].phase = "answered" /\ calls'[c].data = calls[c].data
         ELSE Has(c, calls[c].data)
  BY FillEffect DEF TypeOK
<1>2. /\ file' = [form |-> "json", data |-> calls[c].data]
      /\ calls[c].data \in Content
  <2>1. file.form = "empty"
    BY <1>1 DEF AskedInv
  <2>2. calls[c].data \in Content
    BY DEF TypeOK, FileTypeOK
  <2> QED
    BY <1>1, <2>1, <2>2
<1>3. Shown' = calls[c].data
  BY <1>2, ListContent, ShownOfWritten
<1>4. UNCHANGED <<client, pending, queue, intent>> /\ calls'[c].partial = calls[c].partial
  BY <1>1 DEF WorkTypes, listVars, OnlyCall
<1>5. ASSUME calls[c].kind = "get"
      PROVE  Gets(c)'
  <2>1. /\ calls[c].data = Defaults /\ Shown = Defaults
        /\ intent = Replayed(Shown[List], pending)
    BY <1>1, <1>5 DEF AskedInv, Gets, Writing
  <2>2. calls'[c].phase = "answered" /\ calls'[c].data = calls[c].data
    BY <1>1, <1>5 DEF CallsInv, CallOK, Has
  <2>3. intent' = Replayed(Shown'[List], pending')
    BY <1>3, <1>4, <2>1
  <2> QED
    BY <1>3, <2>2, <2>3 DEF Gets, Writing
<1>6. ASSUME calls[c].kind = "save"
      PROVE  Saves(c)'
  <2>1. calls'[c].phase = "answered" => calls[c].data = calls[c].partial
    <3>1. calls[c].goal = "save" \/ calls[c].goal = "create"
      BY <1>1 DEF CallsInv, CallOK
    <3>2. calls[c].goal = "save" => calls[c].data = calls[c].partial
      BY <1>1 DEF CallsInv, CallOK
    <3>3. calls[c].goal = "create" => calls'[c].phase = "opening"
      BY <1>1, <1>6 DEF Has, Due
    <3> QED
      BY <3>1, <3>2, <3>3
  <2>2. calls'[c].phase # "rejected"
    BY <1>1 DEF Has, Due
  <2>3. queue = <<>> => calls[c].partial[List] = intent
    BY <1>6 DEF AskedInv, Saves
  <2> QED
    BY <1>3, <1>4, <2>1, <2>2, <2>3 DEF Saves
<1>7. calls'[c].phase # "filling"
  BY <1>1 DEF Has, Due
<1> QED
  BY <1>5, <1>6, <1>7, AskedIfTheCallIs

LEMMA WorkInvariant == ASSUME IInv, NEW c \in Slots, Work(c)  PROVE IInv'
<1>1. TypeOK /\ CallsInv /\ ClientInv /\ (~ lost => AskedInv)
  BY DEF IInv
<1>2. WorkTypes(c) /\ FileStep(c) /\ lost' = lost
  BY <1>1, WorkKeepsTypes DEF Work
<1>3. TypeOK' /\ CallsInv' /\ ClientInv'
  BY <1>1, <1>2, KindsStay DEF WorkTypes
<1>4. ~ lost' => AskedInv'
  BY <1>1, <1>2, CheckKeepsAsked, ReadKeepsAsked, OpenKeepsAsked, FillKeepsAsked
     DEF FileStep
<1> QED
  BY <1>3, <1>4 DEF IInv

(* A failure that loses nothing is that of a save of the favourites.       *)
LEMMA FailureInvariant == ASSUME IInv, NEW c \in Slots, Failure(c)  PROVE IInv'
<1>1. TypeOK /\ CallsInv /\ ClientInv /\ (~ lost => AskedInv)
  BY DEF IInv
<1>2. /\ WorkTypes(c) /\ Fails(c)
      /\ lost' = (lost \/ calls[c].kind = "get" \/ client # "favourites")
  BY <1>1, FailureKeepsTypes DEF Failure
<1>3. TypeOK' /\ CallsInv' /\ ClientInv'
  BY <1>1, <1>2, KindsStay DEF WorkTypes
<1>4. ASSUME ~ lost'
      PROVE  AskedInv'
  <2>1. ~ lost /\ calls[c].kind # "get" /\ client = "favourites"
    BY <1>1, <1>2, <1>4 DEF TypeOK
  <2>2. calls[c].kind = "save"
    BY <1>1, <1>2, <2>1 DEF CallsInv, CallOK, WorkTypes, Idle
  <2>3. /\ OnlyCall(c)
        /\ Due(c, "create", Defaults) \/ Has(c, Defaults) \/ calls'[c].phase = "rejected"
    BY <1>1, <1>2, FailEffect DEF TypeOK
  <2>4. calls'[c].phase \in {"opening", "rejected"} /\ calls'[c].partial = calls[c].partial
    BY <2>2, <2>3 DEF Due, Has, OnlyCall
  <2>5. UNCHANGED <<client, queue, intent>>
    BY <1>2 DEF WorkTypes, listVars
  <2>6. Saves(c)'
    BY <1>1, <2>1, <2>2, <2>4, <2>5 DEF AskedInv, Saves
  <2> QED
    BY <1>1, <1>2, <2>1, <2>4, <2>6, AskedIfTheCallIs
<1> QED
  BY <1>3, <1>4 DEF IInv

-----------------------------------------------------------------------------
(* A save is sent                                                          *)

LEMMA SendEffect ==
    ASSUME TypeOK, CallsInv, NEW c \in Slots, NEW list \in Values, Send(c, list)
    PROVE  /\ Idle(c) /\ calls' \in [Slots -> Call] /\ CallsInv'
           /\ calls'[c].kind = "save" /\ calls'[c].phase = "checking"
           /\ calls'[c].partial[List] = list
           /\ \A d \in Slots : d # c => calls'[d] = calls[d]
           /\ calls'[First].kind = "get" <=> calls[First].kind = "get"
<1> DEFINE partial == [f \in {List} |-> list]
           call == Ask(c, "save", partial)
<1>1. partial \in Content /\ partial[List] = list
  BY ListSent
<1> HIDE DEF partial
<1>2. /\ call \in Call /\ call.kind = "save" /\ call.phase = "checking"
      /\ call.partial = partial
  BY <1>1, ContentIsPartial, AskFacts DEF Kinds
<1> HIDE DEF call
<1>3. Idle(c) /\ calls' = [calls EXCEPT ![c] = call]
  BY DEF Send, call, partial
<1>4. /\ calls' \in [Slots -> Call] /\ calls'[c] = call
      /\ \A d \in Slots : d # c => calls'[d] = calls[d]
  BY <1>2, <1>3, CallsOfType DEF TypeOK
<1>5. CallOK(c, call)
  BY <1>1, <1>2 DEF CallOK
<1>6. CallsInv'
  BY <1>4, <1>5 DEF CallsInv
<1>7. calls'[First].kind = "get" <=> calls[First].kind = "get"
  <2>1. calls[c].kind = "none"
    BY <1>3 DEF CallsInv, CallOK, Idle
  <2>2. First = c \/ calls'[First] = calls[First]
    BY <1>4, ListAssumption
  <2> QED
    BY <1>2, <1>4, <2>1, <2>2
<1> QED
  BY <1>1, <1>2, <1>3, <1>4, <1>6, <1>7

LEMMA NothingUnderWay ==
    ASSUME CallsInv
    PROVE  /\ AllIdle <=> \A c \in Slots : calls[c].kind = "none"
           /\ AllIdle => NoGet /\ calls[First].kind # "get"
BY ListAssumption DEF CallsInv, CallOK, AllIdle, Idle, NoGet

(* While nothing is lost, a save is sent when nothing else is underway.    *)
LEMMA SendKeepsAsked ==
    ASSUME TypeOK, CallsInv, AllIdle, NEW c \in Slots, NEW list \in Values,
           Send(c, list),
           client = "addresses" \/ memory' = intent', UNCHANGED client,
           behind' => hydrated',
           IF queue' = <<>> THEN list = intent' ELSE queue'[Len(queue')] = intent'
    PROVE  AskedInv'
<1>1. /\ calls'[c].kind = "save" /\ calls'[c].phase = "checking"
      /\ calls'[c].partial[List] = list
      /\ \A d \in Slots : d # c => calls'[d].kind = "none" /\ calls'[d].phase = "idle"
  BY SendEffect, NothingUnderWay DEF AllIdle, Idle
<1>2. OneCall' /\ ~ AllIdle'
  BY <1>1 DEF OneCall, AllIdle, Idle
<1>3. Shows' /\ Underway'
  BY <1>2 DEF Shows, Underway
<1>4. Saves(c)'
  BY <1>1 DEF Saves
<1>5. ASSUME NEW d \in Slots
      PROVE  /\ calls'[d].kind = "get" => Gets(d)'
             /\ calls'[d].kind = "save" => Saves(d)'
             /\ calls'[d].phase = "filling" => file'.form = "empty"
  BY <1>1, <1>4
<1> QED
  BY <1>2, <1>3, <1>5 DEF AskedInv

LEMMA SendQueuedInvariant == ASSUME IInv, NEW c \in Slots, SendQueued(c)  PROVE IInv'
<1>1. TypeOK /\ CallsInv /\ ClientInv /\ (~ lost => AskedInv)
  BY DEF IInv
<1>2. /\ queue # <<>> /\ \A d \in Slots : calls[d].kind # "save"
      /\ Send(c, Head(queue)) /\ queue' = Tail(queue)
      /\ UNCHANGED <<file, failures, disturbed, client, memory, hydrated, pending,
                     changes, intent, behind, lost>>
  BY DEF SendQueued
<1>3. /\ queue \in Seq(Values) /\ Head(queue) \in Values /\ Tail(queue) \in Seq(Values)
      /\ Len(queue) \in Nat /\ Head(queue) = queue[1]
      /\ IF Tail(queue) = <<>> THEN Len(queue) = 1
         ELSE Tail(queue)[Len(Tail(queue))] = queue[Len(queue)]
  <2>1. queue \in Seq(Values) /\ queue # <<>>
    BY <1>1, <1>2 DEF TypeOK
  <2>2. /\ Head(queue) \in Values /\ Tail(queue) \in Seq(Values) /\ Len(queue) \in Nat
        /\ Head(queue) = queue[1] /\ Len(Tail(queue)) = Len(queue) - 1
        /\ \A k \in 1 .. Len(Tail(queue)) : Tail(queue)[k] = queue[k + 1]
    BY <2>1, HeadTailProperties, LenProperties
  <2>3. Tail(queue) = <<>> => Len(queue) = 1
    <3>1. Tail(queue) = <<>> => Len(Tail(queue)) = 0
      BY EmptySeq
    <3> QED
      BY <2>2, <3>1
  <2>4. Tail(queue) # <<>> => Tail(queue)[Len(Tail(queue))] = queue[Len(queue)]
    <3>1. Tail(queue) # <<>> => Len(Tail(queue)) \in 1 .. Len(Tail(queue))
      BY <2>2, EmptySeq, LenProperties
    <3>2. Tail(queue) # <<>> =>
             Tail(queue)[Len(Tail(queue))] = queue[Len(Tail(queue)) + 1]
      BY <2>2, <3>1
    <3> QED
      BY <2>2, <3>2
  <2> QED
    BY <2>1, <2>2, <2>3, <2>4
<1>4. /\ calls' \in [Slots -> Call] /\ CallsInv'
      /\ calls'[First].kind = "get" <=> calls[First].kind = "get"
  BY <1>1, <1>2, <1>3, SendEffect
<1>5. TypeOK'
  BY <1>1, <1>2, <1>3, <1>4 DEF TypeOK, FileTypeOK, Call
<1>6. ClientInv'
  BY <1>1, <1>2, <1>4 DEF ClientInv
<1>7. ASSUME ~ lost'
      PROVE  AskedInv'
  <2>1. AskedInv /\ hydrated /\ client = "favourites"
    BY <1>1, <1>2, <1>7 DEF ClientInv
  <2>2. AllIdle
    <3>1. \A d \in Slots : calls[d].kind # "get"
      BY <1>1, <2>1 DEF CallsInv, CallOK, ClientInv
    <3> QED
      BY <1>1, <1>2, <3>1, NothingUnderWay DEF CallsInv, CallOK
  <2>3. memory = intent /\ queue[Len(queue)] = intent
    BY <1>1, <1>2, <2>1, <2>2, NothingUnderWay DEF AskedInv, Shows, Underway
  <2>4. IF queue' = <<>> THEN Head(queue) = intent'
        ELSE queue'[Len(queue')] = intent'
    BY <1>2, <1>3, <2>3
  <2>5. memory' = intent' /\ UNCHANGED client /\ (behind' => hydrated')
    BY <1>2, <2>1, <2>3
  <2> QED
    BY <1>1, <1>2, <1>3, <2>2, <2>4, <2>5, SendKeepsAsked
<1> QED
  BY <1>4, <1>5, <1>6, <1>7 DEF IInv

-----------------------------------------------------------------------------
(* The user changes something                                              *)

(* The addresses and the watchlist send the changed list at once.          *)
LEMMA PlainChangeInvariant ==
    ASSUME IInv, NEW change \in Change, NEW c \in Slots,
           client # "favourites", Send(c, Applied(Latest, change)),
           memory' = (IF client = "addresses" THEN memory ELSE Applied(memory, change)),
           lost' = (lost \/ ~ AllIdle),
           UNCHANGED <<hydrated, pending, queue>>,
           changes' = changes + 1, intent' = Applied(intent, change),
           UNCHANGED <<file, failures, disturbed, client, behind>>
    PROVE  IInv'
<1>1. TypeOK /\ CallsInv /\ ClientInv /\ (~ lost => AskedInv)
  BY DEF IInv
<1>2. Latest \in Values
  BY <1>1, ListContent, DefaultsAreClean DEF TypeOK, Latest
<1>3. Applied(Latest, change) \in Values /\ Applied(intent, change) \in Values
  BY <1>1, <1>2, ListsAssumption DEF TypeOK
<1>4. /\ memory' \in Values \cup {None}
      /\ memory' = None => client = "addresses"
  <2>1. client # "addresses" => Latest = memory
    BY <1>1 DEF ClientInv, Latest
  <2> QED
    BY <1>1, <1>3, <2>1, ListAssumption DEF TypeOK
<1>5. /\ calls' \in [Slots -> Call] /\ CallsInv'
      /\ calls'[First].kind = "get" <=> calls[First].kind = "get"
  BY <1>1, <1>3, SendEffect
<1>6. TypeOK'
  <2>1. lost' \in BOOLEAN
    BY DEF AllIdle
  <2> QED
    BY <1>1, <1>3, <1>4, <1>5, <2>1 DEF TypeOK, FileTypeOK, Call
<1>7. ClientInv'
  BY <1>1, <1>4, <1>5 DEF ClientInv
<1>8. ASSUME ~ lost'
      PROVE  AskedInv'
  <2>1. AllIdle /\ AskedInv
    BY <1>1, <1>8 DEF TypeOK
  <2>2. memory = intent /\ (behind => hydrated) /\ queue = <<>>
    BY <1>1, <2>1, NothingUnderWay DEF AskedInv, Shows, Underway, ClientInv
  <2>3. Latest = memory
    BY <1>1, <2>2, ListAssumption DEF Latest, TypeOK
  <2>4. Applied(Latest, change) = intent' /\ (client = "addresses" \/ memory' = intent')
    BY <2>2, <2>3
  <2>5. queue' = <<>> /\ (behind' => hydrated')
    BY <2>2
  <2> QED
    BY <1>1, <1>3, <2>1, <2>4, <2>5, SendKeepsAsked
<1> QED
  BY <1>5, <1>6, <1>7, <1>8 DEF IInv

LEMMA ToggleInvariant ==
    ASSUME IInv, NEW change \in Change, ToggleFavourite(change),
           changes' = changes + 1, intent' = Applied(intent, change),
           UNCHANGED <<file, failures, disturbed, client, behind>>
    PROVE  IInv'
<1>1. TypeOK /\ CallsInv /\ ClientInv /\ (~ lost => AskedInv)
  BY DEF IInv
<1>2. /\ client = "favourites" /\ memory' = Applied(memory, change)
      /\ IF hydrated THEN queue' = Append(queue, memory') /\ UNCHANGED pending
         ELSE pending' = Append(pending, change) /\ UNCHANGED queue
      /\ UNCHANGED <<calls, hydrated, lost>>
  BY DEF ToggleFavourite
<1>3. memory \in Values /\ pending \in Seq(Change) /\ queue \in Seq(Values)
  BY <1>1, <1>2 DEF TypeOK, ClientInv
<1>4. memory' \in Values /\ Applied(intent, change) \in Values
  BY <1>1, <1>2, <1>3, ListsAssumption DEF TypeOK
<1>5. /\ Append(queue, memory') \in Seq(Values) /\ Append(queue, memory') # <<>>
      /\ Append(queue, memory')[Len(Append(queue, memory'))] = memory'
      /\ Append(pending, change) \in Seq(Change) /\ Append(pending, change) # <<>>
  BY <1>3, <1>4, AppendProperties
<1>6. TypeOK'
  <2>1. pending' \in Seq(Change) /\ queue' \in Seq(Values)
    BY <1>2, <1>3, <1>5
  <2> QED
    BY <1>1, <1>2, <1>4, <2>1 DEF TypeOK, FileTypeOK
<1>7. CallsInv'
  BY <1>1, <1>2 DEF CallsInv, CallOK
<1>8. ClientInv'
  <2>1. memory' # None
    BY <1>4, ListAssumption
  <2> QED
    BY <1>1, <1>2, <2>1 DEF ClientInv
<1>9. ASSUME ~ lost'
      PROVE  AskedInv'
  <2>1. AskedInv /\ (behind => hydrated)
    BY <1>1, <1>2, <1>9 DEF AskedInv, Underway
  <2>2. Shown' = Shown /\ AllIdle' = AllIdle /\ NoGet' = NoGet
    BY <1>2 DEF Shown, AllIdle, Idle, NoGet
  <2>3. OneCall'
    BY <1>2, <2>1 DEF AskedInv, OneCall, Idle
  <2>4. CASE hydrated
    <3>1. NoGet
      BY <1>1, <1>2, <2>4 DEF CallsInv, CallOK, ClientInv, NoGet
    <3>2. memory' = intent'
      BY <1>2, <2>1, <3>1 DEF AskedInv, Shows
    <3>3. queue' # <<>> /\ queue'[Len(queue')] = intent'
      BY <1>2, <1>5, <2>4, <3>2
    <3>4. Shows' /\ Underway'
      BY <1>2, <2>4, <3>2, <3>3 DEF Shows, Underway
    <3>5. ASSUME NEW d \in Slots
          PROVE  /\ calls'[d].kind # "get"
                 /\ calls'[d].kind = "save" => Saves(d)'
                 /\ calls'[d].phase = "filling" => file'.form = "empty"
      <4>1. calls'[d].kind # "get" /\ (calls'[d].phase = "filling" => file'.form = "empty")
        BY <1>2, <2>1, <3>1 DEF AskedInv, NoGet
      <4>2. calls[d].kind = "save" => Saves(d)
        BY <2>1 DEF AskedInv
      <4>3. calls'[d].kind = "save" => Saves(d)'
        BY <1>2, <2>2, <3>3, <4>2 DEF Saves
      <4> QED
        BY <4>1, <4>3
    <3> QED
      BY <2>3, <3>4, <3>5 DEF AskedInv
  <2>5. CASE ~ hydrated
    <3>1. calls[First].kind = "get" /\ ~ NoGet /\ ~ AllIdle
      <4>1. calls[First].kind = "get"
        BY <1>1, <1>2, <2>5 DEF ClientInv
      <4> QED
        BY <1>1, <4>1, ListAssumption, NothingUnderWay DEF NoGet
    <3>2. \A d \in Slots : calls[d].kind # "save"
      <4>1. \A d \in Slots : calls[d].kind = "save" => ~ Idle(d)
        BY <1>1 DEF CallsInv, CallOK, Idle
      <4>2. ~ Idle(First)
        BY <1>1, <3>1, ListAssumption DEF CallsInv, CallOK, Idle
      <4> QED
        BY <2>1, <3>1, <4>1, <4>2, ListAssumption DEF AskedInv, OneCall
    <3>3. Shows' /\ Underway'
      <4>1. queue = <<>> /\ queue' = queue
        BY <1>1, <1>2, <2>5 DEF ClientInv
      <4> QED
        BY <1>2, <2>1, <2>2, <3>1, <4>1 DEF Shows, Underway
    <3>4. intent = Replayed(Shown[List], pending) => intent' = Replayed(Shown'[List], pending')
      <4>1. Shown[List] \in Values
        BY <1>1, ShownPlainly, ListContent DEF TypeOK
      <4> QED
        BY <1>2, <1>3, <2>2, <2>5, <4>1, ReplayedOneMore
    <3>5. ASSUME NEW d \in Slots
          PROVE  /\ calls'[d].kind = "get" => Gets(d)'
                 /\ calls'[d].kind # "save"
                 /\ calls'[d].phase = "filling" => file'.form = "empty"
      <4>1. calls'[d].kind # "save" /\ (calls'[d].phase = "filling" => file'.form = "empty")
        BY <1>2, <2>1, <3>2 DEF AskedInv
      <4>2. calls[d].kind = "get" => Gets(d)
        BY <2>1 DEF AskedInv
      <4>3. calls'[d].kind = "get" => Gets(d)'
        BY <1>2, <2>2, <3>4, <4>2 DEF Gets, Writing
      <4> QED
        BY <4>1, <4>3
    <3> QED
      BY <2>3, <3>3, <3>5 DEF AskedInv
  <2> QED
    BY <2>4, <2>5
<1> QED
  BY <1>6, <1>7, <1>8, <1>9 DEF IInv

LEMMA UserChangesInvariant == IInv /\ UserChanges => IInv'
<1> SUFFICES ASSUME IInv, UserChanges  PROVE IInv'
  OBVIOUS
<1>1. PICK item \in Items :
        LET change == [item |-> item, added |-> ~ Contains(Latest, item)]
        IN  /\ intent' = Applied(intent, change)
            /\ ChangeAddresses(change) \/ ChangeWatchlist(change) \/ ToggleFavourite(change)
  BY DEF UserChanges
<1> DEFINE change == [item |-> item, added |-> ~ Contains(Latest, item)]
<1>2. change \in Change
  <2>1. Contains(Latest, item) \in BOOLEAN
    BY DEF Contains
  <2> QED
    BY <2>1 DEF Change
<1>3. /\ intent' = Applied(intent, change)
      /\ ChangeAddresses(change) \/ ChangeWatchlist(change) \/ ToggleFavourite(change)
      /\ changes' = changes + 1
      /\ UNCHANGED <<file, failures, disturbed, client, behind>>
  BY <1>1 DEF UserChanges
<1> HIDE DEF change
<1>4. CASE ChangeAddresses(change)
  <2>1. PICK c \in Slots : Send(c, Applied(Latest, change))
    BY <1>4 DEF ChangeAddresses
  <2>2. /\ client = "addresses" /\ lost' = (lost \/ ~ AllIdle)
        /\ UNCHANGED <<memory, hydrated, pending, queue>>
    BY <1>4 DEF ChangeAddresses, listVars
  <2> QED
    BY <1>2, <1>3, <2>1, <2>2, PlainChangeInvariant
<1>5. CASE ChangeWatchlist(change)
  <2>1. PICK c \in Slots : Send(c, Applied(memory, change))
    BY <1>5 DEF ChangeWatchlist
  <2>2. /\ client = "watchlist" /\ lost' = (lost \/ ~ AllIdle)
        /\ memory' = Applied(memory, change) /\ UNCHANGED <<hydrated, pending, queue>>
    BY <1>5 DEF ChangeWatchlist
  <2>3. Latest = memory
    BY <2>2 DEF IInv, ClientInv, Latest
  <2> QED
    BY <1>2, <1>3, <2>1, <2>2, <2>3, PlainChangeInvariant
<1>6. CASE ToggleFavourite(change)
  BY <1>2, <1>3, <1>6, ToggleInvariant
<1> QED
  BY <1>3, <1>4, <1>5, <1>6

-----------------------------------------------------------------------------
(* A call is answered                                                      *)

LEMMA AnswerEffect ==
    ASSUME TypeOK, CallsInv, NEW c \in Slots,
           calls' = [calls EXCEPT ![c] = NoCall], calls[c].kind \in {"get", "save"}
    PROVE  /\ calls' \in [Slots -> Call] /\ CallsInv'
           /\ calls'[c].kind = "none" /\ calls'[c].phase = "idle"
           /\ \A d \in Slots : d # c => calls'[d] = calls[d]
           /\ ~ Idle(c)
           /\ calls[c].kind = "get" => c = First
           /\ calls[c].kind = "save" =>
                (calls'[First].kind = "get" <=> calls[First].kind = "get")
<1>1. /\ calls' \in [Slots -> Call] /\ calls'[c] = NoCall
      /\ \A d \in Slots : d # c => calls'[d] = calls[d]
  BY NoCallFacts, CallsOfType DEF TypeOK
<1>2. CallOK(c, NoCall)
  BY NoCallFacts DEF CallOK
<1>3. CallsInv'
  BY <1>1, <1>2 DEF CallsInv
<1>4. ~ Idle(c) /\ (calls[c].kind = "get" => c = First)
  BY DEF CallsInv, CallOK, Idle
<1>5. First = c \/ calls'[First] = calls[First]
  BY <1>1, ListAssumption
<1> QED
  BY <1>1, <1>3, <1>4, <1>5, NoCallFacts

(* While nothing is lost, nothing is underway after an answer.             *)
LEMMA AnswerKeepsAsked ==
    ASSUME TypeOK, CallsInv, OneCall, NEW c \in Slots,
           calls' = [calls EXCEPT ![c] = NoCall], calls[c].kind \in {"get", "save"},
           memory' = intent', behind' => hydrated',
           queue' # <<>> => queue'[Len(queue')] = intent',
           queue' = <<>> /\ ~ behind' => Shown'[List] = intent'
    PROVE  AskedInv'
<1>1. \A d \in Slots : calls'[d].kind = "none" /\ calls'[d].phase = "idle"
  <2>1. /\ calls'[c].kind = "none" /\ calls'[c].phase = "idle" /\ ~ Idle(c)
        /\ \A d \in Slots : d # c => calls'[d] = calls[d]
    BY AnswerEffect
  <2>2. \A d \in Slots : d # c => Idle(d)
    BY <2>1 DEF OneCall
  <2> QED
    BY <2>1, <2>2 DEF CallsInv, CallOK, Idle
<1>2. OneCall'
  BY <1>1 DEF OneCall, Idle
<1>3. Shows' /\ Underway'
  BY DEF Shows, Underway
<1> QED
  BY <1>1, <1>2, <1>3 DEF AskedInv

(* What is shown after the get.                                            *)
LEMMA HydrationInvariant ==
    ASSUME IInv, NEW c \in Slots, NEW stored \in Values, calls[c].kind = "get",
           IF client = "favourites" THEN FinishHydration(stored)
           ELSE /\ UNCHANGED <<hydrated, pending, queue>>
                /\ memory' \in Values \cup {None}
                /\ memory' = None => client = "addresses",
           UNCHANGED behind, calls' = [calls EXCEPT ![c] = NoCall],
           UNCHANGED <<file, failures, disturbed, client, changes, intent, lost>>,
           ~ lost => /\ calls[c].phase = "answered"
                     /\ stored = calls[c].data[List]
                     /\ client # "favourites" => memory' = stored
    PROVE  IInv'
<1>1. TypeOK /\ CallsInv /\ ClientInv /\ (~ lost => AskedInv)
  BY DEF IInv
<1>2. /\ calls' \in [Slots -> Call] /\ CallsInv'
      /\ c = First /\ calls'[First].kind = "none"
  BY <1>1, AnswerEffect
<1>3. ~ hydrated /\ queue = <<>>
  BY <1>1, <1>2 DEF ClientInv
<1>4. pending \in Seq(Change) /\ Replayed(stored, pending) \in Values
  BY <1>1, ReplayedIsList DEF TypeOK
<1>5. client = "favourites" =>
        /\ hydrated' = TRUE /\ memory' = Replayed(stored, pending) /\ pending' = <<>>
        /\ queue' = IF pending = <<>> THEN queue ELSE Append(queue, Replayed(stored, pending))
  BY DEF FinishHydration
<1>6. /\ memory' \in Values \cup {None} /\ hydrated' \in BOOLEAN
      /\ pending' \in Seq(Change) /\ queue' \in Seq(Values)
      /\ memory' = None => client = "addresses"
  <2>1. CASE client = "favourites"
    <3>1. Append(queue, Replayed(stored, pending)) \in Seq(Values)
      BY <1>1, <1>4, AppendProperties DEF TypeOK
    <3>2. <<>> \in Seq(Change)
      OBVIOUS
    <3> QED
      BY <1>1, <1>4, <1>5, <2>1, <3>1, <3>2, ListAssumption DEF TypeOK
  <2>2. CASE client # "favourites"
    BY <1>1, <2>2 DEF TypeOK
  <2> QED
    BY <2>1, <2>2
<1>7. TypeOK'
  BY <1>1, <1>2, <1>6 DEF TypeOK, FileTypeOK, Call
<1>8. ClientInv'
  <2>1. CASE client = "favourites"
    BY <1>1, <1>2, <1>5, <1>6, <2>1 DEF ClientInv
  <2>2. CASE client # "favourites"
    BY <1>1, <1>2, <1>6, <2>2 DEF ClientInv
  <2> QED
    BY <2>1, <2>2
<1>9. ASSUME ~ lost'
      PROVE  AskedInv'
  <2>1. AskedInv /\ calls[c].phase = "answered" /\ stored = calls[c].data[List]
    BY <1>1, <1>9
  <2>2. /\ intent = Replayed(Shown[List], pending) /\ calls[c].data = Shown
        /\ OneCall /\ ~ behind
    BY <1>3, <2>1 DEF AskedInv, Gets, Underway
  <2>3. Shown' = Shown /\ intent' = Replayed(stored, pending) /\ ~ behind'
    BY <2>1, <2>2 DEF Shown
  <2>4. pending = <<>> => Replayed(stored, pending) = stored
    BY ReplayedNothing
  <2>5. CASE client = "favourites"
    <3>1. /\ queue = <<>> /\ Append(queue, Replayed(stored, pending)) # <<>>
          /\ Append(queue, Replayed(stored, pending))[1] = Replayed(stored, pending)
          /\ Len(Append(queue, Replayed(stored, pending))) = 1
      <4>1. Len(queue) = 0 /\ queue \in Seq(Values)
        BY <1>1, <1>3, EmptySeq DEF TypeOK
      <4> QED
        BY <1>3, <1>4, <4>1, AppendProperties
    <3>2. memory' = intent'
      BY <1>5, <2>3, <2>5
    <3>3. queue' # <<>> => queue'[Len(queue')] = intent'
      BY <1>3, <1>5, <2>3, <2>5, <3>1
    <3>4. queue' = <<>> => Shown'[List] = intent'
      BY <1>5, <2>1, <2>2, <2>3, <2>4, <2>5, <3>1
    <3> QED
      BY <1>1, <2>2, <2>3, <3>2, <3>3, <3>4, AnswerKeepsAsked
  <2>6. CASE client # "favourites"
    <3>1. pending = <<>> /\ queue' = <<>> /\ memory' = stored
      BY <1>1, <1>3, <1>9, <2>6 DEF ClientInv
    <3>2. memory' = intent' /\ Shown'[List] = intent'
      BY <2>1, <2>2, <2>3, <2>4, <3>1
    <3> QED
      BY <1>1, <2>2, <2>3, <3>1, <3>2, AnswerKeepsAsked
  <2> QED
    BY <2>5, <2>6
<1> QED
  BY <1>2, <1>7, <1>8, <1>9 DEF IInv

LEMMA SaveAnswerInvariant ==
    ASSUME IInv, NEW c \in Slots, Saved(c) \/ SaveRejected(c),
           calls' = [calls EXCEPT ![c] = NoCall],
           UNCHANGED <<file, failures, disturbed, client, changes, intent, lost>>
    PROVE  IInv'
<1>1. TypeOK /\ CallsInv /\ ClientInv /\ (~ lost => AskedInv)
  BY DEF IInv
<1>2. /\ calls[c].kind = "save" /\ UNCHANGED <<hydrated, pending, queue>>
      /\ \/ /\ calls[c].phase = "answered" /\ behind' = FALSE
            /\ memory' = IF client = "addresses" THEN calls[c].data[List] ELSE memory
         \/ calls[c].phase = "rejected" /\ behind' = TRUE /\ memory' = memory
  BY DEF Saved, SaveRejected, listVars
<1>3. /\ calls' \in [Slots -> Call] /\ CallsInv'
      /\ calls'[First].kind = "get" <=> calls[First].kind = "get"
  BY <1>1, <1>2, AnswerEffect
<1>4. /\ memory' \in Values \cup {None} /\ behind' \in BOOLEAN
      /\ memory' = None => client = "addresses"
  <2>1. calls[c].data[List] \in Values
    BY <1>1, ListContent DEF TypeOK, FileTypeOK
  <2> QED
    BY <1>1, <1>2, <2>1 DEF TypeOK, ClientInv
<1>5. TypeOK'
  BY <1>1, <1>2, <1>3, <1>4 DEF TypeOK, FileTypeOK, Call
<1>6. ClientInv'
  BY <1>1, <1>2, <1>3, <1>4 DEF ClientInv
<1>7. ASSUME ~ lost'
      PROVE  AskedInv'
  <2>1. AskedInv /\ OneCall /\ Saves(c)
    BY <1>1, <1>2, <1>7 DEF AskedInv
  <2>2. NoGet /\ ~ AllIdle
    <3>1. \A d \in Slots : d # c => calls[d].kind = "none"
      BY <1>1, <1>2, <2>1 DEF CallsInv, CallOK, OneCall, Idle
    <3> QED
      BY <1>2, <3>1, <1>1, NothingUnderWay DEF NoGet
  <2>3. queue # <<>> => queue[Len(queue)] = intent
    BY <2>1 DEF AskedInv, Underway
  <2>4. memory' = intent' /\ (behind' => hydrated')
        /\ (queue' = <<>> /\ ~ behind' => Shown'[List] = intent')
    <3>1. CASE calls[c].phase = "answered" /\ behind' = FALSE
      <4>1. Shown' = Shown /\ Shown = calls[c].partial /\ calls[c].data = calls[c].partial
        BY <1>1, <1>2, <2>1, <3>1 DEF Saves, Shown, CallsInv, CallOK
      <4>2. queue' = <<>> => calls[c].partial[List] = intent
        BY <1>2, <2>1 DEF Saves
      <4>3. memory' = intent
        <5>1. CASE client = "addresses"
          <6>1. queue = <<>>
            BY <1>1, <5>1 DEF ClientInv
          <6> QED
            BY <1>2, <3>1, <4>1, <4>2, <5>1, <6>1
        <5>2. CASE client # "addresses"
          BY <1>2, <2>1, <2>2, <5>2 DEF AskedInv, Shows
        <5> QED
          BY <5>1, <5>2
      <4> QED
        BY <3>1, <4>1, <4>2, <4>3
    <3>2. CASE calls[c].phase = "rejected" /\ behind' = TRUE
      <4>1. client = "favourites" /\ memory = intent /\ memory' = memory
        BY <1>2, <2>1, <2>2, <3>2 DEF AskedInv, Saves, Shows
      <4>2. hydrated
        BY <1>1, <2>2, <4>1, ListAssumption DEF ClientInv, NoGet
      <4> QED
        BY <1>2, <3>2, <4>1, <4>2
    <3> QED
      BY <1>2, <3>1, <3>2
  <2> QED
    BY <1>1, <1>2, <2>1, <2>3, <2>4, AnswerKeepsAsked
<1> QED
  BY <1>3, <1>5, <1>6, <1>7 DEF IInv

LEMMA AnswerInvariant == ASSUME IInv, NEW c \in Slots, Answer(c)  PROVE IInv'
<1>1. TypeOK /\ CallsInv /\ ClientInv /\ (~ lost => AskedInv)
  BY DEF IInv
<1>2. /\ calls' = [calls EXCEPT ![c] = NoCall]
      /\ UNCHANGED <<file, failures, disturbed, client, changes, intent, lost>>
  BY DEF Answer
<1>3. calls[c].data[List] \in Values
  BY <1>1, ListContent DEF TypeOK, FileTypeOK
<1>4. CASE Loaded(c)
  <2>1. /\ calls[c].kind = "get" /\ calls[c].phase = "answered" /\ UNCHANGED behind
        /\ IF client = "favourites" THEN FinishHydration(calls[c].data[List])
           ELSE memory' = calls[c].data[List] /\ UNCHANGED <<hydrated, pending, queue>>
    BY <1>4 DEF Loaded
  <2>2. client # "favourites" => memory' # None
    BY <1>3, <2>1, ListAssumption
  <2> QED
    BY <1>2, <1>3, <2>1, <2>2, HydrationInvariant
<1>5. CASE LoadRejected(c)
  <2>1. /\ calls[c].kind = "get" /\ calls[c].phase = "rejected" /\ UNCHANGED behind
        /\ IF client = "favourites" THEN FinishHydration(memory)
           ELSE /\ memory' = IF client = "addresses" THEN None ELSE memory
                /\ UNCHANGED <<hydrated, pending, queue>>
    BY <1>5 DEF LoadRejected
  <2>2. lost
    BY <1>1, <2>1 DEF AskedInv, Gets
  <2>3. CASE client = "favourites"
    <3>1. memory \in Values
      BY <1>1, <2>3 DEF TypeOK, ClientInv
    <3> QED
      BY <1>2, <2>1, <2>2, <2>3, <3>1, HydrationInvariant
  <2>4. CASE client # "favourites"
    <3>1. memory' \in Values \cup {None} /\ (memory' = None => client = "addresses")
      BY <1>1, <2>1, <2>4 DEF TypeOK, ClientInv
    <3> QED
      BY <1>2, <1>3, <2>1, <2>2, <2>4, <3>1, HydrationInvariant
  <2> QED
    BY <2>3, <2>4
<1>6. CASE Saved(c) \/ SaveRejected(c)
  BY <1>2, <1>6, SaveAnswerInvariant
<1> QED
  BY <1>4, <1>5, <1>6 DEF Answer

-----------------------------------------------------------------------------
(* The theorems                                                            *)

LEMMA StutterInvariant == IInv /\ UNCHANGED vars => IInv'
<1> SUFFICES ASSUME IInv, UNCHANGED vars  PROVE IInv'
  OBVIOUS
<1>1. /\ UNCHANGED <<file, calls, failures, disturbed, client, memory, hydrated,
                     pending, queue, changes, intent, behind, lost>>
  BY DEF vars, listVars
<1>2. TypeOK'
  BY <1>1 DEF IInv, TypeOK, FileTypeOK
<1>3. CallsInv' /\ ClientInv'
  BY <1>1 DEF IInv, CallsInv, CallOK, ClientInv
<1>4. ~ lost' => AskedInv'
  BY <1>1 DEF IInv, AskedInv, OneCall, Shows, NoGet, AllIdle, Underway, Gets, Saves,
              Idle, Writing, Shown
<1> QED
  BY <1>2, <1>3, <1>4 DEF IInv

LEMMA NextInvariant == IInv /\ [Next]_vars => IInv'
<1>1. ASSUME IInv, Next
      PROVE  IInv'
  <2>1. CASE UserChanges
    BY <1>1, <2>1, UserChangesInvariant
  <2>2. CASE \E c \in Slots : Step(c) \/ Failure(c)
    BY <1>1, <2>2, SendQueuedInvariant, AnswerInvariant, WorkInvariant, FailureInvariant
       DEF Step
  <2> QED
    BY <1>1, <2>1, <2>2 DEF Next
<1> QED
  BY <1>1, StutterInvariant

LEMMA Invariance == Spec => []IInv
BY InitInvariant, NextInvariant, PTL DEF Spec

(* A list is a list of the user's items, a queue one of such lists and a   *)
(* call one of the handlers' calls, whichever client keeps the list and    *)
(* whatever fails (userAddresses.ts, pools.ts, assetFavourites.ts).        *)
THEOREM TypeCorrect == Spec => []TypeOK
<1>1. IInv => TypeOK
  BY DEF IInv
<1> QED
  BY <1>1, Invariance, PTL

(* The list on the screen is the stored one with every change of the user  *)
(* applied, as soon as everything is answered: what was changed before the *)
(* favourites were loaded is replayed onto them, and no older answer comes *)
(* back over a newer list.  It holds for any number of changes, failures   *)
(* and calls.                                                              *)
THEOREM ShowsWhatWasAsked == Spec => []ShownAsAsked
<1>1. ASSUME IInv
      PROVE  ShownAsAsked
  <2> SUFFICES ASSUME Settled, ~ lost  PROVE memory = intent
    BY DEF ShownAsAsked
  <2>1. NoGet /\ AllIdle /\ AskedInv
    BY <1>1, NothingUnderWay DEF IInv, Settled
  <2> QED
    BY <2>1 DEF AskedInv, Shows
<1> QED
  BY <1>1, Invariance, PTL

(* The file of the main process then holds that list: the queue keeps an   *)
(* older write from finishing last, and a save that failed is made good by *)
(* the next one (createSaveQueue).                                         *)
THEOREM StoresWhatWasAsked == Spec => []StoredAsAsked
<1>1. ASSUME IInv
      PROVE  StoredAsAsked
  <2> SUFFICES ASSUME Settled, ~ lost, ~ behind  PROVE Shown[List] = intent
    BY DEF StoredAsAsked
  <2> QED
    BY <1>1 DEF IInv, Settled, AskedInv, Underway
<1> QED
  BY <1>1, Invariance, PTL
=============================================================================
