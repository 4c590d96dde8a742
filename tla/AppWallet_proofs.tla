--------------------------- MODULE AppWallet_proofs ---------------------------
(***************************************************************************)
(* The safety properties of AppWallet for any vaults, keystores, number of *)
(* calls in flight and of calls begun.                                     *)
(*                                                                         *)
(* First what is always true of the steps a call has left (Form) and of    *)
(* the one call that runs (OneRuns), kept by each way a call goes on; then *)
(* what each way does to a switch of mode under way (Resting).  With these *)
(* the invariants about the state are proved action by action.             *)
(***************************************************************************)
EXTENDS AppWallet, SequenceTheorems, TLAPS

KeystoreSteps == {"change", "add", "decipher", "remove"}
VaultSteps == {"select", "activate", "addresses", "setActive", "sdkUnlock",
               "unlocked", "sdkLock", "created", "verify", "delete"}

(* The vaults a step may activate.                                         *)
Trusted == IF raced THEN Vaults ELSE opened \cup (Vaults \ Encrypted)

(* Steps a call only ever begins with.                                     *)
FirstSteps == {"setActive", "restoreLast", "switchSafely"}

(* Steps carry an id of their kind.  After "setActive" comes "switch", and *)
(* "unlocked" follows the request it waits for.  A step that is about to   *)
(* activate a vault has a trusted one.                                     *)
Form(q, trusted) ==
    \A i \in 1 .. Len(q) :
       /\ q[i].do \in KeystoreSteps => q[i].id \in Keystores
       /\ q[i].do \in VaultSteps => q[i].id \in Vaults
       /\ q[i].do \in FirstSteps => i = 1
       /\ q[i].do = "setActive" => Len(q) = 2 /\ q[2].do = "switch"
       /\ q[i].do = "unlocked" /\ i > 1 =>
             q[i-1].do = "sdkUnlock" /\ q[i-1].id = q[i].id
       /\ \/ q[i].do \in {"activate", "addresses", "setActive"}
          \/ q[i].do = "unlocked" /\ i = 1
          => q[i].id \in trusted

(* The call is within enterStandaloneMode.                                 *)
Switching(q) == \E i \in 1 .. Len(q) : q[i].do = "entered"

(* Steps that may follow any step but a request of a password.             *)
Plain(q) ==
    /\ \A i \in 1 .. Len(q) : q[i].do \notin FirstSteps
    /\ q # <<>> => q[1].do # "unlocked"

-----------------------------------------------------------------------------
(* Sequences of steps                                                      *)

LEMMA StepFields ==
    ASSUME NEW d \in Awaits \cup Runs, NEW i \in Vaults \cup Keystores \cup {None}
    PROVE  /\ Do(d) \in Step /\ Do(d).do = d /\ Do(d).id = None
           /\ DoFor(d, i) \in Step /\ DoFor(d, i).do = d /\ DoFor(d, i).id = i
<1> DEFINE ids == Vaults \cup Keystores \cup {None}
           dos == Awaits \cup Runs
<1>1. None \in ids /\ d \in dos /\ i \in ids
  OBVIOUS
<1>2. Step = [do : dos, id : ids]
  BY DEF Step
<1> HIDE DEF ids, dos
<1> QED
  BY <1>1, <1>2 DEF Do, DoFor

LEMMA FirstStep ==
    ASSUME NEW q \in Seq(Step), q # <<>>
    PROVE  /\ Len(q) \in Nat \ {0} /\ Head(q) = q[1] /\ q[1] \in Step
           /\ q[1].do \in Awaits \cup Runs
<1>1. Len(q) \in Nat \ {0} /\ 1 \in 1 .. Len(q)
  BY EmptySeq
<1>2. Head(q) = q[1]
  OBVIOUS
<1>3. q[1] \in Step
  BY <1>1, ElementOfSeq
<1> QED
  BY <1>1, <1>2, <1>3 DEF Step

LEMMA JoinSteps ==
    ASSUME NEW e \in Step, NEW f \in Step
    PROVE  <<e>> \o <<f>> = <<e, f>> /\ <<>> \o <<f>> = <<f>>
<1> DEFINE p == <<e>>
           r == <<f>>
           q == <<e, f>>
<1>1. p \in Seq(Step) /\ Len(p) = 1 /\ p[1] = e
  OBVIOUS
<1>2. r \in Seq(Step) /\ Len(r) = 1 /\ r[1] = f
  OBVIOUS
<1>3. q \in Seq(Step) /\ Len(q) = 2 /\ q[1] = e /\ q[2] = f
  OBVIOUS
<1> HIDE DEF p, r, q
<1>4. /\ p \o r \in Seq(Step) /\ Len(p \o r) = 2
      /\ (p \o r)[1] = e /\ (p \o r)[2] = f
  BY <1>1, <1>2, ConcatProperties
<1>5. p \o r = q
  <2>1. \A i \in 1 .. Len(q) : q[i] = (p \o r)[i]
    BY <1>3, <1>4
  <2> QED
    BY <1>3, <1>4, <2>1, SeqEqual
<1>6. <<>> \o r = r
  BY <1>2, ConcatEmptySeq
<1> QED
  BY <1>5, <1>6 DEF p, r, q

(* More trust keeps the form.                                              *)
LEMMA FormMonotonic ==
    ASSUME NEW q, NEW t, NEW u, t \subseteq u, Form(q, t)
    PROVE  Form(q, u)
  BY DEF Form

(* The first step is done and no other takes its place.                    *)
LEMMA TailForm ==
    ASSUME NEW q \in Seq(Step), q # <<>>, NEW t, NEW u, t \subseteq u, Form(q, t),
           q[1].do = "sdkUnlock" => q[1].id \in u
    PROVE  /\ Tail(q) \in Seq(Step)
           /\ Form(Tail(q), u)
           /\ q[1].do # "entered" => (Switching(Tail(q)) <=> Switching(q))
           /\ \A i \in 1 .. Len(Tail(q)) : Tail(q)[i].do \notin FirstSteps
           /\ q[1].do # "sdkUnlock" => Plain(Tail(q))
<1> DEFINE r == Tail(q)
<1>1. /\ r \in Seq(Step) /\ Len(r) = Len(q) - 1 /\ Len(q) \in Nat \ {0}
      /\ \A i \in 1 .. Len(r) : r[i] = q[i+1]
  BY HeadTailProperties, FirstStep
<1> HIDE DEF r
<1>2. Form(r, u)
  <2> SUFFICES ASSUME NEW i \in 1 .. Len(r)
               PROVE
       /\ r[i].do \in KeystoreSteps => r[i].id \in Keystores
       /\ r[i].do \in VaultSteps => r[i].id \in Vaults
       /\ r[i].do \notin FirstSteps
       /\ r[i].do = "unlocked" /\ i > 1 =>
             r[i-1].do = "sdkUnlock" /\ r[i-1].id = r[i].id
       /\ r[i].do = "unlocked" /\ i = 1 => r[i].id \in u
       /\ r[i].do \in {"activate", "addresses"} => r[i].id \in u
    BY DEF Form, FirstSteps
  <2>1. i + 1 \in 1 .. Len(q) /\ r[i] = q[i+1] /\ (i > 1 => r[i-1] = q[i])
    BY <1>1
  <2>2. i + 1 > 1 /\ (i + 1) - 1 = i
    BY <1>1
  <2> QED
    BY <2>1, <2>2 DEF Form
<1>3. q[1].do # "entered" => (Switching(r) <=> Switching(q))
  <2>1. \A i \in 1 .. Len(q) : i # 1 => i - 1 \in 1 .. Len(r) /\ r[i-1] = q[i]
    BY <1>1
  <2>2. \A i \in 1 .. Len(r) : i + 1 \in 1 .. Len(q)
    BY <1>1
  <2> QED
    BY <1>1, <2>1, <2>2 DEF Switching
<1>4. \A i \in 1 .. Len(r) : r[i].do \notin FirstSteps
  <2>1. \A i \in 1 .. Len(r) : i + 1 \in 1 .. Len(q) /\ i + 1 # 1 /\ r[i] = q[i+1]
    BY <1>1
  <2> QED
    BY <2>1 DEF Form
<1>5. q[1].do # "sdkUnlock" => Plain(r)
  <2>1. \A i \in 1 .. Len(r) : i + 1 \in 1 .. Len(q) /\ i + 1 > 1 /\ r[i] = q[i+1]
    BY <1>1
  <2>2. \A i \in 1 .. Len(r) : r[i].do \notin FirstSteps
    BY <1>4
  <2>3. ASSUME r # <<>>, q[1].do # "sdkUnlock" PROVE r[1].do # "unlocked"
    <3>1. Len(r) \in Nat \ {0}
      BY <1>1, <2>3, EmptySeq
    <3>2. 2 \in 1 .. Len(q) /\ r[1] = q[2] /\ 2 - 1 = 1 /\ 2 > 1
      BY <3>1, <1>1
    <3> QED
      BY <3>2, <2>3 DEF Form
  <2> QED
    BY <2>2, <2>3 DEF Plain
<1> QED
  BY <1>1, <1>2, <1>3, <1>4, <1>5 DEF r

(* Steps are put in front of the rest of a call.                           *)
LEMMA PushForm ==
    ASSUME NEW p \in Seq(Step), NEW r \in Seq(Step), NEW t,
           Form(p, t), Form(r, t), Plain(r),
           \A i \in 1 .. Len(p) : p[i].do # "setActive"
    PROVE  /\ p \o r \in Seq(Step)
           /\ Form(p \o r, t)
           /\ Switching(p \o r) <=> Switching(p) \/ Switching(r)
           /\ p # <<>> => p \o r # <<>> /\ (p \o r)[1] = p[1]
<1> DEFINE q == p \o r
           n == Len(p)
<1>1. /\ q \in Seq(Step) /\ Len(q) = n + Len(r) /\ n \in Nat /\ Len(r) \in Nat
      /\ \A i \in 1 .. n + Len(r) : q[i] = IF i <= n THEN p[i] ELSE r[i - n]
  BY ConcatProperties, LenProperties
<1> HIDE DEF q
<1>2. \A i \in 1 .. n : i \in 1 .. Len(q) /\ q[i] = p[i]
  BY <1>1
<1>3. \A i \in 1 .. Len(r) : n + i \in 1 .. Len(q) /\ q[n + i] = r[i]
  BY <1>1
<1>4. \A i \in 1 .. Len(q) : i \in 1 .. n \/ (i - n \in 1 .. Len(r) /\ q[i] = r[i - n])
  BY <1>1
<1>5. Form(q, t)
  <2> SUFFICES ASSUME NEW i \in 1 .. Len(q)
               PROVE
       /\ q[i].do \in KeystoreSteps => q[i].id \in Keystores
       /\ q[i].do \in VaultSteps => q[i].id \in Vaults
       /\ q[i].do \in FirstSteps => i = 1 /\ q[i].do # "setActive"
       /\ q[i].do = "unlocked" /\ i > 1 =>
             q[i-1].do = "sdkUnlock" /\ q[i-1].id = q[i].id
       /\ q[i].do = "unlocked" /\ i = 1 => q[i].id \in t
       /\ q[i].do \in {"activate", "addresses"} => q[i].id \in t
    BY DEF Form, FirstSteps
  <2>1. CASE i \in 1 .. n
    <3>1. q[i] = p[i] /\ (i > 1 => q[i-1] = p[i-1])
      BY <1>1, <1>2, <2>1
    <3> QED
      BY <2>1, <3>1 DEF Form
  <2>2. CASE i \notin 1 .. n
    <3>1. i - n \in 1 .. Len(r) /\ q[i] = r[i - n]
      BY <1>4, <2>2
    <3>2. i - n > 1 => q[i-1] = r[(i - n) - 1]
      <4>1. i - n > 1 => (i - n) - 1 \in 1 .. Len(r) /\ n + ((i - n) - 1) = i - 1
        BY <1>1, <3>1
      <4> QED
        BY <4>1, <1>3
    <3>3. i - n = 1 => r[i - n].do # "unlocked"
      <4>1. i - n = 1 => r # <<>>
        BY <3>1, EmptySeq
      <4> QED
        BY <4>1 DEF Plain
    <3>4. i - n = 1 \/ i - n > 1
      BY <1>1, <3>1
    <3> QED
      BY <3>1, <3>2, <3>3, <3>4 DEF Form, Plain
  <2> QED
    BY <2>1, <2>2
<1>6. Switching(q) <=> Switching(p) \/ Switching(r)
  <2>1. ASSUME NEW i \in 1 .. Len(q), q[i].do = "entered"
        PROVE  Switching(p) \/ Switching(r)
    <3>1. CASE i \in 1 .. n
      BY <1>2, <2>1, <3>1 DEF Switching
    <3>2. CASE i \notin 1 .. n
      BY <1>4, <2>1, <3>2 DEF Switching
    <3> QED
      BY <3>1, <3>2
  <2>2. ASSUME NEW i \in 1 .. n, p[i].do = "entered" PROVE Switching(q)
    BY <1>2, <2>2 DEF Switching
  <2>3. ASSUME NEW i \in 1 .. Len(r), r[i].do = "entered" PROVE Switching(q)
    BY <1>3, <2>3 DEF Switching
  <2> QED
    BY <2>1, <2>2, <2>3 DEF Switching
<1>7. p # <<>> => q # <<>> /\ q[1] = p[1]
  <2>1. p # <<>> => n \in Nat \ {0}
    BY EmptySeq
  <2>2. p # <<>> => 1 \in 1 .. n /\ Len(q) # 0
    BY <1>1, <2>1
  <2> QED
    BY <1>2, <2>2, EmptySeq
<1> QED
  BY <1>1, <1>5, <1>6, <1>7 DEF q

(* An exception leaves the steps from enterStandaloneMode's return on.     *)
LEMMA DropForm ==
    ASSUME NEW q \in Seq(Step), NEW t, Form(q, t),
           NEW k \in 1 .. Len(q), q[k].do = "entered"
    PROVE  /\ SubSeq(q, k, Len(q)) \in Seq(Step)
           /\ Form(SubSeq(q, k, Len(q)), t)
           /\ Switching(SubSeq(q, k, Len(q)))
           /\ SubSeq(q, k, Len(q)) # <<>>
           /\ SubSeq(q, k, Len(q))[1].do = "entered"
<1> DEFINE r == SubSeq(q, k, Len(q))
<1>1. /\ r \in Seq(Step) /\ Len(r) = Len(q) - k + 1 /\ Len(q) \in Nat
      /\ \A i \in 1 .. Len(q) - k + 1 : r[i] = q[k + i - 1]
  <2>1. Len(q) \in Nat /\ k <= Len(q) /\ \A i \in k .. Len(q) : q[i] \in Step
    BY LenProperties, ElementOfSeq
  <2> QED
    BY <2>1, SubSeqProperties
<1> HIDE DEF r
<1>2. 1 \in 1 .. Len(r) /\ r[1] = q[k] /\ r # <<>>
  BY <1>1, EmptySeq
<1>3. Form(r, t)
  <2> SUFFICES ASSUME NEW i \in 1 .. Len(r)
               PROVE
       /\ r[i].do \in KeystoreSteps => r[i].id \in Keystores
       /\ r[i].do \in VaultSteps => r[i].id \in Vaults
       /\ r[i].do \notin FirstSteps
       /\ r[i].do = "unlocked" /\ i > 1 =>
             r[i-1].do = "sdkUnlock" /\ r[i-1].id = r[i].id
       /\ r[i].do = "unlocked" /\ i = 1 => r[i].id \in t
       /\ r[i].do \in {"activate", "addresses"} => r[i].id \in t
    BY DEF Form, FirstSteps
  <2>1. CASE i = 1
    BY <2>1, <1>2 DEF Form, FirstSteps
  <2>2. CASE i # 1
    <3> DEFINE j == k + i - 1
    <3>1. j \in 1 .. Len(q) /\ r[i] = q[j] /\ r[i-1] = q[j-1] /\ j > 1
      BY <1>1, <2>2
    <3> HIDE DEF j
    <3> QED
      BY <2>2, <3>1 DEF Form, FirstSteps
  <2> QED
    BY <2>1, <2>2
<1> QED
  BY <1>1, <1>2, <1>3 DEF r, Switching

-----------------------------------------------------------------------------
(* What each way a call goes on does to the calls in flight                *)

(* The call that runs is the one whose next step does not wait.            *)
OneRuns == \A s \in Slots :
              running = s <=> calls[s] # <<>> /\ calls[s][1].do \in Runs

Forms == \A s \in Slots : Form(calls[s], Trusted)

CallsInv ==
    /\ calls \in [Slots -> Seq(Step)]
    /\ running \in Slots \cup {None}
    /\ OneRuns
    /\ Forms

(* A call is about to restore the last wallet, or to switch.               *)
ToRestore(s) == calls[s] # <<>> /\ calls[s][1].do \in {"restoreLast", "switchSafely"}
ToSwitch(s) == calls[s] # <<>> /\ calls[s][1].do = "switch"

LEMMA RestingMeans ==
    ASSUME CallsInv
    PROVE  /\ Resting <=> \A s \in Slots : ~Switching(calls[s])
           /\ \A s \in Slots : Position(s) = {} <=> ~Switching(calls[s])
<1>1. \A s \in Slots : DOMAIN calls[s] = 1 .. Len(calls[s])
  BY LenProperties DEF CallsInv
<1> QED
  BY <1>1 DEF Resting, Position, Switching

(* Resting again, in the next state.                                       *)
LEMMA RestingMeansNext ==
    ASSUME calls' \in [Slots -> Seq(Step)]
    PROVE  Resting' <=> \A s \in Slots : ~Switching(calls'[s])
<1>1. \A s \in Slots : DOMAIN calls'[s] = 1 .. Len(calls'[s])
  BY LenProperties
<1> QED
  BY <1>1 DEF Resting, Position, Switching

(* A call is at a step.                                                    *)
LEMMA AtStep ==
    ASSUME CallsInv, NEW s \in Slots, NEW d, At(s, d)
    PROVE  /\ calls[s] \in Seq(Step) /\ calls[s] # <<>>
           /\ calls[s][1].do = d /\ calls[s][1].id = Arg(s)
           /\ running \in {s, None}
           /\ d \in KeystoreSteps => Arg(s) \in Keystores
           /\ d \in VaultSteps => Arg(s) \in Vaults
           /\ d \in {"activate", "addresses", "setActive", "unlocked"} =>
                 Arg(s) \in Trusted
<1>1. calls[s] \in Seq(Step) /\ calls[s] # <<>> /\ running \in {s, None}
  BY DEF CallsInv, At, MayRun
<1>2. Head(calls[s]) = calls[s][1] /\ Len(calls[s]) \in Nat \ {0}
  BY <1>1, FirstStep
<1>3. calls[s][1].do = d /\ calls[s][1].id = Arg(s)
  BY <1>2 DEF At, Arg
<1>4. 1 \in 1 .. Len(calls[s]) /\ Form(calls[s], Trusted)
  BY <1>2 DEF CallsInv, Forms
<1> QED
  BY <1>1, <1>3, <1>4 DEF Form

LEMMA TrustGrows ==
    ASSUME CallsInv, Trusted \subseteq Trusted'
    PROVE  \A t \in Slots : Form(calls[t], Trusted')
  BY FormMonotonic DEF CallsInv, Forms

LEMMA BecomeEffect ==
    ASSUME CallsInv, NEW s \in Slots, NEW q \in Seq(Step), running \in {s, None},
           Become(s, q), Form(q, Trusted'),
           \A t \in Slots : Form(calls[t], Trusted')
    PROVE  /\ CallsInv'
           /\ calls'[s] = q
           /\ \A t \in Slots \ {s} : calls'[t] = calls[t]
<1>1. /\ calls' \in [Slots -> Seq(Step)] /\ calls'[s] = q
      /\ \A t \in Slots \ {s} : calls'[t] = calls[t]
  BY DEF CallsInv, Become
<1>2. running' = IF q = <<>> \/ Head(q).do \in Awaits THEN None ELSE s
  BY DEF Become
<1>3. q # <<>> => Head(q) = q[1] /\ (q[1].do \in Awaits \/ q[1].do \in Runs)
  BY FirstStep
<1>4. Awaits \cap Runs = {}
  BY DEF Awaits, Runs
<1>5. running' = IF q # <<>> /\ q[1].do \in Runs THEN s ELSE None
  BY <1>2, <1>3, <1>4
<1>6. None \notin Slots
  BY SlotsAssumption
<1>7. OneRuns'
  <2> SUFFICES ASSUME NEW t \in Slots
               PROVE  running' = t <=> calls'[t] # <<>> /\ calls'[t][1].do \in Runs
    BY DEF OneRuns
  <2>1. CASE t = s
    BY <1>1, <1>5, <1>6, <2>1
  <2>2. CASE t # s
    BY <1>1, <1>5, <1>6, <2>2 DEF CallsInv, OneRuns
  <2> QED
    BY <2>1, <2>2
<1>8. Forms'
  <2> SUFFICES ASSUME NEW t \in Slots  PROVE Form(calls'[t], Trusted')
    BY DEF Forms
  <2>1. CASE t = s
    BY <1>1, <2>1
  <2>2. CASE t # s
    BY <1>1, <2>2
  <2> QED
    BY <2>1, <2>2
<1> QED
  BY <1>1, <1>5, <1>7, <1>8 DEF CallsInv

(* A step is done, and what follows it is next.                            *)
LEMMA PopEffect ==
    ASSUME CallsInv, NEW s \in Slots, running \in {s, None}, calls[s] # <<>>,
           Pop(s), \A t \in Slots : Form(calls[t], Trusted'),
           calls[s][1].do = "sdkUnlock" => calls[s][1].id \in Trusted'
    PROVE  /\ CallsInv' /\ begun' = begun
           /\ ~ToRestore(s)'
           /\ \A t \in Slots \ {s} : calls'[t] = calls[t]
           /\ calls[s][1].do # "entered" => (Resting' <=> Resting)
<1>1. calls[s] \in Seq(Step) /\ Form(calls[s], Trusted')
  BY DEF CallsInv
<1>2. /\ Tail(calls[s]) \in Seq(Step) /\ Form(Tail(calls[s]), Trusted')
      /\ calls[s][1].do # "entered" =>
            (Switching(Tail(calls[s])) <=> Switching(calls[s]))
      /\ \A i \in 1 .. Len(Tail(calls[s])) :
            Tail(calls[s])[i].do \notin FirstSteps
  BY <1>1, TailForm
<1>3. Become(s, Tail(calls[s])) /\ begun' = begun
  BY DEF Pop
<1>4. /\ CallsInv' /\ calls'[s] = Tail(calls[s])
      /\ \A t \in Slots \ {s} : calls'[t] = calls[t]
  BY <1>2, <1>3, BecomeEffect
<1>5. calls[s][1].do # "entered" => (Resting' <=> Resting)
  <2>1. Resting' <=> \A t \in Slots : ~Switching(calls'[t])
    BY <1>4, RestingMeansNext DEF CallsInv
  <2>2. Resting <=> \A t \in Slots : ~Switching(calls[t])
    BY RestingMeans
  <2> QED
    BY <1>2, <1>4, <2>1, <2>2
<1>6. ~ToRestore(s)'
  <2> SUFFICES ASSUME calls'[s] # <<>>
               PROVE  calls'[s][1].do \notin {"restoreLast", "switchSafely"}
    BY DEF ToRestore
  <2>1. 1 \in 1 .. Len(calls'[s])
    BY <1>2, <1>4, FirstStep
  <2> QED
    BY <1>2, <1>4, <2>1 DEF FirstSteps
<1> QED
  BY <1>3, <1>4, <1>5, <1>6

(* A step gives way to others, before what follows it.                     *)
LEMMA PushEffect ==
    ASSUME CallsInv, NEW s \in Slots, running \in {s, None}, calls[s] # <<>>,
           NEW p \in Seq(Step), Push(s, p), Trusted \subseteq Trusted',
           Form(p, Trusted'), \A i \in 1 .. Len(p) : p[i].do # "setActive",
           calls[s][1].do \notin {"sdkUnlock", "entered"}, p # <<>>
    PROVE  /\ CallsInv' /\ begun' = begun
           /\ calls'[s] # <<>> /\ calls'[s][1] = p[1]
           /\ \A t \in Slots \ {s} : calls'[t] = calls[t]
           /\ Resting' <=> Resting /\ ~Switching(p)
<1> DEFINE r == Tail(calls[s])
<1>1. calls[s] \in Seq(Step) /\ Form(calls[s], Trusted)
  BY DEF CallsInv, Forms
<1>2. /\ r \in Seq(Step) /\ Form(r, Trusted') /\ Plain(r)
      /\ Switching(r) <=> Switching(calls[s])
  BY <1>1, TailForm
<1>3. Become(s, p \o r) /\ begun' = begun
  BY DEF Push
<1> HIDE DEF r
<1>4. /\ p \o r \in Seq(Step) /\ Form(p \o r, Trusted')
      /\ Switching(p \o r) <=> Switching(p) \/ Switching(r)
      /\ p \o r # <<>> /\ (p \o r)[1] = p[1]
  BY <1>2, PushForm
<1>5. /\ CallsInv' /\ calls'[s] = p \o r
      /\ \A t \in Slots \ {s} : calls'[t] = calls[t]
  BY <1>3, <1>4, TrustGrows, BecomeEffect
<1>6. Resting' <=> Resting /\ ~Switching(p)
  <2>1. Resting' <=> \A t \in Slots : ~Switching(calls'[t])
    BY <1>5, RestingMeansNext DEF CallsInv
  <2>2. Resting <=> \A t \in Slots : ~Switching(calls[t])
    BY RestingMeans
  <2> QED
    BY <1>2, <1>4, <1>5, <2>1, <2>2
<1> QED
  BY <1>3, <1>4, <1>5, <1>6

(* An exception does not take a call out of enterStandaloneMode.           *)
LEMMA ThrowEffect ==
    ASSUME CallsInv, NEW s \in Slots, running \in {s, None}, Throw(s),
           Trusted \subseteq Trusted'
    PROVE  /\ CallsInv' /\ begun' = begun
           /\ \A t \in Slots \ {s} : calls'[t] = calls[t]
           /\ calls'[s] = <<>> \/ calls'[s][1].do = "entered"
           /\ Resting' <=> Resting
<1> DEFINE k == CHOOSE i \in Position(s) : TRUE
           q == IF Position(s) = {} THEN <<>>
                ELSE SubSeq(calls[s], k, Len(calls[s]))
<1>1. calls[s] \in Seq(Step) /\ Form(calls[s], Trusted)
  BY DEF CallsInv, Forms
<1>2. Become(s, q) /\ begun' = begun
  BY DEF Throw
<1>3. /\ q \in Seq(Step) /\ Form(q, Trusted')
      /\ q = <<>> \/ q[1].do = "entered"
      /\ Switching(q) <=> Switching(calls[s])
  <2>1. CASE Position(s) = {}
    <3>1. ~Switching(calls[s])
      BY <2>1, RestingMeans
    <3>2. q = <<>> /\ q \in Seq(Step) /\ Len(q) = 0
      BY <2>1, EmptySeq
    <3> HIDE DEF q
    <3> QED
      BY <3>1, <3>2 DEF Form, Switching
  <2>2. CASE Position(s) # {}
    <3>1. k \in Position(s)
      BY <2>2
    <3> HIDE DEF k
    <3>2. k \in 1 .. Len(calls[s]) /\ calls[s][k].do = "entered"
      BY <1>1, <3>1, LenProperties DEF Position
    <3>3. q = SubSeq(calls[s], k, Len(calls[s]))
      BY <2>2
    <3> HIDE DEF q
    <3>4. /\ SubSeq(calls[s], k, Len(calls[s])) \in Seq(Step)
          /\ Form(SubSeq(calls[s], k, Len(calls[s])), Trusted)
          /\ Switching(SubSeq(calls[s], k, Len(calls[s])))
          /\ SubSeq(calls[s], k, Len(calls[s]))[1].do = "entered"
      BY <1>1, <3>2, DropForm
    <3>5. Form(q, Trusted')
      BY <3>3, <3>4, FormMonotonic
    <3> QED
      BY <3>2, <3>3, <3>4, <3>5 DEF Switching
  <2> QED
    BY <2>1, <2>2
<1> HIDE DEF q
<1>4. /\ CallsInv' /\ calls'[s] = q
      /\ \A t \in Slots \ {s} : calls'[t] = calls[t]
  BY <1>2, <1>3, TrustGrows, BecomeEffect
<1>5. Resting' <=> Resting
  <2>1. Resting' <=> \A t \in Slots : ~Switching(calls'[t])
    BY <1>4, RestingMeansNext DEF CallsInv
  <2>2. Resting <=> \A t \in Slots : ~Switching(calls[t])
    BY RestingMeans
  <2> QED
    BY <1>3, <1>4, <2>1, <2>2
<1> QED
  BY <1>2, <1>3, <1>4, <1>5

(* A call begins: outside of enterStandaloneMode.                          *)
LEMMA BeginEffect ==
    ASSUME CallsInv, NEW s \in Slots, NEW q \in Seq(Step), Begin(s, q),
           Form(q, Trusted'), ~Switching(q), Trusted \subseteq Trusted'
    PROVE  /\ CallsInv' /\ begun' = begun + 1 /\ calls[s] = <<>>
           /\ running = None /\ calls'[s] = q
           /\ \A t \in Slots \ {s} : calls'[t] = calls[t]
           /\ Resting' <=> Resting
<1>1. running = None /\ calls[s] = <<>> /\ begun' = begun + 1 /\ Become(s, q)
  BY DEF Begin, Act
<1>2. /\ CallsInv' /\ calls'[s] = q
      /\ \A t \in Slots \ {s} : calls'[t] = calls[t]
  BY <1>1, TrustGrows, BecomeEffect
<1>3. Resting' <=> Resting
  <2>1. Resting' <=> \A t \in Slots : ~Switching(calls'[t])
    BY <1>2, RestingMeansNext DEF CallsInv
  <2>2. Resting <=> \A t \in Slots : ~Switching(calls[t])
    BY RestingMeans
  <2>3. ~Switching(calls[s])
    <3>1. Len(calls[s]) = 0
      BY <1>1, EmptySeq
    <3> QED
      BY <3>1 DEF Switching
  <2> QED
    BY <1>2, <2>1, <2>2, <2>3
<1> QED
  BY <1>1, <1>2, <1>3

(* The steps a call begins with, or a step gives way to.                   *)
OfKind(e, trusted) ==
    /\ e.do \in KeystoreSteps => e.id \in Keystores
    /\ e.do \in VaultSteps => e.id \in Vaults
    /\ e.do \in {"activate", "addresses", "setActive"} => e.id \in trusted

LEMMA OneStep ==
    ASSUME NEW e \in Step, NEW t, OfKind(e, t), e.do # "setActive",
           e.do = "unlocked" => e.id \in t
    PROVE  /\ <<e>> \in Seq(Step) /\ <<e>> # <<>> /\ <<e>>[1] = e
           /\ Form(<<e>>, t)
           /\ Switching(<<e>>) <=> e.do = "entered"
           /\ \A i \in 1 .. Len(<<e>>) : <<e>>[i].do # "setActive"
<1> DEFINE q == <<e>>
<1>1. q \in Seq(Step) /\ Len(q) = 1 /\ q[1] = e /\ q # <<>>
  OBVIOUS
<1> HIDE DEF q
<1>2. \A i \in 1 .. Len(q) : i = 1 /\ q[i] = e
  BY <1>1
<1>3. 1 \in 1 .. Len(q)
  BY <1>1
<1>4. Form(q, t)
  BY <1>1, <1>2 DEF Form, OfKind
<1>5. Switching(q) <=> e.do = "entered"
  BY <1>1, <1>2, <1>3 DEF Switching
<1> QED
  BY <1>1, <1>2, <1>4, <1>5 DEF q

LEMMA TwoSteps ==
    ASSUME NEW e \in Step, NEW f \in Step, NEW t, OfKind(e, t), OfKind(f, t),
           f.do \notin FirstSteps, e.do = "setActive" => f.do = "switch",
           f.do = "unlocked" => e.do = "sdkUnlock" /\ e.id = f.id,
           e.do = "unlocked" => e.id \in t
    PROVE  /\ <<e, f>> \in Seq(Step) /\ <<e, f>> # <<>> /\ <<e, f>>[1] = e
           /\ Form(<<e, f>>, t)
           /\ Switching(<<e, f>>) <=> e.do = "entered" \/ f.do = "entered"
           /\ e.do # "setActive" =>
                 \A i \in 1 .. Len(<<e, f>>) : <<e, f>>[i].do # "setActive"
<1> DEFINE q == <<e, f>>
<1>1. q \in Seq(Step) /\ Len(q) = 2 /\ q[1] = e /\ q[2] = f /\ q # <<>>
  OBVIOUS
<1> HIDE DEF q
<1>2. \A i \in 1 .. Len(q) : (i = 1 /\ q[i] = e) \/ (i = 2 /\ q[i] = f)
  BY <1>1
<1>3. 1 \in 1 .. Len(q) /\ 2 \in 1 .. Len(q) /\ 2 - 1 = 1 /\ ~(1 > 1) /\ 1 # 2
  BY <1>1
<1>4. Form(q, t)
  <2> SUFFICES ASSUME NEW i \in 1 .. Len(q)
               PROVE
       /\ q[i].do \in KeystoreSteps => q[i].id \in Keystores
       /\ q[i].do \in VaultSteps => q[i].id \in Vaults
       /\ q[i].do \in FirstSteps => i = 1
       /\ q[i].do = "setActive" => Len(q) = 2 /\ q[2].do = "switch"
       /\ q[i].do = "unlocked" /\ i > 1 =>
             q[i-1].do = "sdkUnlock" /\ q[i-1].id = q[i].id
       /\ \/ q[i].do \in {"activate", "addresses", "setActive"}
          \/ q[i].do = "unlocked" /\ i = 1
          => q[i].id \in t
    BY DEF Form
  <2>1. CASE i = 1
    BY <1>1, <1>3, <2>1 DEF OfKind
  <2>2. CASE i = 2
    BY <1>1, <1>3, <2>2 DEF OfKind, FirstSteps
  <2> QED
    BY <1>2, <2>1, <2>2
<1>5. Switching(q) <=> e.do = "entered" \/ f.do = "entered"
  BY <1>1, <1>2, <1>3 DEF Switching
<1>6. e.do # "setActive" => \A i \in 1 .. Len(q) : q[i].do # "setActive"
  BY <1>2 DEF FirstSteps
<1> QED
  BY <1>1, <1>4, <1>5, <1>6 DEF q

LEMMA ThreeSteps ==
    ASSUME NEW e \in Step, NEW f \in Step, NEW g \in Step, NEW t,
           OfKind(e, t), OfKind(f, t), OfKind(g, t),
           {e.do, f.do, g.do} \cap {"setActive", "unlocked", "entered"} = {},
           f.do \notin FirstSteps, g.do \notin FirstSteps
    PROVE  /\ <<e, f, g>> \in Seq(Step) /\ <<e, f, g>>[1] = e
           /\ Form(<<e, f, g>>, t)
           /\ ~Switching(<<e, f, g>>)
<1> DEFINE q == <<e, f, g>>
<1>1. q \in Seq(Step) /\ Len(q) = 3 /\ q[1] = e /\ q[2] = f /\ q[3] = g
  OBVIOUS
<1> HIDE DEF q
<1>2. \A i \in 1 .. Len(q) :
         (i = 1 /\ q[i] = e) \/ (i = 2 /\ q[i] = f) \/ (i = 3 /\ q[i] = g)
  BY <1>1
<1>3. \A i \in 1 .. Len(q) : q[i].do \notin {"setActive", "unlocked", "entered"}
  BY <1>2
<1>4. \A i \in 1 .. Len(q) : OfKind(q[i], t) /\ (q[i].do \in FirstSteps => i = 1)
  BY <1>2
<1> QED
  BY <1>1, <1>3, <1>4 DEF q, Form, OfKind, Switching
-----------------------------------------------------------------------------
(* The last opened wallet                                                  *)

(* What the file holds once the saves in flight have ended, unless the     *)
(* last of them slips.                                                     *)
Intended == IF saves # <<>> THEN saves[Len(saves)].wallet ELSE saved

LEMMA StoreSame ==
    ASSUME StoreTypeOK, UNCHANGED store
    PROVE  StoreTypeOK' /\ Intended' = Intended /\ slipped' = slipped
  BY DEF store, StoreTypeOK, Intended

(* The requests a call sends follow those in flight.                       *)
LEMMA Sent ==
    ASSUME StoreTypeOK, NEW ws \in Seq(Wallets), Send(ws)
    PROVE  /\ StoreTypeOK'
           /\ ws = <<>> => Intended' = Intended /\ slipped' = slipped
           /\ ws # <<>> => Intended' = ws[Len(ws)] /\ slipped' = FALSE
<1> DEFINE new == [i \in DOMAIN ws |-> [wallet |-> ws[i], met |-> FALSE]]
           all == saves \o new
<1>1. /\ saves \in Seq(Saves) /\ slipped \in BOOLEAN
      /\ saved \in Wallets /\ cached \in Wallets /\ loading \in SUBSET Wallets
  BY DEF StoreTypeOK
<1>2. /\ saves' = Met(all) /\ slipped' = (slipped /\ ws = <<>>)
      /\ saved' = saved /\ cached' = cached /\ loading' = loading
  BY DEF Send
<1>3. DOMAIN ws = 1 .. Len(ws) /\ Len(ws) \in Nat
  BY LenProperties
<1>4. /\ new \in Seq(Saves) /\ Len(new) = Len(ws)
      /\ \A i \in 1 .. Len(ws) : new[i].wallet = ws[i]
  <2>1. new \in [1 .. Len(ws) -> Saves]
    <3>1. \A i \in 1 .. Len(ws) : ws[i] \in Wallets
      BY ElementOfSeq
    <3> QED
      BY <1>3, <3>1 DEF Saves
  <2>2. \A i \in 1 .. Len(ws) : new[i].wallet = ws[i]
    BY <1>3
  <2> HIDE DEF new
  <2>3. new \in Seq(Saves) /\ Len(new) = Len(ws)
    BY <1>3, <2>1, IsASeq, LenProperties
  <2> QED
    BY <2>2, <2>3
<1> HIDE DEF new
<1>5. /\ all \in Seq(Saves) /\ Len(all) = Len(saves) + Len(ws)
      /\ \A i \in 1 .. Len(all) :
            all[i] = IF i <= Len(saves) THEN saves[i] ELSE new[i - Len(saves)]
  <2>1. saves \in Seq(Saves) /\ new \in Seq(Saves)
    BY <1>1, <1>4
  <2>2. /\ all \in Seq(Saves) /\ Len(all) = Len(saves) + Len(new)
        /\ \A i \in 1 .. Len(saves) + Len(new) :
              all[i] = IF i <= Len(saves) THEN saves[i] ELSE new[i - Len(saves)]
    BY <2>1, ConcatProperties, Zenon
  <2>3. Len(new) = Len(ws)
    BY <1>4
  <2> HIDE DEF all
  <2> QED
    BY <2>2, <2>3
<1> HIDE DEF all
<1>6. /\ saves' \in Seq(Saves) /\ Len(saves') = Len(all)
      /\ \A i \in 1 .. Len(all) : saves'[i].wallet = all[i].wallet
  <2> DEFINE met == [i \in 1 .. Len(all) |->
                        [all[i] EXCEPT !.met = @ \/ Len(all) > 1]]
  <2>1. Len(all) \in Nat /\ DOMAIN all = 1 .. Len(all)
    BY <1>5, LenProperties
  <2>2. saves' = met
    BY <1>2, <2>1 DEF Met
  <2>3. \A i \in 1 .. Len(all) : all[i] \in Saves
    BY <1>5, ElementOfSeq
  <2>4. ASSUME NEW i \in 1 .. Len(all)
        PROVE  met[i] \in Saves /\ met[i].wallet = all[i].wallet
    <3>1. all[i] \in Saves
      BY <2>3
    <3>2. (all[i].met \/ Len(all) > 1) \in BOOLEAN
      OBVIOUS
    <3> QED
      BY <3>1, <3>2 DEF Saves
  <2>5. met \in [1 .. Len(all) -> Saves]
    BY <2>4
  <2>6. \A i \in 1 .. Len(all) : met[i].wallet = all[i].wallet
    BY <2>4
  <2> HIDE DEF met
  <2>7. met \in Seq(Saves) /\ Len(met) = Len(all)
    BY <2>1, <2>5, IsASeq, LenProperties
  <2> QED
    BY <2>2, <2>6, <2>7
<1>7. StoreTypeOK'
  <2>1. slipped' \in BOOLEAN
    BY <1>2
  <2> QED
    BY <1>1, <1>2, <1>6, <2>1 DEF StoreTypeOK
<1>8. CASE ws = <<>>
  <2>1. Len(ws) = 0 /\ Len(all) = Len(saves) /\ Len(saves) \in Nat
    BY <1>1, <1>5, <1>8, EmptySeq, LenProperties
  <2>2. saves' = <<>> <=> saves = <<>>
    BY <1>1, <1>6, <2>1, EmptySeq
  <2>3. ASSUME saves # <<>>
        PROVE  saves'[Len(saves')].wallet = saves[Len(saves)].wallet
    <3>1. Len(saves) # 0
      BY <1>1, <2>3, EmptySeq
    <3>2. Len(saves) \in 1 .. Len(all)
      BY <2>1, <3>1
    <3>3. all[Len(saves)] = saves[Len(saves)]
      BY <1>5, <2>1, <3>2
    <3> QED
      BY <1>6, <2>1, <3>2, <3>3
  <2>4. Intended' = Intended
    BY <1>2, <2>2, <2>3 DEF Intended
  <2>5. slipped' = slipped
    BY <1>1, <1>2, <1>8
  <2> QED
    BY <1>7, <1>8, <2>4, <2>5
<1>9. CASE ws # <<>>
  <2>1. Len(ws) \in Nat \ {0} /\ Len(saves) \in Nat
    BY <1>1, <1>3, <1>9, EmptySeq, LenProperties
  <2>2. Len(all) \in 1 .. Len(all) /\ Len(all) > Len(saves)
        /\ Len(all) - Len(saves) = Len(ws) /\ Len(ws) \in 1 .. Len(ws)
    BY <1>5, <2>1
  <2>3. saves'[Len(saves')].wallet = ws[Len(ws)]
    BY <1>4, <1>5, <1>6, <2>1, <2>2
  <2>4. saves' # <<>>
    BY <1>6, <2>2, EmptySeq
  <2>5. Intended' = ws[Len(ws)]
    BY <2>3, <2>4 DEF Intended
  <2>6. slipped' = FALSE
    BY <1>2, <1>9
  <2> QED
    BY <1>7, <1>9, <2>5, <2>6
<1> QED
  BY <1>8, <1>9

(* A request for one wallet.                                               *)
LEMMA SentOne ==
    ASSUME StoreTypeOK, NEW w \in Wallets, Send(<<w>>)
    PROVE  StoreTypeOK' /\ Intended' = w /\ slipped' = FALSE
<1> DEFINE ws == <<w>>
<1>1. ws \in Seq(Wallets) /\ ws # <<>> /\ ws[Len(ws)] = w
  OBVIOUS
<1>2. Send(ws)
  OBVIOUS
<1> HIDE DEF ws
<1> QED
  BY <1>1, <1>2, Sent

(* Requests that forget the vault, if there are any.                       *)
LEMMA SentNone ==
    ASSUME StoreTypeOK, NEW a \in BOOLEAN, NEW b \in BOOLEAN,
           Send((IF a THEN <<None>> ELSE <<>>) \o (IF b THEN <<None>> ELSE <<>>))
    PROVE  /\ StoreTypeOK'
           /\ IF a \/ b THEN Intended' = None
                        ELSE Intended' = Intended /\ slipped' = slipped
<1> DEFINE p == IF a THEN <<None>> ELSE <<>>
           q == IF b THEN <<None>> ELSE <<>>
           ws == p \o q
<1>1. None \in Wallets
  BY DEF Wallets
<1>2. ws \in Seq({None}) /\ (ws = <<>> <=> ~(a \/ b))
  <2>1. /\ <<None>> \in Seq({None}) /\ Len(<<None>>) = 1
        /\ <<>> \in Seq({None}) /\ Len(<<>>) = 0
    BY EmptySeq
  <2>2. /\ p \in Seq({None}) /\ Len(p) \in Nat /\ (Len(p) = 0 <=> ~a)
        /\ q \in Seq({None}) /\ Len(q) \in Nat /\ (Len(q) = 0 <=> ~b)
    <3>1. ASSUME NEW c \in BOOLEAN
          PROVE  /\ (IF c THEN <<None>> ELSE <<>>) \in Seq({None})
                 /\ Len(IF c THEN <<None>> ELSE <<>>) \in Nat
                 /\ Len(IF c THEN <<None>> ELSE <<>>) = 0 <=> ~c
      <4>1. CASE c = TRUE
        BY <2>1, <4>1
      <4>2. CASE c = FALSE
        BY <2>1, <4>2
      <4> QED
        BY <4>1, <4>2
    <3> QED
      BY <3>1
  <2> HIDE DEF p, q
  <2>3. ws \in Seq({None}) /\ Len(ws) = Len(p) + Len(q)
    BY <2>2, ConcatProperties
  <2> HIDE DEF ws
  <2> QED
    BY <2>2, <2>3, EmptySeq
<1>3. Send(ws)
  OBVIOUS
<1> HIDE DEF ws
<1>4. ws \in Seq(Wallets) /\ (ws # <<>> => ws[Len(ws)] = None)
  <2>1. ws \in Seq(Wallets)
    BY <1>1, <1>2, SeqDef
  <2>2. ASSUME ws # <<>>  PROVE ws[Len(ws)] = None
    <3>1. Len(ws) \in Nat \ {0}
      BY <1>2, <2>2, EmptySeq, LenProperties
    <3>2. Len(ws) \in 1 .. Len(ws)
      BY <3>1
    <3>3. ws[Len(ws)] \in {None}
      BY <1>2, <3>2, ElementOfSeq
    <3> QED
      BY <3>3
  <2> QED
    BY <2>1, <2>2
<1> QED
  BY <1>2, <1>3, <1>4, Sent

(* A save that ends makes no vault the last wallet, unless it slips.       *)
LEMMA SaveEnded ==
    ASSUME StoreTypeOK, SaveEnds
    PROVE  /\ StoreTypeOK'
           /\ ~slipped' => ~slipped /\ Intended' \in {Intended, None}
<1>1. /\ saves \in Seq(Saves) /\ slipped \in BOOLEAN
      /\ saved \in Wallets /\ cached \in Wallets /\ loading \in SUBSET Wallets
  BY DEF StoreTypeOK
<1>2. PICK i \in DOMAIN saves, done \in BOOLEAN :
         /\ saved' \in IF done
                       THEN {saves[i].wallet} \cup (IF saves[i].met THEN {None} ELSE {})
                       ELSE {saved, None}
         /\ cached' = IF done THEN saves[i].wallet ELSE cached
         /\ saves' = Others(i)
         /\ slipped' = (slipped \/ (i = Len(saves) /\ (~done \/ i > 1)))
  BY DEF SaveEnds
<1>3. Len(saves) \in Nat /\ i \in 1 .. Len(saves)
  BY <1>1, LenProperties
<1>4. /\ saves[i].wallet \in Wallets /\ None \in Wallets
      /\ \A j \in 1 .. Len(saves) : saves[j] \in Saves
  <2>1. \A j \in 1 .. Len(saves) : saves[j] \in Saves
    BY <1>1, ElementOfSeq
  <2> QED
    BY <1>3, <2>1 DEF Saves, Wallets
<1> DEFINE n == Len(saves) - 1
<1>5. saves' = [j \in 1 .. n |-> IF j < i THEN saves[j] ELSE saves[j + 1]]
  BY <1>2 DEF Others
<1>6. n \in Nat
  BY <1>3
<1>7. saves' \in Seq(Saves) /\ Len(saves') = n
  <2>1. \A j \in 1 .. n : saves[j] \in Saves /\ saves[j + 1] \in Saves
    BY <1>3, <1>4
  <2>2. saves' \in [1 .. n -> Saves]
    BY <1>5, <2>1
  <2> HIDE DEF n
  <2> QED
    BY <1>6, <2>2, IsASeq, LenProperties
<1>8. StoreTypeOK'
  <2>1. saved' \in Wallets /\ cached' \in Wallets
    BY <1>1, <1>2, <1>4
  <2>2. loading' \in SUBSET Wallets
    BY <1>1, <2>1 DEF SaveEnds
  <2>3. slipped' \in BOOLEAN
    BY <1>2
  <2> QED
    BY <1>7, <2>1, <2>2, <2>3 DEF StoreTypeOK
<1>9. ASSUME ~slipped'  PROVE ~slipped /\ Intended' \in {Intended, None}
  <2>1. ~slipped
    BY <1>2, <1>9
  <2>2. i # Len(saves) \/ (done /\ ~(i > 1))
    BY <1>2, <1>9
  <2>3. saves # <<>>
    BY <1>1, <1>3, EmptySeq
  <2>4. CASE i # Len(saves)
    <3>1. n \in 1 .. n /\ ~(n < i) /\ n + 1 = Len(saves)
      BY <1>3, <2>4
    <3>2. saves'[n] = saves[Len(saves)]
      BY <1>5, <3>1
    <3> HIDE DEF n
    <3>3. saves' # <<>>
      BY <1>7, <3>1, EmptySeq
    <3>4. Intended' = Intended
      BY <1>7, <2>3, <3>2, <3>3 DEF Intended
    <3> QED
      BY <2>1, <3>4
  <2>5. CASE i = Len(saves)
    <3>1. done /\ n = 0
      BY <1>3, <2>2, <2>5
    <3>2. saves' = <<>>
      BY <1>7, <3>1, EmptySeq
    <3>3. saved' \in {saves[Len(saves)].wallet, None}
      BY <1>2, <2>5, <3>1
    <3>4. Intended = saves[Len(saves)].wallet /\ Intended' = saved'
      BY <2>3, <3>2 DEF Intended
    <3> QED
      BY <2>1, <3>3, <3>4
  <2> QED
    BY <2>4, <2>5
<1> QED
  BY <1>8, <1>9

LEMMA StorageLoaded ==
    ASSUME StoreTypeOK, StorageLoads
    PROVE  StoreTypeOK' /\ Intended' = Intended /\ slipped' = slipped
<1>1. cached' \in Wallets
  BY DEF StoreTypeOK, StorageLoads, Wallets
<1> QED
  BY <1>1 DEF StoreTypeOK, StorageLoads, Intended

-----------------------------------------------------------------------------
(* The invariants about the state                                          *)

(* Emissions of the keystore are held back only during a switch.           *)
HeldInSwitch == transitioning => ~Resting

(* From the moment a switch begins no phrase is in memory, unless an       *)
(* unlock ended during it.                                                 *)
LockedElsewhere ==
    ~missed /\ (~Resting \/ app.mode # "keystore") => ~Unlocked(keystore)

(* A vault is to be the last opened wallet of an app that shows keystores. *)
SavedIsVault ==
    /\ Resting /\ Started /\ ~late /\ ~slipped /\ app.mode = "keystore"
    /\ Intended \in Vaults

(* Then the call that runs is about to enter the vault mode, and           *)
(* restoreLastOpenedWallet cannot be refused.                              *)
SavedElsewhere == SavedIsVault => \E s \in Slots : ToRestore(s) \/ ToSwitch(s)
RestoreAllowed ==
    \A s \in Slots : ToRestore(s) /\ app.mode = "keystore" => ~Unlocked(keystore)

StateInv ==
    /\ HeldInSwitch
    /\ AppMirrorsService
    /\ LockedElsewhere
    /\ SavedElsewhere
    /\ RestoreAllowed
    /\ AddressesUnlessRaced

AppInv == TypeOK /\ CallsInv /\ StateInv

(* One call runs: while it does, no other is about to enter the mode.      *)
LEMMA Alone ==
    ASSUME CallsInv, NEW s \in Slots, running \in {s, None},
           NEW t \in Slots \ {s}
    PROVE  ~ToRestore(t) /\ ~ToSwitch(t)
<1>1. None \notin Slots
  BY SlotsAssumption
<1>2. {"restoreLast", "switchSafely", "switch"} \subseteq Runs
  BY DEF Runs
<1> QED
  BY <1>1, <1>2 DEF CallsInv, OneRuns, ToRestore, ToSwitch

(* A step of call s that is not about to enter the vault mode: all that is *)
(* left to show of the two invariants about lastOpenedWallet.              *)
LEMMA Settled ==
    ASSUME CallsInv, SavedElsewhere, NEW s \in Slots, running \in {s, None},
           ~ToRestore(s), ~ToSwitch(s)
    PROVE  ~SavedIsVault
<1> QED
  BY Alone DEF SavedElsewhere

LEMMA StillAllowed ==
    ASSUME CallsInv, NEW s \in Slots, running \in {s, None},
           \A t \in Slots \ {s} : calls'[t] = calls[t],
           ToRestore(s)' /\ app'.mode = "keystore" => ~Unlocked(keystore')
    PROVE  RestoreAllowed'
<1> SUFFICES ASSUME NEW t \in Slots, ToRestore(t)', app'.mode = "keystore"
             PROVE  ~Unlocked(keystore')
  BY DEF RestoreAllowed, Unlocked
<1>1. CASE t = s
  BY <1>1
<1>2. CASE t # s
  <2>1. ~ToRestore(t)
    BY <1>2, Alone
  <2>2. ToRestore(t)' <=> ToRestore(t)
    BY <1>2 DEF ToRestore
  <2> QED
    BY <2>1, <2>2
<1> QED
  BY <1>1, <1>2

(* A step that changes nothing the app shows.                              *)
LEMMA Unmoved ==
    ASSUME AppInv, NEW s \in Slots, running \in {s, None},
           ~ToRestore(s), ~ToSwitch(s),
           CallsInv', Resting' <=> Resting,
           \A t \in Slots \ {s} : calls'[t] = calls[t],
           ToRestore(s)' => app.mode # "keystore",
           Started' => Started \/ app.mode # "keystore",
           begun' \in Nat, stored' \in SUBSET Vaults, opened' \in SUBSET Vaults,
           raced' \in BOOLEAN, raced => raced',
           UNCHANGED <<app, vultisig, keystore, transitioning, store, missed,
                       late>>
    PROVE  AppInv'
<1>1. TypeOK'
  BY StoreSame DEF AppInv, TypeOK, CallsInv
<1>2. HeldInSwitch' /\ LockedElsewhere' /\ AddressesUnlessRaced'
  BY DEF AppInv, StateInv, HeldInSwitch, LockedElsewhere, AddressesUnlessRaced,
         Unlocked
<1>3. AppMirrorsService'
  BY DEF AppInv, StateInv, AppMirrorsService
<1>4. SavedElsewhere'
  <2>1. ~SavedIsVault
    BY Settled DEF AppInv, StateInv
  <2>2. Intended' = Intended /\ slipped' = slipped
    BY StoreSame DEF AppInv, TypeOK
  <2>3. ~SavedIsVault'
    BY <2>1, <2>2 DEF SavedIsVault
  <2> QED
    BY <2>3 DEF SavedElsewhere
<1>5. RestoreAllowed'
  BY StillAllowed DEF AppInv
<1> QED
  BY <1>1, <1>2, <1>3, <1>4, <1>5 DEF AppInv, StateInv
-----------------------------------------------------------------------------
(* The steps that change nothing the app shows                             *)

LEMMA SameTrust == UNCHANGED <<opened, raced>> => Trusted' = Trusted
  BY DEF Trusted

\* A step that is only done.
LEMMA DoneStep ==
    ASSUME AppInv, NEW s \in Slots, NEW d, At(s, d), Pop(s),
           d \notin {"restoreLast", "switchSafely", "switch", "entered", "sdkUnlock"},
           UNCHANGED <<app, vultisig, keystore, transitioning, store, stored,
                       opened, raced, missed, late>>
    PROVE  AppInv'
<1>1. /\ calls[s] # <<>> /\ calls[s][1].do = d /\ running \in {s, None}
  BY AtStep DEF AppInv
<1>2. /\ CallsInv' /\ begun' = begun /\ ~ToRestore(s)' /\ (Resting' <=> Resting)
      /\ \A t \in Slots \ {s} : calls'[t] = calls[t]
  BY <1>1, SameTrust, TrustGrows, PopEffect DEF AppInv
<1>3. ~ToRestore(s) /\ ~ToSwitch(s) /\ (Started' <=> Started)
  BY <1>1, <1>2 DEF ToRestore, ToSwitch, Started
<1>4. /\ begun' \in Nat /\ stored' \in SUBSET Vaults /\ opened' \in SUBSET Vaults
      /\ raced' \in BOOLEAN
  BY <1>2 DEF AppInv, TypeOK
<1> QED
  BY <1>1, <1>2, <1>3, <1>4, Unmoved

\* A step that fails.
LEMMA FailedStep ==
    ASSUME AppInv, NEW s \in Slots, NEW d, At(s, d), Throw(s),
           d \notin {"restoreLast", "switchSafely", "switch"},
           UNCHANGED <<app, vultisig, keystore, transitioning, store, stored,
                       opened, raced, missed, late>>
    PROVE  AppInv'
<1>1. /\ calls[s] # <<>> /\ calls[s][1].do = d /\ running \in {s, None}
  BY AtStep DEF AppInv
<1>2. /\ CallsInv' /\ begun' = begun /\ (Resting' <=> Resting)
      /\ \A t \in Slots \ {s} : calls'[t] = calls[t]
      /\ calls'[s] = <<>> \/ calls'[s][1].do = "entered"
  BY <1>1, SameTrust, ThrowEffect DEF AppInv
<1>3. ~ToRestore(s) /\ ~ToSwitch(s) /\ (Started' <=> Started) /\ ~ToRestore(s)'
  BY <1>1, <1>2 DEF ToRestore, ToSwitch, Started
<1>4. /\ begun' \in Nat /\ stored' \in SUBSET Vaults /\ opened' \in SUBSET Vaults
      /\ raced' \in BOOLEAN
  BY <1>2 DEF AppInv, TypeOK
<1> QED
  BY <1>1, <1>2, <1>3, <1>4, Unmoved

\* A step that gives way to others.
LEMMA ExpandedStep ==
    ASSUME AppInv, NEW s \in Slots, NEW d, At(s, d),
           d \notin {"restoreLast", "switchSafely", "switch", "entered", "sdkUnlock"},
           NEW p \in Seq(Step), p # <<>>, Push(s, p), Form(p, Trusted'),
           \A i \in 1 .. Len(p) : p[i].do # "setActive", ~Switching(p),
           p[1].do \notin {"restoreLast", "switchSafely"},
           Trusted \subseteq Trusted',
           stored' \in SUBSET Vaults, opened' \in SUBSET Vaults,
           UNCHANGED <<app, vultisig, keystore, transitioning, store, raced,
                       missed, late>>
    PROVE  AppInv'
<1>1. /\ calls[s] # <<>> /\ calls[s][1].do = d /\ running \in {s, None}
  BY AtStep DEF AppInv
<1>2. /\ CallsInv' /\ begun' = begun /\ (Resting' <=> Resting)
      /\ \A t \in Slots \ {s} : calls'[t] = calls[t]
      /\ calls'[s][1] = p[1]
  BY <1>1, PushEffect DEF AppInv
<1>3. ~ToRestore(s) /\ ~ToSwitch(s) /\ (Started' <=> Started) /\ ~ToRestore(s)'
  BY <1>1, <1>2 DEF ToRestore, ToSwitch, Started
<1>4. begun' \in Nat /\ raced' \in BOOLEAN
  BY <1>2 DEF AppInv, TypeOK
<1> QED
  BY <1>1, <1>2, <1>3, <1>4, Unmoved

\* A call that only begins.
LEMMA BegunCall ==
    ASSUME AppInv, NEW s \in Slots, NEW q \in Seq(Step), Begin(s, q),
           Form(q, Trusted'), ~Switching(q), Trusted \subseteq Trusted',
           q[1].do \in {"restoreLast", "switchSafely"} => app.mode # "keystore",
           Started \/ app.mode # "keystore",
           stored' \in SUBSET Vaults, opened' \in SUBSET Vaults,
           UNCHANGED <<app, vultisig, keystore, transitioning, store, raced,
                       missed, late>>
    PROVE  AppInv'
<1>1. /\ CallsInv' /\ begun' = begun + 1 /\ calls[s] = <<>> /\ running = None
      /\ calls'[s] = q /\ (Resting' <=> Resting)
      /\ \A t \in Slots \ {s} : calls'[t] = calls[t]
  BY BeginEffect DEF AppInv
<1>2. ~ToRestore(s) /\ ~ToSwitch(s) /\ (ToRestore(s)' => app.mode # "keystore")
  BY <1>1 DEF ToRestore, ToSwitch
<1>3. begun' \in Nat /\ raced' \in BOOLEAN
  BY <1>1 DEF AppInv, TypeOK
<1> QED
  BY <1>1, <1>2, <1>3, Unmoved

LEMMA KeystoreCallStep ==
    ASSUME AppInv, NEW s \in Slots, KeystoreCall(s)  PROVE AppInv'
<1>1. PICK e \in Step : /\ Begin(s, <<e>>) /\ e.do \in KeystoreSteps
                        /\ e.id \in Keystores
  <2>1. ASSUME NEW k \in Keystores, NEW d \in KeystoreSteps,
               Begin(s, <<DoFor(d, k)>>)
        PROVE  \E e \in Step : /\ Begin(s, <<e>>) /\ e.do \in KeystoreSteps
                               /\ e.id \in Keystores
    <3>1. d \in Awaits \cup Runs /\ k \in Vaults \cup Keystores \cup {None}
      BY DEF KeystoreSteps, Awaits
    <3>2. /\ DoFor(d, k) \in Step /\ DoFor(d, k).do = d /\ DoFor(d, k).id = k
      BY <3>1, StepFields
    <3> QED
      BY <2>1, <3>2
  <2>2. keystore # None => keystore.id \in Keystores
    BY DEF AppInv, TypeOK, KeystoreState
  <2> QED
    BY <2>1, <2>2 DEF KeystoreCall, KeystoreSteps
<1>2. /\ Started
      /\ UNCHANGED <<app, vultisig, keystore, transitioning, store, stored, opened,
                     raced, missed, late>>
  BY DEF KeystoreCall
<1>3. Trusted' = Trusted /\ stored' \in SUBSET Vaults /\ opened' \in SUBSET Vaults
  BY <1>2, SameTrust DEF AppInv, TypeOK
<1>4. OfKind(e, Trusted') /\ e.do \notin FirstSteps
      /\ e.do \notin {"unlocked", "entered"}
  BY <1>1 DEF OfKind, KeystoreSteps, VaultSteps, FirstSteps
<1>5. <<e>> \in Seq(Step) /\ <<e>>[1] = e /\ Form(<<e>>, Trusted')
      /\ ~Switching(<<e>>)
  BY <1>4, OneStep DEF FirstSteps
<1> QED
  BY <1>1, <1>2, <1>3, <1>4, <1>5, BegunCall DEF FirstSteps

LEMMA LeaveLedgerStep ==
    ASSUME AppInv, NEW s \in Slots, LeaveLedger(s)  PROVE AppInv'
<1> DEFINE e == Do("restoreLast")
<1>1. e \in Step /\ e.do = "restoreLast"
  BY StepFields DEF Runs
<1> HIDE DEF e
<1>2. /\ app.mode = "ledger" /\ Begin(s, <<e>>)
      /\ UNCHANGED <<app, vultisig, keystore, transitioning, store, stored, opened,
                     raced, missed, late>>
  BY DEF LeaveLedger, e
<1>3. Trusted' = Trusted /\ stored' \in SUBSET Vaults /\ opened' \in SUBSET Vaults
  BY <1>2, SameTrust DEF AppInv, TypeOK
<1>4. OfKind(e, Trusted')
  BY <1>1 DEF OfKind, KeystoreSteps, VaultSteps
<1>5. <<e>> \in Seq(Step) /\ <<e>>[1] = e /\ Form(<<e>>, Trusted')
      /\ ~Switching(<<e>>)
  BY <1>1, <1>4, OneStep
<1> QED
  BY <1>1, <1>2, <1>3, <1>5, BegunCall

LEMMA VaultCallStep ==
    ASSUME AppInv, NEW s \in Slots, VaultCall(s)  PROVE AppInv'
<1>1. /\ Started
      /\ UNCHANGED <<app, vultisig, keystore, transitioning, store, stored, opened,
                     raced, missed, late>>
  BY DEF VaultCall
<1>2. Trusted' = Trusted /\ stored' \in SUBSET Vaults /\ opened' \in SUBSET Vaults
  BY <1>1, SameTrust DEF AppInv, TypeOK
<1>3. vultisig.vaults \subseteq Vaults
  BY DEF AppInv, TypeOK, VaultState
<1>4. ASSUME NEW d \in {"switch", "init", "load", "unlock"}
      PROVE  Do(d) \in Step /\ Do(d).do = d /\ OfKind(Do(d), Trusted')
  <2>1. Do(d) \in Step /\ Do(d).do = d
    BY StepFields DEF Awaits, Runs
  <2> QED
    BY <2>1 DEF OfKind, KeystoreSteps, VaultSteps
<1>5. ASSUME NEW d \in {"select", "delete"}, NEW v \in Vaults
      PROVE  DoFor(d, v) \in Step /\ DoFor(d, v).do = d
             /\ OfKind(DoFor(d, v), Trusted')
  <2>1. DoFor(d, v) \in Step /\ DoFor(d, v).do = d /\ DoFor(d, v).id = v
    BY StepFields DEF Awaits, Runs
  <2> QED
    BY <2>1 DEF OfKind, KeystoreSteps, VaultSteps
<1>6. ASSUME NEW v \in vultisig.vaults,
             Begin(s, <<Do("switch"), DoFor("select", v)>>)
      PROVE  AppInv'
  <2> DEFINE q == <<Do("switch"), DoFor("select", v)>>
  <2>1. q \in Seq(Step) /\ q[1].do = "switch" /\ Form(q, Trusted') /\ ~Switching(q)
    BY <1>3, <1>4, <1>5, TwoSteps DEF FirstSteps
  <2> QED
    BY <1>1, <1>2, <1>6, <2>1, BegunCall
<1>7. ASSUME NEW v \in vultisig.vaults, Begin(s, <<DoFor("delete", v)>>)
      PROVE  AppInv'
  <2> DEFINE q == <<DoFor("delete", v)>>
  <2>1. q \in Seq(Step) /\ q[1].do = "delete" /\ Form(q, Trusted') /\ ~Switching(q)
    BY <1>3, <1>5, OneStep
  <2> QED
    BY <1>1, <1>2, <1>7, <2>1, BegunCall
<1>8. ASSUME NEW d \in {"switch", "unlock"}, Begin(s, <<Do(d)>>)
      PROVE  AppInv'
  <2> DEFINE q == <<Do(d)>>
  <2>1. q \in Seq(Step) /\ q[1].do = d /\ Form(q, Trusted') /\ ~Switching(q)
    BY <1>4, OneStep
  <2> QED
    BY <1>1, <1>2, <1>8, <2>1, BegunCall
<1>9. CASE Begin(s, <<Do("init"), Do("load")>>)
  <2> DEFINE q == <<Do("init"), Do("load")>>
  <2>1. q \in Seq(Step) /\ q[1].do = "init" /\ Form(q, Trusted') /\ ~Switching(q)
    BY <1>4, TwoSteps DEF FirstSteps
  <2> QED
    BY <1>1, <1>2, <1>9, <2>1, BegunCall
<1> QED
  BY <1>6, <1>7, <1>8, <1>9 DEF VaultCall
LEMMA ImportStep ==
    ASSUME AppInv, NEW s \in Slots, NEW v \in Vaults, Import(s, v)  PROVE AppInv'
<1>1. /\ Started /\ stored' = stored \cup {v} /\ opened' = opened \cup {v}
      /\ UNCHANGED <<app, vultisig, keystore, transitioning, store, raced, missed,
                     late>>
  BY DEF Import
<1>2. /\ Trusted \subseteq Trusted' /\ v \in Trusted'
      /\ stored' \in SUBSET Vaults /\ opened' \in SUBSET Vaults
  BY <1>1 DEF AppInv, TypeOK, Trusted
<1>3. ASSUME NEW d \in {"switch", "load"}
      PROVE  Do(d) \in Step /\ Do(d).do = d /\ OfKind(Do(d), Trusted')
  <2>1. Do(d) \in Step /\ Do(d).do = d
    BY StepFields DEF Awaits, Runs
  <2> QED
    BY <2>1 DEF OfKind, KeystoreSteps, VaultSteps
<1>4. ASSUME NEW d \in {"activate", "setActive"}
      PROVE  DoFor(d, v) \in Step /\ DoFor(d, v).do = d
             /\ OfKind(DoFor(d, v), Trusted')
  <2>1. DoFor(d, v) \in Step /\ DoFor(d, v).do = d /\ DoFor(d, v).id = v
    BY StepFields DEF Awaits, Runs
  <2> QED
    BY <1>2, <2>1 DEF OfKind, KeystoreSteps, VaultSteps
<1>5. CASE Begin(s, <<Do("switch"), Do("load"), DoFor("activate", v)>>)
  <2> DEFINE q == <<Do("switch"), Do("load"), DoFor("activate", v)>>
  <2>1. q \in Seq(Step) /\ q[1].do = "switch" /\ Form(q, Trusted') /\ ~Switching(q)
    BY <1>3, <1>4, ThreeSteps DEF FirstSteps
  <2> QED
    BY <1>1, <1>2, <1>5, <2>1, BegunCall
<1>6. CASE Begin(s, <<DoFor("setActive", v), Do("switch")>>)
  <2> DEFINE q == <<DoFor("setActive", v), Do("switch")>>
  <2>1. q \in Seq(Step) /\ q[1].do = "setActive" /\ Form(q, Trusted')
        /\ ~Switching(q)
    BY <1>3, <1>4, TwoSteps DEF FirstSteps
  <2> QED
    BY <1>1, <1>2, <1>6, <2>1, BegunCall
<1> QED
  BY <1>5, <1>6 DEF Import

LEMMA DoneSteps ==
    ASSUME AppInv, NEW s \in Slots, Ready(s) \/ SelectUnknown(s)  PROVE AppInv'
<1>1. CASE Ready(s)
  BY <1>1, DoneStep DEF Ready
<1>2. CASE SelectUnknown(s)
  BY <1>2, DoneStep DEF SelectUnknown
<1> QED
  BY <1>1, <1>2

LEMMA FailedSteps ==
    ASSUME AppInv, NEW s \in Slots, KeystoreFails(s) \/ VaultCallFails(s)
    PROVE  AppInv'
<1>1. PICK d \in {"change", "add", "decipher", "remove", "init", "sdkUnlock",
                  "unlocked", "delete"} : At(s, d)
  BY DEF KeystoreFails, VaultCallFails
<1>2. /\ Throw(s)
      /\ UNCHANGED <<app, vultisig, keystore, transitioning, store, stored, opened,
                     raced, missed, late>>
  BY DEF KeystoreFails, VaultCallFails
<1> QED
  BY <1>1, <1>2, FailedStep

(* A vault that is opened without a password has none, or was opened.      *)
LEMMA SelectOpenStep ==
    ASSUME AppInv, NEW s \in Slots, SelectOpen(s)  PROVE AppInv'
<1> DEFINE e == DoFor("addresses", Arg(s))
<1>1. PICK d \in {"select", "activate"} :
         /\ At(s, d)
         /\ d = "select" => Arg(s) \notin Encrypted
  BY DEF SelectOpen
<1>2. Arg(s) \in Vaults /\ (d = "activate" => Arg(s) \in Trusted)
  BY <1>1, AtStep DEF AppInv, VaultSteps
<1>3. /\ Push(s, <<e>>)
      /\ UNCHANGED <<app, vultisig, keystore, transitioning, store, stored, opened,
                     raced, missed, late>>
  BY DEF SelectOpen
<1>4. Trusted' = Trusted /\ stored' \in SUBSET Vaults /\ opened' \in SUBSET Vaults
  BY <1>3, SameTrust DEF AppInv, TypeOK
<1>5. Arg(s) \in Trusted
  BY <1>1, <1>2 DEF Trusted
<1>6. e \in Step /\ e.do = "addresses" /\ e.id = Arg(s)
  BY <1>2, StepFields DEF Awaits
<1> HIDE DEF e
<1>7. OfKind(e, Trusted')
  BY <1>2, <1>4, <1>5, <1>6 DEF OfKind, KeystoreSteps
<1>8. /\ <<e>> \in Seq(Step) /\ <<e>>[1] = e /\ <<e>> # <<>> /\ Form(<<e>>, Trusted')
      /\ ~Switching(<<e>>) /\ \A i \in 1 .. Len(<<e>>) : <<e>>[i].do # "setActive"
  BY <1>6, <1>7, OneStep
<1> QED
  BY <1>1, <1>3, <1>4, <1>6, <1>8, ExpandedStep

(* The active vault is to be unlocked: with its password, if it has one.   *)
LEMMA UnlockStep ==
    ASSUME AppInv, NEW s \in Slots, Unlock(s)  PROVE AppInv'
<1> DEFINE v == vultisig.active
           e == DoFor("sdkUnlock", v)
           f == DoFor("unlocked", v)
           p == (IF v \in Encrypted THEN <<e>> ELSE <<>>) \o <<f>>
<1>1. /\ At(s, "unlock")
      /\ UNCHANGED <<app, vultisig, keystore, transitioning, store, stored, opened,
                     raced, missed, late>>
  BY DEF Unlock
<1>2. CASE v = None
  BY <1>1, <1>2, FailedStep DEF Unlock
<1>3. CASE v # None
  <2>1. v \in Vaults
    BY <1>3 DEF AppInv, TypeOK, VaultState
  <2>2. /\ e \in Step /\ e.do = "sdkUnlock" /\ e.id = v
        /\ f \in Step /\ f.do = "unlocked" /\ f.id = v
    BY <2>1, StepFields DEF Awaits
  <2>3. Push(s, p)
    BY <1>3 DEF Unlock
  <2>4. Trusted' = Trusted /\ stored' \in SUBSET Vaults /\ opened' \in SUBSET Vaults
    BY <1>1, SameTrust DEF AppInv, TypeOK
  <2> HIDE DEF v, e, f
  <2>5. p = IF v \in Encrypted THEN <<e, f>> ELSE <<f>>
    <3>1. <<e>> \o <<f>> = <<e, f>> /\ <<>> \o <<f>> = <<f>>
      BY <2>2, JoinSteps
    <3> QED
      BY <3>1
  <2> HIDE DEF p
  <2>6. OfKind(e, Trusted') /\ OfKind(f, Trusted')
    BY <2>1, <2>2 DEF OfKind, KeystoreSteps
  <2>7. /\ p \in Seq(Step) /\ p # <<>> /\ Form(p, Trusted') /\ ~Switching(p)
        /\ p[1].do \in {"sdkUnlock", "unlocked"}
        /\ \A i \in 1 .. Len(p) : p[i].do # "setActive"
    <3>1. CASE v \in Encrypted
      <4>1. p = <<e, f>>
        BY <2>5, <3>1
      <4>2. f.do \notin FirstSteps
        BY <2>2 DEF FirstSteps
      <4> QED
        BY <2>2, <2>6, <4>1, <4>2, TwoSteps
    <3>2. CASE v \notin Encrypted
      <4>1. p = <<f>> /\ v \in Trusted'
        BY <2>1, <2>4, <2>5, <3>2 DEF Trusted
      <4> QED
        BY <2>2, <2>6, <4>1, OneStep
    <3> QED
      BY <3>1, <3>2
  <2> QED
    BY <1>1, <2>3, <2>4, <2>7, ExpandedStep
<1> QED
  BY <1>2, <1>3

LEMMA PasswordStep ==
    ASSUME AppInv, NEW s \in Slots, PasswordAccepted(s)  PROVE AppInv'
<1>1. /\ At(s, "sdkUnlock") /\ Pop(s) /\ opened' = opened \cup {Arg(s)}
      /\ UNCHANGED <<app, vultisig, keystore, transitioning, store, stored, raced,
                     missed, late>>
  BY DEF PasswordAccepted
<1>2. /\ calls[s] # <<>> /\ calls[s][1].do = "sdkUnlock" /\ running \in {s, None}
      /\ calls[s][1].id = Arg(s) /\ Arg(s) \in Vaults
  BY <1>1, AtStep DEF AppInv, VaultSteps
<1>3. /\ Trusted \subseteq Trusted' /\ Arg(s) \in Trusted'
      /\ stored' \in SUBSET Vaults /\ opened' \in SUBSET Vaults
      /\ raced' \in BOOLEAN
  BY <1>1, <1>2 DEF AppInv, TypeOK, Trusted
<1>4. /\ CallsInv' /\ begun' = begun /\ ~ToRestore(s)' /\ (Resting' <=> Resting)
      /\ \A t \in Slots \ {s} : calls'[t] = calls[t]
  BY <1>1, <1>2, <1>3, TrustGrows, PopEffect DEF AppInv
<1>5. ~ToRestore(s) /\ ~ToSwitch(s) /\ (Started' <=> Started) /\ begun' \in Nat
  BY <1>2, <1>4 DEF ToRestore, ToSwitch, Started, AppInv, TypeOK
<1> QED
  BY <1>1, <1>2, <1>3, <1>4, <1>5, Unmoved

(* The SDK has locked a vault.  No call is about to activate it, or an     *)
(* unlock has overlapped with the lock.                                    *)
LEMMA VaultLockedStep ==
    ASSUME AppInv, NEW s \in Slots, VaultLocked(s)  PROVE AppInv'
<1>1. /\ At(s, "sdkLock") /\ Pop(s) /\ opened' \in {opened, opened \ {Arg(s)}}
      /\ raced' = (raced \/ Underway({"unlocked", "activate", "addresses"}))
      /\ UNCHANGED <<app, vultisig, keystore, transitioning, store, stored, missed,
                     late>>
  BY DEF VaultLocked
<1>2. /\ calls[s] # <<>> /\ calls[s][1].do = "sdkLock" /\ running \in {s, None}
  BY <1>1, AtStep DEF AppInv
<1>3. /\ stored' \in SUBSET Vaults /\ opened' \in SUBSET Vaults
      /\ raced' \in BOOLEAN /\ (raced => raced')
  BY <1>1, <1>2 DEF AppInv, TypeOK
<1>4. ASSUME NEW t \in Slots  PROVE Form(calls[t], Trusted')
  <2>1. calls[t] \in Seq(Step) /\ Form(calls[t], Trusted)
    BY DEF AppInv, CallsInv, Forms
  <2>2. CASE raced'
    <3>1. Trusted \subseteq Trusted'
      BY <2>2 DEF Trusted, AppInv, TypeOK
    <3> QED
      BY <2>1, <3>1, FormMonotonic
  <2>3. CASE ~raced'
    <3>1. \A i \in 1 .. Len(calls[t]) :
             calls[t][i].do \notin {"unlocked", "activate", "addresses"}
      BY <1>1, <2>1, <2>3, LenProperties DEF Underway
    <3>2. ASSUME NEW i \in 1 .. Len(calls[t])  PROVE calls[t][i].do # "setActive"
      <4> SUFFICES ASSUME calls[t][i].do = "setActive"  PROVE FALSE
        OBVIOUS
      <4>1. i = 1 /\ calls[t] # <<>>
        BY <2>1, EmptySeq DEF Form, FirstSteps
      <4>2. running = t
        BY <4>1 DEF AppInv, CallsInv, OneRuns, Runs
      <4>3. running = s
        BY <1>2, <4>2, SlotsAssumption
      <4> QED
        BY <1>2, <4>1, <4>2, <4>3
    <3> QED
      BY <2>1, <3>1, <3>2 DEF Form
  <2> QED
    BY <2>2, <2>3
<1>5. /\ CallsInv' /\ begun' = begun /\ ~ToRestore(s)' /\ (Resting' <=> Resting)
      /\ \A t \in Slots \ {s} : calls'[t] = calls[t]
  BY <1>1, <1>2, <1>4, PopEffect DEF AppInv
<1>6. ~ToRestore(s) /\ ~ToSwitch(s) /\ (Started' <=> Started) /\ begun' \in Nat
  BY <1>2, <1>5 DEF ToRestore, ToSwitch, Started, AppInv, TypeOK
<1> QED
  BY <1>1, <1>2, <1>3, <1>5, <1>6, Unmoved

(* verifyVault's answer: the new vault is in the SDK, and open.            *)
LEMMA VerifiedStep ==
    ASSUME AppInv, NEW s \in Slots, Verified(s)  PROVE AppInv'
<1> DEFINE e == Do("load")
           f == DoFor("activate", Arg(s))
<1>1. /\ At(s, "verify")
      /\ UNCHANGED <<app, vultisig, keystore, transitioning, store, raced, missed,
                     late>>
  BY DEF Verified
<1>2. CASE Throw(s) /\ UNCHANGED <<stored, opened>>
  BY <1>1, <1>2, FailedStep
<1>3. ASSUME stored' = stored \cup {Arg(s)}, opened' = opened \cup {Arg(s)},
             Push(s, <<e, f>>)
      PROVE  AppInv'
  <2>1. Arg(s) \in Vaults
    BY <1>1, AtStep DEF AppInv, VaultSteps
  <2>2. /\ Trusted \subseteq Trusted' /\ Arg(s) \in Trusted'
        /\ stored' \in SUBSET Vaults /\ opened' \in SUBSET Vaults
    <3>1. stored \in SUBSET Vaults /\ opened \in SUBSET Vaults /\ raced' = raced
      BY <1>1 DEF AppInv, TypeOK
    <3>2. stored' \in SUBSET Vaults /\ opened' \in SUBSET Vaults
      BY <1>3, <2>1, <3>1
    <3> QED
      BY <1>3, <2>1, <3>1, <3>2 DEF Trusted
  <2>3. /\ e \in Step /\ e.do = "load"
        /\ f \in Step /\ f.do = "activate" /\ f.id = Arg(s)
    <3>1. e \in Step /\ e.do = "load"
      BY StepFields DEF Awaits
    <3>2. f \in Step /\ f.do = "activate" /\ f.id = Arg(s)
      BY <2>1, StepFields DEF Runs
    <3> QED
      BY <3>1, <3>2
  <2> HIDE DEF e, f
  <2>4. OfKind(e, Trusted') /\ OfKind(f, Trusted') /\ f.do \notin FirstSteps
    BY <2>1, <2>2, <2>3 DEF OfKind, KeystoreSteps, VaultSteps, FirstSteps
  <2>5. /\ <<e, f>> \in Seq(Step) /\ <<e, f>> # <<>> /\ Form(<<e, f>>, Trusted')
        /\ ~Switching(<<e, f>>) /\ <<e, f>>[1] = e
        /\ \A i \in 1 .. Len(<<e, f>>) : <<e, f>>[i].do # "setActive"
    BY <2>3, <2>4, TwoSteps
  <2> QED
    BY <1>1, <1>3, <2>2, <2>3, <2>5, ExpandedStep
<1> QED
  BY <1>2, <1>3 DEF Verified

-----------------------------------------------------------------------------
(* The steps that change what the app shows                                *)

AppStates == [mode : {"keystore", "vultisig", "ledger"},
              keystore : KeystoreState, vault : VaultState]

LEMMA KeystoreStates ==
    /\ None \in KeystoreState /\ ~Unlocked(None)
    /\ \A k \in Keystores :
          /\ LockedKeystore(k) \in KeystoreState /\ ~Unlocked(LockedKeystore(k))
  BY DEF KeystoreState, Unlocked, LockedKeystore

LEMMA VaultStates ==
    /\ InitialVault \in VaultState
    /\ \A v \in VaultState :
          [InitialVault EXCEPT !.vaults = v.vaults] \in VaultState
    /\ \A k \in KeystoreState : KeystoreApp(k) \in AppStates
    /\ \A v \in VaultState : VaultApp(v) \in AppStates
    /\ LedgerApp \in AppStates
<1>1. InitialVault \in VaultState
  BY DEF InitialVault, VaultState, Phases
<1>2. \A v \in VaultState : [InitialVault EXCEPT !.vaults = v.vaults] \in VaultState
  BY DEF InitialVault, VaultState, Phases
<1>3. None \in KeystoreState
  BY KeystoreStates
<1> QED
  BY <1>1, <1>2, <1>3 DEF AppStates, KeystoreApp, VaultApp, LedgerApp

(* What is left to show of a step of call s that is not about to enter the *)
(* vault mode.                                                             *)
LEMMA Settles ==
    ASSUME AppInv, NEW s \in Slots, running \in {s, None},
           ~ToRestore(s), ~ToSwitch(s), ~ToRestore(s)',
           \A t \in Slots \ {s} : calls'[t] = calls[t],
           SavedIsVault' => SavedIsVault \/ ToSwitch(s)'
    PROVE  SavedElsewhere' /\ RestoreAllowed'
<1>1. ~SavedIsVault
  BY Settled DEF AppInv, StateInv
<1>2. SavedElsewhere'
  BY <1>1 DEF SavedElsewhere
<1>3. RestoreAllowed'
  BY StillAllowed DEF AppInv
<1> QED
  BY <1>2, <1>3

(* While no call runs, none is about to enter the vault mode.              *)
LEMMA NoneRuns ==
    ASSUME CallsInv, running = None, NEW s \in Slots
    PROVE  ~ToRestore(s) /\ ~ToSwitch(s)
<1>1. running # s
  BY SlotsAssumption
<1> QED
  BY <1>1 DEF CallsInv, OneRuns, ToRestore, ToSwitch, Runs

(* An emission of the keystore service.                                    *)
LEMMA EmitEffect ==
    ASSUME AppInv, NEW k \in KeystoreState, NEW save \in BOOLEAN, Emit(k, save),
           Resting' <=> Resting, UNCHANGED <<transitioning, raced>>
    PROVE  /\ app' \in AppStates /\ vultisig' \in VaultState
           /\ keystore' = k /\ missed' \in BOOLEAN
           /\ StoreTypeOK'
           /\ HeldInSwitch' /\ AppMirrorsService' /\ LockedElsewhere'
           /\ AddressesUnlessRaced'
           /\ Resting /\ app'.mode = "keystore" /\ ~slipped' /\ Intended' \in Vaults
                 => app.mode = "keystore" /\ ~slipped /\ Intended \in Vaults
           /\ vultisig' = vultisig \/ vultisig'.phase # "Active"
<1>1. /\ app \in AppStates /\ vultisig \in VaultState /\ transitioning \in BOOLEAN
      /\ StoreTypeOK /\ missed \in BOOLEAN
  BY DEF AppInv, TypeOK, AppStates
<1>2. /\ keystore' = k
      /\ missed' = (missed \/ (Unlocked(k) /\ ~Resting))
  BY DEF Emit
<1>3. Resting => ~transitioning
  BY DEF AppInv, StateInv, HeldInSwitch
<1> DEFINE exits == ~transitioning /\ app.mode # "keystore" /\ k # None
<1>4. /\ StoreTypeOK'
      /\ IF exits \/ save THEN Intended' = None
                       ELSE Intended' = Intended /\ slipped' = slipped
  <2>1. Send((IF exits THEN <<None>> ELSE <<>>) \o (IF save THEN <<None>> ELSE <<>>))
    BY DEF Emit
  <2>2. exits \in BOOLEAN
    BY <1>1
  <2> HIDE DEF exits
  <2> QED
    BY <1>1, <2>1, <2>2, SentNone
<1>5. Exited \in VaultState /\ Exited.phase = "VaultSelection"
  <2>1. Exited \in VaultState
    BY <1>1, VaultStates DEF Exited
  <2> QED
    BY <2>1 DEF Exited, InitialVault
<1>6. Intended' \in Vaults /\ ~slipped' =>
         ~exits /\ ~slipped /\ Intended \in Vaults
  BY <1>4, IdsAssumption DEF exits
<1> HIDE DEF exits
<1>7. /\ KeystoreApp(k) \in AppStates /\ KeystoreApp(k).mode = "keystore"
      /\ KeystoreApp(k).keystore = k
  BY VaultStates DEF KeystoreApp
<1>8. ~Unlocked(None)
  BY DEF Unlocked
<1>9. missed' \in BOOLEAN
  BY <1>1, <1>2
<1>10. CASE transitioning \/ (app.mode # "keystore" /\ k = None)
  <2>1. app' = app /\ vultisig' = vultisig
    BY <1>10 DEF Emit
  <2>2. HeldInSwitch'
    BY DEF AppInv, StateInv, HeldInSwitch
  <2>3. AppMirrorsService'
    BY <1>3, <1>10, <2>1 DEF AppInv, StateInv, AppMirrorsService
  <2>4. LockedElsewhere'
    <3> SUFFICES ASSUME ~missed', ~Resting \/ app.mode # "keystore"
                 PROVE  ~Unlocked(k)
      BY <1>2, <2>1 DEF LockedElsewhere, Unlocked
    <3>1. ~Unlocked(k) \/ Resting
      BY <1>2
    <3> QED
      BY <1>3, <1>8, <1>10, <3>1
  <2>5. AddressesUnlessRaced'
    BY <2>1 DEF AppInv, StateInv, AddressesUnlessRaced
  <2>6. app'.mode = "keystore" /\ ~slipped' /\ Intended' \in Vaults =>
           app.mode = "keystore" /\ ~slipped /\ Intended \in Vaults
    BY <1>6, <2>1
  <2> QED
    BY <1>1, <1>2, <1>4, <1>9, <2>1, <2>2, <2>3, <2>4, <2>5, <2>6
<1>11. CASE ~(transitioning \/ (app.mode # "keystore" /\ k = None))
  <2>1. /\ app' = KeystoreApp(k)
        /\ vultisig' = IF app.mode = "keystore" THEN vultisig ELSE Exited
    BY <1>11 DEF Emit
  <2>2. HeldInSwitch'
    BY DEF AppInv, StateInv, HeldInSwitch
  <2>3. AppMirrorsService'
    BY <1>2, <1>7, <2>1 DEF AppMirrorsService
  <2>4. LockedElsewhere'
    BY <1>2, <1>7, <2>1 DEF LockedElsewhere, Unlocked
  <2>5. AddressesUnlessRaced'
    BY <1>5, <2>1 DEF AppInv, StateInv, AddressesUnlessRaced
  <2>6. ~slipped' /\ Intended' \in Vaults =>
           app.mode = "keystore" /\ ~slipped /\ Intended \in Vaults
    BY <1>6, <1>11 DEF exits
  <2>7. vultisig' \in VaultState /\ (vultisig' = vultisig \/ vultisig'.phase # "Active")
    BY <1>1, <1>5, <2>1
  <2> QED
    BY <1>2, <1>4, <1>7, <1>9, <2>1, <2>2, <2>3, <2>4, <2>5, <2>6, <2>7
<1> QED
  BY <1>10, <1>11

LEMMA KeystoreIds ==
    \A k \in Keystores, b \in BOOLEAN :
       /\ LockedKeystore(k) \in KeystoreState /\ LockedKeystore(k).id = k
       /\ [id |-> k, unlocked |-> b] \in KeystoreState
       /\ [id |-> k, unlocked |-> b].id = k
  BY DEF KeystoreState, LockedKeystore

(* A step that leaves the calls as they are.                               *)
LEMMA SameCalls ==
    ASSUME CallsInv, UNCHANGED <<calls, running, opened, raced>>
    PROVE  CallsInv'
<1>1. Trusted' = Trusted
  BY SameTrust
<1> QED
  BY <1>1 DEF CallsInv, OneRuns, Forms

(* At the start the keystore is locked, and the last wallet is restored.   *)
LEMMA StartupStep ==
    ASSUME AppInv, NEW s \in Slots, Startup(s)  PROVE AppInv'
<1> DEFINE e == Do("restoreLast")
<1>1. PICK k \in KeystoreState : ~Unlocked(k) /\ Emit(k, FALSE)
  <2>1. PICK k \in Keystores \cup {None} :
           Emit(IF k = None THEN None ELSE LockedKeystore(k), FALSE)
    BY DEF Startup
  <2>2. CASE k = None
    BY <2>1, <2>2, KeystoreStates
  <2>3. CASE k # None
    <3>1. Emit(LockedKeystore(k), FALSE) /\ k \in Keystores
      BY <2>1, <2>3
    <3> QED
      BY <3>1, KeystoreStates
  <2> QED
    BY <2>2, <2>3
<1>2. e \in Step /\ e.do = "restoreLast"
  BY StepFields DEF Runs
<1> HIDE DEF e
<1>3. Begin(s, <<e>>) /\ UNCHANGED <<transitioning, stored, opened, raced, late>>
  BY DEF Startup, e
<1>4. OfKind(e, Trusted') /\ Trusted' = Trusted
  BY <1>2, <1>3, SameTrust DEF OfKind, KeystoreSteps, VaultSteps
<1>5. <<e>> \in Seq(Step) /\ <<e>>[1] = e /\ <<e>> # <<>> /\ Form(<<e>>, Trusted')
      /\ ~Switching(<<e>>)
  BY <1>2, <1>4, OneStep
<1>6. /\ CallsInv' /\ begun' = begun + 1 /\ running = None /\ calls'[s] = <<e>>
      /\ (Resting' <=> Resting) /\ \A t \in Slots \ {s} : calls'[t] = calls[t]
  BY <1>3, <1>4, <1>5, BeginEffect DEF AppInv
<1>7. /\ app' \in AppStates /\ vultisig' \in VaultState
      /\ keystore' = k /\ missed' \in BOOLEAN
      /\ StoreTypeOK'
      /\ HeldInSwitch' /\ AppMirrorsService' /\ LockedElsewhere'
      /\ AddressesUnlessRaced'
  BY <1>1, <1>3, <1>6, EmitEffect
<1>8. TypeOK'
  BY <1>3, <1>6, <1>7 DEF AppInv, TypeOK, CallsInv, AppStates
<1>9. ToRestore(s)'
  BY <1>2, <1>5, <1>6 DEF ToRestore
<1>10. SavedElsewhere'
  BY <1>9 DEF SavedElsewhere
<1>11. RestoreAllowed'
  BY <1>1, <1>6, <1>7, StillAllowed DEF AppInv
<1> QED
  BY <1>6, <1>7, <1>8, <1>10, <1>11 DEF AppInv, StateInv

LEMMA KeystoreEmitsStep ==
    ASSUME AppInv, NEW s \in Slots, KeystoreEmits(s)  PROVE AppInv'
<1>1. PICK d \in KeystoreSteps : At(s, d)
  BY DEF KeystoreEmits, KeystoreSteps
<1>2. /\ calls[s] # <<>> /\ calls[s][1].do = d /\ running \in {s, None}
      /\ Arg(s) \in Keystores
  BY <1>1, AtStep DEF AppInv
<1>3. Pop(s) /\ UNCHANGED <<transitioning, stored, opened, raced, late>>
  BY DEF KeystoreEmits
<1>4. PICK k \in KeystoreState, save \in BOOLEAN : Emit(k, save)
  <2>1. ASSUME Emit(LockedKeystore(Arg(s)), TRUE)
        PROVE  \E k \in KeystoreState, save \in BOOLEAN : Emit(k, save)
    <3>1. LockedKeystore(Arg(s)) \in KeystoreState
      BY <1>2, KeystoreIds
    <3> QED
      BY <2>1, <3>1
  <2>2. ASSUME NEW b \in BOOLEAN, Emit([id |-> Arg(s), unlocked |-> TRUE], b)
        PROVE  \E k \in KeystoreState, save \in BOOLEAN : Emit(k, save)
    <3> DEFINE k == [id |-> Arg(s), unlocked |-> TRUE]
    <3>1. k \in KeystoreState
      BY <1>2, KeystoreIds
    <3> HIDE DEF k
    <3> QED
      BY <2>2, <3>1 DEF k
  <2>3. ASSUME NEW j \in (Keystores \ {Arg(s)}) \cup {None},
               Emit(IF j = None THEN None ELSE LockedKeystore(j), FALSE)
        PROVE  \E k \in KeystoreState, save \in BOOLEAN : Emit(k, save)
    <3> DEFINE k == IF j = None THEN None ELSE LockedKeystore(j)
    <3>1. k \in KeystoreState
      BY KeystoreStates
    <3> HIDE DEF k
    <3> QED
      BY <2>3, <3>1 DEF k
  <2> QED
    BY <2>1, <2>2, <2>3 DEF KeystoreEmits
<1>5. ~ToRestore(s) /\ ~ToSwitch(s) /\ d \notin {"sdkUnlock", "entered"}
  BY <1>2 DEF ToRestore, ToSwitch, KeystoreSteps
<1>6. /\ CallsInv' /\ begun' = begun /\ ~ToRestore(s)' /\ (Resting' <=> Resting)
      /\ \A t \in Slots \ {s} : calls'[t] = calls[t]
  BY <1>2, <1>3, <1>5, SameTrust, TrustGrows, PopEffect DEF AppInv
<1>7. /\ app' \in AppStates /\ vultisig' \in VaultState
      /\ keystore' = k /\ missed' \in BOOLEAN
      /\ StoreTypeOK'
      /\ HeldInSwitch' /\ AppMirrorsService' /\ LockedElsewhere'
      /\ AddressesUnlessRaced'
      /\ Resting /\ app'.mode = "keystore" /\ ~slipped' /\ Intended' \in Vaults
            => app.mode = "keystore" /\ ~slipped /\ Intended \in Vaults
  BY <1>3, <1>4, <1>6, EmitEffect
<1>8. TypeOK'
  BY <1>3, <1>6, <1>7 DEF AppInv, TypeOK, CallsInv, AppStates
<1>9. SavedIsVault' => SavedIsVault
  BY <1>3, <1>6, <1>7 DEF SavedIsVault, Started
<1>10. SavedElsewhere' /\ RestoreAllowed'
  BY <1>2, <1>5, <1>6, <1>9, Settles
<1> QED
  BY <1>6, <1>7, <1>8, <1>10 DEF AppInv, StateInv

LEMMA LockKeystoreStep ==
    ASSUME AppInv, LockKeystore  PROVE AppInv'
<1> DEFINE k == [keystore EXCEPT !.unlocked = FALSE]
<1>1. /\ running = None /\ keystore # None /\ Emit(k, FALSE)
      /\ UNCHANGED <<transitioning, stored, opened, calls, running, begun, raced,
                     late>>
  BY DEF LockKeystore
<1>2. k \in KeystoreState
  BY <1>1 DEF AppInv, TypeOK, KeystoreState
<1> HIDE DEF k
<1>3. Resting' <=> Resting
  BY <1>1 DEF Resting, Position
<1>4. /\ app' \in AppStates /\ vultisig' \in VaultState
      /\ keystore' = k /\ missed' \in BOOLEAN
      /\ StoreTypeOK'
      /\ HeldInSwitch' /\ AppMirrorsService' /\ LockedElsewhere'
      /\ AddressesUnlessRaced'
      /\ Resting /\ app'.mode = "keystore" /\ ~slipped' /\ Intended' \in Vaults
            => app.mode = "keystore" /\ ~slipped /\ Intended \in Vaults
  BY <1>1, <1>2, <1>3, EmitEffect
<1>5. CallsInv'
  BY <1>1, SameCalls DEF AppInv
<1>6. TypeOK'
  BY <1>1, <1>2, <1>4 DEF AppInv, TypeOK, AppStates
<1>7. \A s \in Slots : ~ToRestore(s) /\ ~ToSwitch(s)
  BY <1>1, NoneRuns DEF AppInv
<1>8. SavedIsVault' => SavedIsVault
  BY <1>1, <1>3, <1>4 DEF SavedIsVault, Started
<1>9. SavedElsewhere'
  BY <1>7, <1>8 DEF AppInv, StateInv, SavedElsewhere
<1>10. RestoreAllowed'
  BY <1>1, <1>7 DEF RestoreAllowed, ToRestore
<1> QED
  BY <1>4, <1>5, <1>6, <1>9, <1>10 DEF AppInv, StateInv

LEMMA PoppedRests ==
    ASSUME CallsInv, TypeOK, NEW s \in Slots, NEW d, At(s, d), Pop(s),
           d \notin {"entered", "sdkUnlock"}, opened' = opened, raced => raced'
    PROVE  Resting' <=> Resting
<1>1. /\ calls[s] # <<>> /\ calls[s][1].do = d /\ running \in {s, None}
  BY AtStep
<1>2. Trusted \subseteq Trusted'
  BY DEF Trusted, TypeOK
<1> QED
  BY <1>1, <1>2, TrustGrows, PopEffect

(* At rest, an app that shows keystores is elsewhere.                      *)
LEMMA LateMeans ==
    ASSUME HeldInSwitch, Resting, app.mode = "keystore"
    PROVE  Elsewhere
  BY DEF HeldInSwitch, Elsewhere

(* The app follows a write of vultisigState, if it shows vaults.           *)
LEMMA SetEffect ==
    ASSUME AppInv, NEW v \in VaultState, SetVultisig(v), keystore' = keystore,
           Resting' <=> Resting
    PROVE  /\ app' \in AppStates /\ app'.mode = app.mode
           /\ vultisig' = v /\ AppMirrorsService'
<1>1. app \in AppStates /\ VaultApp(v) \in AppStates
  BY VaultStates DEF AppInv, TypeOK, AppStates
<1>2. /\ vultisig' = v
      /\ app' = IF app.mode = "vultisig" /\ v.phase \notin Transient
                THEN VaultApp(v) ELSE app
  BY DEF SetVultisig, Propagated
<1>3. VaultApp(v).mode = "vultisig" /\ VaultApp(v).vault = v
  BY DEF VaultApp
<1>4. app' \in AppStates /\ app'.mode = app.mode
  BY <1>1, <1>2, <1>3
<1>5. AppMirrorsService'
  BY <1>2, <1>3 DEF AppInv, StateInv, AppMirrorsService
<1> QED
  BY <1>2, <1>4, <1>5

(* A step that leaves the keystore as it is, and the app in its mode.      *)
LEMMA VaultStep ==
    ASSUME AppInv, NEW s \in Slots, running \in {s, None},
           ~ToRestore(s), ~ToSwitch(s), ~ToRestore(s)',
           CallsInv', Resting' <=> Resting,
           \A t \in Slots \ {s} : calls'[t] = calls[t],
           app' \in AppStates, app'.mode = app.mode, AppMirrorsService',
           vultisig' \in VaultState,
           StoreTypeOK',
           stored' \in SUBSET Vaults, opened' \in SUBSET Vaults, begun' \in Nat,
           raced' \in BOOLEAN, late' \in BOOLEAN,
           UNCHANGED <<keystore, transitioning, missed>>,
           AddressesUnlessRaced',
           SavedIsVault' => SavedIsVault \/ ToSwitch(s)'
    PROVE  AppInv'
<1>1. TypeOK'
  BY DEF AppInv, TypeOK, CallsInv, AppStates
<1>2. HeldInSwitch'
  BY DEF AppInv, StateInv, HeldInSwitch
<1>3. LockedElsewhere'
  BY DEF AppInv, StateInv, LockedElsewhere, Unlocked
<1>4. SavedElsewhere' /\ RestoreAllowed'
  BY Settles
<1> QED
  BY <1>1, <1>2, <1>3, <1>4 DEF AppInv, StateInv

(* Such a step is done, of those that wait or do not enter a mode.         *)
LEMMA VaultStepDone ==
    ASSUME AppInv, NEW s \in Slots, NEW d, At(s, d), Pop(s),
           d \notin {"restoreLast", "switchSafely", "switch", "entered", "sdkUnlock"},
           UNCHANGED <<keystore, transitioning, stored, opened, missed>>,
           raced => raced', raced' \in BOOLEAN, late' \in BOOLEAN,
           NEW v \in VaultState, SetVultisig(v),
           StoreTypeOK',
           ~raced' /\ v.phase = "Active" =>
              v.active # None /\ v.addresses = v.active,
           SavedIsVault' => SavedIsVault \/ ToSwitch(s)'
    PROVE  AppInv'
<1>1. /\ calls[s] # <<>> /\ calls[s][1].do = d /\ running \in {s, None}
  BY AtStep DEF AppInv
<1>2. raced \in BOOLEAN /\ opened \in SUBSET Vaults
  BY DEF AppInv, TypeOK
<1>3. Trusted \subseteq Trusted'
  BY <1>2 DEF Trusted
<1>4. /\ CallsInv' /\ begun' = begun /\ ~ToRestore(s)' /\ (Resting' <=> Resting)
      /\ \A t \in Slots \ {s} : calls'[t] = calls[t]
  BY <1>1, <1>3, TrustGrows, PopEffect DEF AppInv
<1>5. ~ToRestore(s) /\ ~ToSwitch(s)
  BY <1>1 DEF ToRestore, ToSwitch
<1>6. begun' \in Nat /\ stored' \in SUBSET Vaults /\ opened' \in SUBSET Vaults
  BY <1>4 DEF AppInv, TypeOK
<1>7. /\ app' \in AppStates /\ app'.mode = app.mode
      /\ vultisig' = v /\ AppMirrorsService'
  BY <1>4, SetEffect
<1>8. AddressesUnlessRaced'
  BY <1>7 DEF AddressesUnlessRaced
<1> QED
  BY <1>1, <1>4, <1>5, <1>6, <1>7, <1>8, VaultStep

(* The vaults the service can be in after a step.                          *)
LEMMA VaultUpdates ==
    ASSUME NEW w \in VaultState, NEW p \in Phases, NEW a \in Vaults \cup {None},
           NEW b \in Vaults \cup {None}
    PROVE  /\ [w EXCEPT !.phase = p] \in VaultState
           /\ [w EXCEPT !.phase = p, !.addresses = b] \in VaultState
           /\ [w EXCEPT !.phase = p, !.active = a, !.addresses = b] \in VaultState
  BY DEF VaultState

LEMMA LoadedStep ==
    ASSUME AppInv, NEW s \in Slots, Loaded(s)  PROVE AppInv'
<1> DEFINE v == [vultisig EXCEPT !.vaults = stored]
<1>1. /\ At(s, "load") /\ Pop(s)
      /\ UNCHANGED <<keystore, transitioning, store, stored, opened, raced, missed,
                     late>>
  BY DEF Loaded
<1>2. CASE SetVultisig(v)
  <2>1. vultisig \in VaultState /\ v \in VaultState
    BY DEF AppInv, TypeOK, VaultState
  <2>2. v.phase = vultisig.phase /\ v.active = vultisig.active
        /\ v.addresses = vultisig.addresses
    BY <2>1 DEF VaultState
  <2> HIDE DEF v
  <2>3. ~raced' /\ v.phase = "Active" => v.active # None /\ v.addresses = v.active
    BY <1>1, <2>2 DEF AppInv, StateInv, AddressesUnlessRaced
  <2>4. /\ raced' = raced /\ raced' \in BOOLEAN /\ late' \in BOOLEAN
        /\ StoreTypeOK' /\ Intended' = Intended /\ slipped' = slipped
    BY <1>1, StoreSame DEF AppInv, TypeOK
  <2>5. SavedIsVault' => SavedIsVault
    <3>1. Resting' <=> Resting
      BY <1>1, PoppedRests DEF AppInv
    <3>2. app'.mode = app.mode
      BY <1>1, <1>2, <2>1, <3>1, SetEffect
    <3> QED
      BY <1>1, <2>4, <3>1, <3>2 DEF SavedIsVault, Started, Pop
  <2> QED
    BY <1>1, <1>2, <2>1, <2>3, <2>4, <2>5, VaultStepDone
<1>3. CASE UNCHANGED <<vultisig, app>>
  BY <1>1, <1>3, DoneStep
<1> QED
  BY <1>2, <1>3 DEF Loaded

LEMMA SelectLockedStep ==
    ASSUME AppInv, NEW s \in Slots, SelectLocked(s)  PROVE AppInv'
<1> DEFINE v == [vultisig EXCEPT !.phase = "VaultLocked", !.active = Arg(s),
                                 !.addresses = None]
<1>1. /\ At(s, "select") /\ Pop(s) /\ SetVultisig(v)
      /\ UNCHANGED <<keystore, transitioning, store, stored, opened, raced, missed,
                     late>>
  BY DEF SelectLocked
<1>2. Arg(s) \in Vaults
  BY <1>1, AtStep DEF AppInv, VaultSteps
<1>3. vultisig \in VaultState /\ v \in VaultState
  BY <1>2, VaultUpdates DEF AppInv, TypeOK, Phases
<1>4. v.phase # "Active"
  BY <1>3 DEF VaultState
<1> HIDE DEF v
<1>5. /\ raced' = raced /\ raced' \in BOOLEAN /\ late' \in BOOLEAN
      /\ StoreTypeOK' /\ Intended' = Intended /\ slipped' = slipped
  BY <1>1, StoreSame DEF AppInv, TypeOK
<1>6. SavedIsVault' => SavedIsVault
  <2>1. Resting' <=> Resting
    BY <1>1, PoppedRests DEF AppInv
  <2>2. app'.mode = app.mode
    BY <1>1, <1>3, <2>1, SetEffect
  <2> QED
    BY <1>1, <1>5, <2>1, <2>2 DEF SavedIsVault, Started, Pop
<1> QED
  BY <1>1, <1>3, <1>4, <1>5, <1>6, VaultStepDone

(* The addresses of a vault arrive: it is the active one, and the last     *)
(* opened.  An app that shows keystores by then is the late case.          *)
LEMMA SelectedStep ==
    ASSUME AppInv, NEW s \in Slots, Selected(s)  PROVE AppInv'
<1> DEFINE v == [vultisig EXCEPT !.phase = "Active", !.active = Arg(s),
                                 !.addresses = Arg(s)]
<1>1. /\ At(s, "addresses") /\ Pop(s) /\ SetVultisig(v) /\ Send(<<Arg(s)>>)
      /\ late' = (late \/ Elsewhere)
      /\ UNCHANGED <<keystore, transitioning, stored, opened, raced, missed>>
  BY DEF Selected, Activate
<1>2. Arg(s) \in Vaults
  BY <1>1, AtStep DEF AppInv, VaultSteps
<1>3. vultisig \in VaultState /\ v \in VaultState
  BY <1>2, VaultUpdates DEF AppInv, TypeOK, Phases
<1>4. v.active = Arg(s) /\ v.addresses = Arg(s) /\ Arg(s) # None
  BY <1>2, <1>3, IdsAssumption DEF VaultState
<1> HIDE DEF v
<1>5. raced' = raced /\ raced' \in BOOLEAN
  BY <1>1 DEF AppInv, TypeOK
<1>6. late' \in BOOLEAN /\ StoreTypeOK'
  BY <1>1, <1>2, SentOne DEF AppInv, TypeOK, Wallets
<1>7. ~SavedIsVault'
  <2>1. Resting' <=> Resting
    BY <1>1, PoppedRests DEF AppInv
  <2>2. app'.mode = app.mode
    BY <1>1, <1>3, <2>1, SetEffect
  <2> QED
    BY <1>1, <2>1, <2>2, LateMeans
       DEF SavedIsVault, AppInv, StateInv
<1> QED
  BY <1>1, <1>2, <1>3, <1>4, <1>5, <1>6, <1>7, VaultStepDone

LEMMA VaultUnlockedStep ==
    ASSUME AppInv, NEW s \in Slots, VaultUnlocked(s)  PROVE AppInv'
<1> DEFINE v == [vultisig EXCEPT !.phase = "Active", !.addresses = Arg(s)]
<1>1. /\ At(s, "unlocked") /\ Pop(s) /\ SetVultisig(v) /\ Send(<<Arg(s)>>)
      /\ raced' = (raced \/ vultisig.active # Arg(s))
      /\ late' = (late \/ Elsewhere)
      /\ UNCHANGED <<keystore, transitioning, stored, opened, missed>>
  BY DEF VaultUnlocked
<1>2. Arg(s) \in Vaults
  BY <1>1, AtStep DEF AppInv, VaultSteps
<1>3. vultisig \in VaultState /\ v \in VaultState
  BY <1>2, VaultUpdates DEF AppInv, TypeOK, Phases
<1>4. v.active = vultisig.active /\ v.addresses = Arg(s) /\ Arg(s) # None
  BY <1>2, <1>3, IdsAssumption DEF VaultState
<1> HIDE DEF v
<1>5. raced' \in BOOLEAN /\ (raced => raced') /\ (~raced' => vultisig.active = Arg(s))
  BY <1>1 DEF AppInv, TypeOK
<1>6. late' \in BOOLEAN /\ StoreTypeOK'
  BY <1>1, <1>2, SentOne DEF AppInv, TypeOK, Wallets
<1>7. ~SavedIsVault'
  <2>1. Resting' <=> Resting
    BY <1>1, <1>5, PoppedRests DEF AppInv
  <2>2. app'.mode = app.mode
    BY <1>1, <1>3, <2>1, SetEffect
  <2> QED
    BY <1>1, <2>1, <2>2, LateMeans
       DEF SavedIsVault, AppInv, StateInv
<1> QED
  BY <1>1, <1>2, <1>3, <1>4, <1>5, <1>6, <1>7, VaultStepDone

(* A vault created by the user is active at once, before the app goes to   *)
(* it: the same call does that next.                                       *)
LEMMA SetActiveStep ==
    ASSUME AppInv, NEW s \in Slots, SetActive(s)  PROVE AppInv'
<1> DEFINE v == [vultisig EXCEPT !.phase = "Active", !.active = Arg(s),
                                 !.addresses = Arg(s)]
<1>1. /\ At(s, "setActive") /\ Pop(s) /\ SetVultisig(v) /\ Send(<<Arg(s)>>)
      /\ UNCHANGED <<keystore, transitioning, stored, opened, raced, missed, late>>
  BY DEF SetActive, Activate
<1>2. /\ Arg(s) \in Vaults /\ calls[s] \in Seq(Step) /\ calls[s] # <<>>
      /\ calls[s][1].do = "setActive" /\ running \in {s, None}
  BY <1>1, AtStep DEF AppInv, VaultSteps
<1>3. vultisig \in VaultState /\ v \in VaultState
  BY <1>2, VaultUpdates DEF AppInv, TypeOK, Phases
<1>4. v.active = Arg(s) /\ v.addresses = Arg(s) /\ Arg(s) # None
  BY <1>2, <1>3, IdsAssumption DEF VaultState
<1> HIDE DEF v
<1>5. /\ raced' = raced /\ raced' \in BOOLEAN /\ late' \in BOOLEAN
      /\ StoreTypeOK'
  BY <1>1, <1>2, SentOne DEF AppInv, TypeOK, Wallets
<1>6. ToSwitch(s)'
  <2>1. 1 \in 1 .. Len(calls[s]) /\ Form(calls[s], Trusted)
    BY <1>2, FirstStep DEF AppInv, CallsInv, Forms
  <2>2. Len(calls[s]) = 2 /\ calls[s][2].do = "switch"
    BY <1>2, <2>1 DEF Form
  <2>3. calls'[s] = Tail(calls[s])
    BY <1>1 DEF Pop, Become, AppInv, CallsInv
  <2>4. /\ Tail(calls[s]) \in Seq(Step) /\ Len(Tail(calls[s])) = 1
        /\ Tail(calls[s])[1] = calls[s][2]
    BY <1>2, <2>2, HeadTailProperties
  <2>5. Tail(calls[s]) # <<>>
    <3> DEFINE r == Tail(calls[s])
    <3>1. r \in Seq(Step) /\ Len(r) = 1
      BY <2>4
    <3> HIDE DEF r
    <3>2. Len(r) # Len(<<>>)
      BY <3>1
    <3>3. r # <<>>
      BY <3>2
    <3> QED
      BY <3>3 DEF r
  <2> QED
    BY <2>2, <2>3, <2>4, <2>5 DEF ToSwitch
<1> QED
  BY <1>1, <1>2, <1>3, <1>4, <1>5, <1>6, VaultStepDone

(* Nothing but lastOpenedWallet changes: it is to be no vault.             *)
LEMMA Forgotten ==
    ASSUME AppInv, NEW s \in Slots, NEW d, At(s, d), Pop(s),
           d \notin {"restoreLast", "switchSafely", "switch", "entered", "sdkUnlock"},
           StoreTypeOK', Intended' \notin Vaults,
           UNCHANGED <<app, vultisig, keystore, transitioning, stored, opened,
                       raced, missed, late>>
    PROVE  AppInv'
<1>1. /\ calls[s] # <<>> /\ calls[s][1].do = d /\ running \in {s, None}
  BY AtStep DEF AppInv
<1>2. Trusted' = Trusted
  BY SameTrust
<1>3. /\ CallsInv' /\ begun' = begun /\ ~ToRestore(s)' /\ (Resting' <=> Resting)
      /\ \A t \in Slots \ {s} : calls'[t] = calls[t]
  BY <1>1, <1>2, TrustGrows, PopEffect DEF AppInv
<1>4. ~ToRestore(s) /\ ~ToSwitch(s)
  BY <1>1 DEF ToRestore, ToSwitch
<1>5. /\ app' \in AppStates /\ vultisig' \in VaultState /\ begun' \in Nat
      /\ stored' \in SUBSET Vaults /\ opened' \in SUBSET Vaults
      /\ raced' \in BOOLEAN /\ late' \in BOOLEAN
  BY <1>3 DEF AppInv, TypeOK, AppStates
<1>6. AppMirrorsService' /\ AddressesUnlessRaced'
  BY <1>3 DEF AppInv, StateInv, AppMirrorsService, AddressesUnlessRaced
<1>7. ~SavedIsVault'
  BY DEF SavedIsVault
<1> QED
  BY <1>1, <1>3, <1>4, <1>5, <1>6, <1>7, VaultStep

(* The request that forgets the vault.                                     *)
LEMMA ForgetSent ==
    ASSUME AppInv, Send(<<None>>)
    PROVE  StoreTypeOK' /\ Intended' = None /\ Intended' \notin Vaults
<1>1. None \in Wallets /\ None \notin Vaults
  BY IdsAssumption DEF Wallets
<1> QED
  BY <1>1, SentOne DEF AppInv, TypeOK

LEMMA SelectFailsStep ==
    ASSUME AppInv, NEW s \in Slots, SelectFails(s)  PROVE AppInv'
  BY Forgotten, ForgetSent DEF SelectFails

LEMMA RestoreStep ==
    ASSUME AppInv, NEW s \in Slots, Restore(s)  PROVE AppInv'
<1> DEFINE e == DoFor("select", cached)
<1>1. /\ At(s, "restore")
      /\ UNCHANGED <<app, vultisig, keystore, transitioning, stored, opened, raced,
                     missed, late>>
  BY DEF Restore
<1>2. CASE cached \in vultisig.vaults
  <2>1. cached \in Vaults
    BY <1>2 DEF AppInv, TypeOK, VaultState
  <2>2. Push(s, <<e>>) /\ UNCHANGED store
    BY <1>2 DEF Restore
  <2>3. Trusted' = Trusted /\ stored' \in SUBSET Vaults /\ opened' \in SUBSET Vaults
    BY <1>1, SameTrust DEF AppInv, TypeOK
  <2>4. e \in Step /\ e.do = "select" /\ e.id = cached
    BY <2>1, StepFields DEF Runs
  <2> HIDE DEF e
  <2>5. OfKind(e, Trusted')
    BY <2>1, <2>4 DEF OfKind, KeystoreSteps
  <2>6. /\ <<e>> \in Seq(Step) /\ <<e>>[1] = e /\ <<e>> # <<>>
        /\ Form(<<e>>, Trusted') /\ ~Switching(<<e>>)
        /\ \A i \in 1 .. Len(<<e>>) : <<e>>[i].do # "setActive"
    BY <2>4, <2>5, OneStep
  <2> QED
    BY <1>1, <2>2, <2>3, <2>4, <2>6, ExpandedStep
<1>3. CASE cached \notin vultisig.vaults /\ cached \in Vaults
  <2>1. Pop(s) /\ Send(<<None>>)
    BY <1>3 DEF Restore
  <2> QED
    BY <1>1, <2>1, ForgetSent, Forgotten
<1>4. CASE cached \notin vultisig.vaults /\ cached \notin Vaults
  <2>1. Pop(s) /\ UNCHANGED store
    BY <1>4 DEF Restore
  <2> QED
    BY <1>1, <2>1, DoneStep
<1> QED
  BY <1>2, <1>3, <1>4

(* A call that begins with a write of vultisigState.                       *)
LEMMA BegunWith ==
    ASSUME AppInv, NEW s \in Slots, NEW e \in Step, Begin(s, <<e>>),
           e.do \in VaultSteps \ {"setActive", "activate", "addresses", "unlocked"},
           e.id \in Vaults, Started \/ app.mode # "keystore",
           NEW v \in VaultState, SetVultisig(v), v.phase # "Active",
           UNCHANGED <<keystore, transitioning, store, stored, opened, raced,
                       missed, late>>
    PROVE  AppInv'
<1>1. Trusted' = Trusted
  BY SameTrust
<1>2. OfKind(e, Trusted') /\ e.do \notin {"setActive", "unlocked", "entered"}
  BY DEF OfKind, VaultSteps, KeystoreSteps
<1>3. <<e>> \in Seq(Step) /\ <<e>>[1] = e /\ <<e>> # <<>> /\ Form(<<e>>, Trusted')
      /\ ~Switching(<<e>>)
  BY <1>2, OneStep
<1>4. /\ CallsInv' /\ begun' = begun + 1 /\ calls[s] = <<>> /\ running = None
      /\ calls'[s] = <<e>> /\ (Resting' <=> Resting)
      /\ \A t \in Slots \ {s} : calls'[t] = calls[t]
  BY <1>1, <1>3, BeginEffect DEF AppInv
<1>5. ~ToRestore(s) /\ ~ToSwitch(s) /\ ~ToRestore(s)'
  BY <1>3, <1>4 DEF ToRestore, ToSwitch, VaultSteps
<1>6. /\ app' \in AppStates /\ app'.mode = app.mode
      /\ vultisig' = v /\ AppMirrorsService'
  BY <1>4, SetEffect
<1>7. /\ begun' \in Nat /\ stored' \in SUBSET Vaults /\ opened' \in SUBSET Vaults
      /\ raced' \in BOOLEAN /\ late' \in BOOLEAN
      /\ StoreTypeOK' /\ Intended' = Intended /\ slipped' = slipped
  BY <1>4, StoreSame DEF AppInv, TypeOK
<1>8. AddressesUnlessRaced'
  BY <1>6 DEF AddressesUnlessRaced
<1>9. SavedIsVault' => SavedIsVault
  BY <1>4, <1>6, <1>7 DEF SavedIsVault
<1> QED
  BY <1>4, <1>5, <1>6, <1>7, <1>8, <1>9, VaultStep

LEMMA LockVaultStep ==
    ASSUME AppInv, NEW s \in Slots, LockVault(s)  PROVE AppInv'
<1> DEFINE v == [vultisig EXCEPT !.phase = "VaultLocked", !.addresses = None]
           e == DoFor("sdkLock", vultisig.active)
<1>1. /\ app.mode = "vultisig" /\ vultisig.active # None
      /\ SetVultisig(v) /\ Begin(s, <<e>>)
      /\ UNCHANGED <<keystore, transitioning, store, stored, opened, raced, missed,
                     late>>
  BY DEF LockVault
<1>2. vultisig.active \in Vaults /\ vultisig \in VaultState
  BY <1>1 DEF AppInv, TypeOK, VaultState
<1>3. e \in Step /\ e.do = "sdkLock" /\ e.id \in Vaults
  BY <1>2, StepFields DEF Awaits
<1>4. v \in VaultState
  BY <1>2, VaultUpdates DEF Phases
<1>5. v.phase # "Active"
  BY <1>4 DEF VaultState
<1> HIDE DEF e, v
<1> QED
  BY <1>1, <1>3, <1>4, <1>5, BegunWith DEF VaultSteps

LEMMA ExitedState ==
    ASSUME AppInv
    PROVE  Exited \in VaultState /\ Exited.phase # "Active"
<1>1. vultisig \in VaultState
  BY DEF AppInv, TypeOK
<1>2. Exited \in VaultState
  BY <1>1, VaultStates DEF Exited
<1> QED
  BY <1>2 DEF Exited, InitialVault

LEMMA CreateVaultStep ==
    ASSUME AppInv, NEW s \in Slots, NEW w \in Vaults, CreateVault(s, w)
    PROVE  AppInv'
<1> DEFINE v == [vultisig EXCEPT !.phase = "VaultCreation", !.active = None,
                                 !.addresses = None]
           e == DoFor("created", w)
<1>1. /\ Started /\ SetVultisig(v) /\ Begin(s, <<e>>)
      /\ UNCHANGED <<keystore, transitioning, store, stored, opened, raced, missed,
                     late>>
  BY DEF CreateVault
<1>2. e \in Step /\ e.do = "created" /\ e.id = w
  BY StepFields DEF Awaits
<1>3. vultisig \in VaultState /\ v \in VaultState
  BY VaultUpdates DEF AppInv, TypeOK, Phases
<1>4. v.phase # "Active"
  BY <1>3 DEF VaultState
<1> HIDE DEF e, v
<1> QED
  BY <1>1, <1>2, <1>3, <1>4, BegunWith DEF VaultSteps

(* The server has created a vault, or refuses to.                          *)
LEMMA CreatedStep ==
    ASSUME AppInv, NEW s \in Slots, Created(s)  PROVE AppInv'
<1> DEFINE e == DoFor("verify", Arg(s))
<1>1. /\ At(s, "created")
      /\ UNCHANGED <<keystore, transitioning, store, stored, opened, raced, missed,
                     late>>
  BY DEF Created
<1>2. /\ calls[s] # <<>> /\ calls[s][1].do = "created" /\ running \in {s, None}
      /\ Arg(s) \in Vaults
  BY <1>1, AtStep DEF AppInv, VaultSteps
<1>3. Trusted' = Trusted
  BY <1>1, SameTrust
<1>4. ASSUME NEW p \in Phases \ {"Active"}, SetVultisig([vultisig EXCEPT !.phase = p]),
             CallsInv', begun' = begun, Resting' <=> Resting,
             \A t \in Slots \ {s} : calls'[t] = calls[t], ~ToRestore(s)'
      PROVE  AppInv'
  <2> DEFINE v == [vultisig EXCEPT !.phase = p]
  <2>1. v \in VaultState
    BY VaultUpdates DEF AppInv, TypeOK
  <2>2. v.phase # "Active"
    BY <2>1 DEF VaultState
  <2>3. SetVultisig(v)
    BY <1>4
  <2> HIDE DEF v
  <2>4. ~ToRestore(s) /\ ~ToSwitch(s)
    BY <1>2 DEF ToRestore, ToSwitch
  <2>5. /\ app' \in AppStates /\ app'.mode = app.mode
        /\ vultisig' = v /\ AppMirrorsService'
    BY <1>1, <1>4, <2>1, <2>3, SetEffect
  <2>6. /\ begun' \in Nat /\ stored' \in SUBSET Vaults /\ opened' \in SUBSET Vaults
        /\ raced' \in BOOLEAN /\ late' \in BOOLEAN
        /\ StoreTypeOK' /\ Intended' = Intended /\ slipped' = slipped
    BY <1>1, <1>4, StoreSame DEF AppInv, TypeOK
  <2>7. AddressesUnlessRaced'
    BY <2>2, <2>5 DEF AddressesUnlessRaced
  <2>8. SavedIsVault' => SavedIsVault
    BY <1>1, <1>4, <2>5, <2>6 DEF SavedIsVault, Started
  <2> QED
    BY <1>1, <1>2, <1>4, <2>1, <2>4, <2>5, <2>6, <2>7, <2>8, VaultStep
<1>5. CASE /\ SetVultisig([vultisig EXCEPT !.phase = "Verification"])
           /\ Push(s, <<e>>)
  <2>1. e \in Step /\ e.do = "verify" /\ e.id = Arg(s)
    BY <1>2, StepFields DEF Awaits
  <2>2. Push(s, <<e>>)
    BY <1>5
  <2> HIDE DEF e
  <2>3. OfKind(e, Trusted')
    BY <1>2, <2>1 DEF OfKind, KeystoreSteps
  <2>4. /\ <<e>> \in Seq(Step) /\ <<e>>[1] = e /\ <<e>> # <<>>
        /\ Form(<<e>>, Trusted') /\ ~Switching(<<e>>)
        /\ \A i \in 1 .. Len(<<e>>) : <<e>>[i].do # "setActive"
    BY <2>1, <2>3, OneStep
  <2>5. /\ CallsInv' /\ begun' = begun /\ (Resting' <=> Resting)
        /\ \A t \in Slots \ {s} : calls'[t] = calls[t]
        /\ calls'[s][1] = e
    BY <1>2, <1>3, <2>2, <2>4, PushEffect DEF AppInv
  <2>6. ~ToRestore(s)'
    BY <2>1, <2>5 DEF ToRestore
  <2> QED
    BY <1>4, <1>5, <2>5, <2>6 DEF Phases
<1>6. CASE /\ SetVultisig([vultisig EXCEPT !.phase = "VaultSelection"])
           /\ Throw(s)
  <2>1. /\ CallsInv' /\ begun' = begun /\ (Resting' <=> Resting)
        /\ \A t \in Slots \ {s} : calls'[t] = calls[t]
        /\ calls'[s] = <<>> \/ calls'[s][1].do = "entered"
    BY <1>2, <1>3, <1>6, ThrowEffect DEF AppInv
  <2>2. ~ToRestore(s)'
    BY <2>1 DEF ToRestore
  <2> QED
    BY <1>4, <1>6, <2>1, <2>2 DEF Phases
<1> QED
  BY <1>5, <1>6 DEF Created

LEMMA DeletedStep ==
    ASSUME AppInv, NEW s \in Slots, Deleted(s)  PROVE AppInv'
<1> DEFINE e == Do("load")
<1>1. /\ At(s, "delete") /\ Push(s, <<e>>) /\ stored' = stored \ {Arg(s)}
      /\ UNCHANGED <<keystore, transitioning, opened, raced, missed, late>>
  BY DEF Deleted
<1>2. /\ calls[s] # <<>> /\ calls[s][1].do = "delete" /\ running \in {s, None}
  BY <1>1, AtStep DEF AppInv
<1>3. Trusted' = Trusted
  BY <1>1, SameTrust
<1>4. e \in Step /\ e.do = "load"
  BY StepFields DEF Awaits
<1> HIDE DEF e
<1>5. OfKind(e, Trusted')
  BY <1>4 DEF OfKind, KeystoreSteps, VaultSteps
<1>6. /\ <<e>> \in Seq(Step) /\ <<e>>[1] = e /\ <<e>> # <<>>
      /\ Form(<<e>>, Trusted') /\ ~Switching(<<e>>)
      /\ \A i \in 1 .. Len(<<e>>) : <<e>>[i].do # "setActive"
  BY <1>4, <1>5, OneStep
<1>7. /\ CallsInv' /\ begun' = begun /\ (Resting' <=> Resting)
      /\ \A t \in Slots \ {s} : calls'[t] = calls[t]
      /\ calls'[s][1] = e
  BY <1>1, <1>2, <1>3, <1>6, PushEffect DEF AppInv
<1>8. ~ToRestore(s) /\ ~ToSwitch(s) /\ ~ToRestore(s)'
  BY <1>2, <1>4, <1>7 DEF ToRestore, ToSwitch
<1>9. /\ begun' \in Nat /\ stored' \in SUBSET Vaults /\ opened' \in SUBSET Vaults
      /\ raced' \in BOOLEAN /\ late' \in BOOLEAN
  BY <1>1, <1>7 DEF AppInv, TypeOK
<1>10. CASE vultisig.active = Arg(s)
  <2>1. SetVultisig(Exited) /\ StoreTypeOK' /\ Intended' \notin Vaults
    BY <1>10, ForgetSent DEF Deleted
  <2>2. Exited \in VaultState /\ Exited.phase # "Active"
    BY ExitedState
  <2>3. /\ app' \in AppStates /\ app'.mode = app.mode
        /\ vultisig' = Exited /\ AppMirrorsService'
    BY <1>1, <1>7, <2>1, <2>2, SetEffect
  <2>4. AddressesUnlessRaced'
    BY <2>2, <2>3 DEF AddressesUnlessRaced
  <2>5. ~SavedIsVault'
    BY <2>1 DEF SavedIsVault
  <2> QED
    BY <1>1, <1>2, <1>7, <1>8, <1>9, <2>1, <2>2, <2>3, <2>4, <2>5, VaultStep
<1>11. CASE vultisig.active # Arg(s)
  <2>1. UNCHANGED <<vultisig, app, store>>
    BY <1>11 DEF Deleted
  <2>2. /\ app' \in AppStates /\ app'.mode = app.mode /\ vultisig' \in VaultState
        /\ StoreTypeOK' /\ Intended' = Intended /\ slipped' = slipped
    BY <2>1, StoreSame DEF AppInv, TypeOK, AppStates
  <2>3. AppMirrorsService' /\ AddressesUnlessRaced'
    BY <1>1, <1>7, <2>1 DEF AppInv, StateInv, AppMirrorsService,
                            AddressesUnlessRaced
  <2>4. SavedIsVault' => SavedIsVault
    BY <1>1, <1>7, <2>1, <2>2 DEF SavedIsVault, Started
  <2> QED
    BY <1>1, <1>2, <1>7, <1>8, <1>9, <2>1, <2>2, <2>3, <2>4, VaultStep
<1> QED
  BY <1>10, <1>11

(* Back to the keystore: the app shows what the service has emitted last.  *)
LEMMA ExitEffect ==
    ASSUME AppInv, ExitToKeystore, Resting' <=> Resting,
           UNCHANGED <<keystore, transitioning, stored, opened, raced, missed, late>>
    PROVE  /\ app' \in AppStates /\ vultisig' \in VaultState /\ StoreTypeOK'
           /\ HeldInSwitch' /\ AppMirrorsService' /\ LockedElsewhere'
           /\ ~SavedIsVault' /\ AddressesUnlessRaced'
<1>1. /\ app' = KeystoreApp(keystore) /\ vultisig' = Exited
      /\ StoreTypeOK' /\ Intended' \notin Vaults
  BY ForgetSent DEF ExitToKeystore
<1>2. Exited \in VaultState /\ Exited.phase # "Active"
  BY ExitedState
<1>3. /\ KeystoreApp(keystore) \in AppStates
      /\ KeystoreApp(keystore).mode = "keystore"
      /\ KeystoreApp(keystore).keystore = keystore
  BY VaultStates DEF AppInv, TypeOK, KeystoreApp
<1>4. HeldInSwitch' /\ LockedElsewhere'
  BY <1>1, <1>3 DEF AppInv, StateInv, HeldInSwitch, LockedElsewhere, Unlocked
<1>5. AppMirrorsService' /\ AddressesUnlessRaced'
  BY <1>1, <1>2, <1>3 DEF AppMirrorsService, AddressesUnlessRaced
<1>6. ~SavedIsVault'
  BY <1>1 DEF SavedIsVault
<1> QED
  BY <1>1, <1>2, <1>3, <1>4, <1>5, <1>6

LEMMA SwitchToKeystoreStep ==
    ASSUME AppInv, SwitchToKeystore  PROVE AppInv'
<1>1. /\ running = None /\ ExitToKeystore /\ begun' = begun + 1
      /\ UNCHANGED <<keystore, transitioning, stored, opened, calls, running, raced,
                     missed, late>>
  BY DEF SwitchToKeystore, Act
<1>2. Resting' <=> Resting
  BY <1>1 DEF Resting, Position
<1>3. /\ app' \in AppStates /\ vultisig' \in VaultState /\ StoreTypeOK'
      /\ HeldInSwitch' /\ AppMirrorsService' /\ LockedElsewhere'
      /\ ~SavedIsVault' /\ AddressesUnlessRaced'
  BY <1>1, <1>2, ExitEffect
<1>4. CallsInv'
  BY <1>1, SameCalls DEF AppInv
<1>5. TypeOK'
  BY <1>1, <1>3 DEF AppInv, TypeOK, AppStates
<1>6. \A s \in Slots : ~ToRestore(s)'
  BY <1>1, NoneRuns DEF AppInv, ToRestore
<1> QED
  BY <1>3, <1>4, <1>5, <1>6 DEF AppInv, StateInv, SavedElsewhere, RestoreAllowed

(* Only a locked app is left for the ledger: if it shows a keystore, what  *)
(* it shows is what the service has.                                       *)
LEMMA SwitchToLedgerStep ==
    ASSUME AppInv, SwitchToLedger  PROVE AppInv'
<1>1. /\ running = None /\ IsLocked /\ app' = LedgerApp /\ begun' = begun + 1
      /\ UNCHANGED <<vultisig, keystore, transitioning, store, stored, opened,
                     calls, running, raced, missed, late>>
  BY DEF SwitchToLedger, Act
<1>2. Resting' <=> Resting
  BY <1>1 DEF Resting, Position
<1>3. LedgerApp \in AppStates /\ LedgerApp.mode = "ledger"
  BY VaultStates DEF LedgerApp
<1>4. TypeOK' /\ CallsInv'
  BY <1>1, <1>3, SameCalls, StoreSame DEF AppInv, TypeOK, AppStates
<1>5. HeldInSwitch' /\ AddressesUnlessRaced'
  BY <1>1, <1>2 DEF AppInv, StateInv, HeldInSwitch, AddressesUnlessRaced
<1>6. AppMirrorsService'
  BY <1>1, <1>3 DEF AppMirrorsService
<1>7. LockedElsewhere'
  <2> SUFFICES ASSUME ~missed  PROVE ~Unlocked(keystore)
    BY <1>1 DEF LockedElsewhere, Unlocked
  <2>1. CASE ~Resting \/ app.mode # "keystore"
    BY <2>1 DEF AppInv, StateInv, LockedElsewhere
  <2>2. CASE Resting /\ app.mode = "keystore"
    <3>1. app.keystore = keystore
      BY <2>2 DEF AppInv, StateInv, AppMirrorsService
    <3>2. ~Unlocked(app.keystore)
      BY <1>1, <2>2 DEF IsLocked
    <3> QED
      BY <3>1, <3>2
  <2> QED
    BY <2>1, <2>2
<1>8. SavedElsewhere' /\ RestoreAllowed'
  BY <1>1, <1>3 DEF SavedElsewhere, SavedIsVault, RestoreAllowed
<1> QED
  BY <1>4, <1>5, <1>6, <1>7, <1>8 DEF AppInv, StateInv

LEMMA RestoreLastStep ==
    ASSUME AppInv, NEW s \in Slots, RestoreLast(s)  PROVE AppInv'
<1> DEFINE e == Do("switchSafely")
<1>1. /\ At(s, "restoreLast")
      /\ UNCHANGED <<keystore, transitioning, stored, opened, raced, missed, late>>
  BY DEF RestoreLast
<1>2. /\ calls[s] # <<>> /\ calls[s][1].do = "restoreLast" /\ running \in {s, None}
  BY <1>1, AtStep DEF AppInv
<1>3. Trusted' = Trusted
  BY <1>1, SameTrust
<1>4. CASE cached \in Vaults
  <2>1. e \in Step /\ e.do = "switchSafely"
    BY StepFields DEF Runs
  <2>2. Push(s, <<e>>) /\ UNCHANGED <<app, vultisig, store>>
    BY <1>4 DEF RestoreLast
  <2> HIDE DEF e
  <2>3. OfKind(e, Trusted')
    BY <2>1 DEF OfKind, KeystoreSteps, VaultSteps
  <2>4. /\ <<e>> \in Seq(Step) /\ <<e>>[1] = e /\ <<e>> # <<>>
        /\ Form(<<e>>, Trusted') /\ ~Switching(<<e>>)
        /\ \A i \in 1 .. Len(<<e>>) : <<e>>[i].do # "setActive"
    BY <2>1, <2>3, OneStep
  <2>5. /\ CallsInv' /\ begun' = begun /\ (Resting' <=> Resting)
        /\ \A t \in Slots \ {s} : calls'[t] = calls[t]
        /\ calls'[s] # <<>> /\ calls'[s][1] = e
    BY <1>2, <1>3, <2>2, <2>4, PushEffect DEF AppInv
  <2>6. ToRestore(s) /\ ToRestore(s)'
    BY <1>2, <2>1, <2>5 DEF ToRestore
  <2>7. TypeOK'
    BY <1>1, <2>2, <2>5, StoreSame DEF AppInv, TypeOK, CallsInv
  <2>8. SavedElsewhere'
    BY <2>6 DEF SavedElsewhere
  <2>9. RestoreAllowed'
    <3>1. app'.mode = "keystore" => ~Unlocked(keystore')
      BY <1>1, <2>2, <2>6 DEF AppInv, StateInv, RestoreAllowed
    <3> QED
      BY <1>2, <2>5, <3>1, StillAllowed DEF AppInv
  <2>10. HeldInSwitch' /\ AppMirrorsService' /\ LockedElsewhere'
         /\ AddressesUnlessRaced'
    <3>1. HeldInSwitch' /\ LockedElsewhere' /\ AddressesUnlessRaced'
      BY <1>1, <2>2, <2>5 DEF AppInv, StateInv, HeldInSwitch, LockedElsewhere,
                              AddressesUnlessRaced, Unlocked
    <3>2. AppMirrorsService'
      BY <1>1, <2>2, <2>5 DEF AppInv, StateInv, AppMirrorsService
    <3> QED
      BY <3>1, <3>2
  <2> QED
    BY <2>5, <2>7, <2>8, <2>9, <2>10 DEF AppInv, StateInv
<1>5. CASE cached \notin Vaults
  <2>1. Pop(s) /\ ExitToKeystore
    BY <1>5 DEF RestoreLast
  <2>2. /\ CallsInv' /\ begun' = begun /\ ~ToRestore(s)' /\ (Resting' <=> Resting)
        /\ \A t \in Slots \ {s} : calls'[t] = calls[t]
    BY <1>2, <1>3, <2>1, TrustGrows, PopEffect DEF AppInv
  <2>3. /\ app' \in AppStates /\ vultisig' \in VaultState /\ StoreTypeOK'
        /\ HeldInSwitch' /\ AppMirrorsService' /\ LockedElsewhere'
        /\ ~SavedIsVault' /\ AddressesUnlessRaced'
    BY <1>1, <2>1, <2>2, ExitEffect
  <2>4. TypeOK'
    BY <1>1, <2>2, <2>3 DEF AppInv, TypeOK, CallsInv, AppStates
  <2>5. RestoreAllowed'
    BY <1>2, <2>2, StillAllowed DEF AppInv
  <2> QED
    BY <2>2, <2>3, <2>4, <2>5 DEF AppInv, StateInv, SavedElsewhere
<1> QED
  BY <1>4, <1>5

(* A switch that has nothing to do, or is refused: restoreLastOpenedWallet *)
(* is not refused while the app shows a keystore.                          *)
LEMMA SwitchEndsStep ==
    ASSUME AppInv, NEW s \in Slots, SwitchEndsAtOnce(s)  PROVE AppInv'
<1>1. PICK d \in {"switch", "switchSafely"} : At(s, d)
  BY DEF SwitchEndsAtOnce
<1>2. /\ Pop(s) /\ transitioning' \in {transitioning, FALSE}
      /\ UNCHANGED <<app, vultisig, keystore, store, stored, opened, raced, missed,
                     late>>
  BY DEF SwitchEndsAtOnce
<1>3. /\ calls[s] # <<>> /\ calls[s][1].do = d /\ running \in {s, None}
  BY <1>1, AtStep DEF AppInv
<1>4. app.mode # "keystore"
  <2>1. CASE Unlocked(keystore) /\ At(s, "switchSafely")
    <3>1. ToRestore(s)
      <4>1. calls[s] # <<>> /\ calls[s][1].do = "switchSafely"
        BY <2>1, AtStep DEF AppInv
      <4> QED
        BY <4>1 DEF ToRestore
    <3> QED
      BY <2>1, <3>1 DEF AppInv, StateInv, RestoreAllowed
  <2> QED
    BY <2>1 DEF SwitchEndsAtOnce
<1>5. /\ CallsInv' /\ begun' = begun /\ ~ToRestore(s)' /\ (Resting' <=> Resting)
      /\ \A t \in Slots \ {s} : calls'[t] = calls[t]
  BY <1>2, <1>3, SameTrust, TrustGrows, PopEffect DEF AppInv
<1>6. TypeOK'
  BY <1>2, <1>5, StoreSame DEF AppInv, TypeOK, CallsInv
<1>7. HeldInSwitch'
  BY <1>2, <1>5 DEF AppInv, StateInv, HeldInSwitch
<1>8. LockedElsewhere' /\ AddressesUnlessRaced'
  BY <1>2, <1>5 DEF AppInv, StateInv, LockedElsewhere, AddressesUnlessRaced, Unlocked
<1>9. AppMirrorsService'
  BY <1>2, <1>5 DEF AppInv, StateInv, AppMirrorsService
<1>10. SavedElsewhere' /\ RestoreAllowed'
  BY <1>2, <1>4 DEF SavedElsewhere, SavedIsVault, RestoreAllowed
<1> QED
  BY <1>5, <1>6, <1>7, <1>8, <1>9, <1>10 DEF AppInv, StateInv

(* A switch begins: from here to its end the keystore is locked, and what  *)
(* it emits is held back.                                                  *)
LEMMA SwitchStep ==
    ASSUME AppInv, NEW s \in Slots, Switch(s)  PROVE AppInv'
<1> DEFINE i == Do("init")
           l == Do("load")
           r == Do("restore")
           e == Do("entered")
           k == IF Unlocked(keystore) THEN LockedKeystore(keystore.id) ELSE keystore
           v == [vultisig EXCEPT !.phase = "VaultSelection"]
           a == <<i>> \o (IF vultisig.vaults = {} THEN <<l>> ELSE <<>>)
           c == <<r, e>>
<1>1. PICK d \in {"switch", "switchSafely"} : At(s, d)
  BY DEF Switch
<1>2. /\ app.mode # "vultisig" /\ transitioning' = TRUE /\ keystore' = k
      /\ UNCHANGED <<app, store, stored, opened, raced, missed, late>>
      /\ \/ Push(s, <<e>>) /\ vultisig' = vultisig
         \/ Push(s, a \o c) /\ vultisig' = v
  BY DEF Switch
<1>3. /\ calls[s] # <<>> /\ calls[s][1].do = d /\ running \in {s, None}
  BY <1>1, AtStep DEF AppInv
<1>4. /\ i \in Step /\ i.do = "init" /\ l \in Step /\ l.do = "load"
      /\ r \in Step /\ r.do = "restore" /\ e \in Step /\ e.do = "entered"
  <2>1. i \in Step /\ i.do = "init" /\ l \in Step /\ l.do = "load"
    BY StepFields DEF Awaits
  <2>2. r \in Step /\ r.do = "restore" /\ e \in Step /\ e.do = "entered"
    BY StepFields DEF Runs
  <2> QED
    BY <2>1, <2>2
<1>5. k \in KeystoreState /\ ~Unlocked(k)
  <2>1. keystore \in KeystoreState
    BY DEF AppInv, TypeOK
  <2>2. CASE Unlocked(keystore)
    <3>1. keystore.id \in Keystores
      BY <2>1, <2>2 DEF Unlocked, KeystoreState
    <3> QED
      BY <2>2, <3>1, KeystoreStates
  <2>3. CASE ~Unlocked(keystore)
    BY <2>1, <2>3
  <2> QED
    BY <2>2, <2>3
<1>6. /\ vultisig \in VaultState /\ v \in VaultState /\ v.phase # "Active"
  <2>1. vultisig \in VaultState /\ v \in VaultState
    BY VaultUpdates DEF AppInv, TypeOK, Phases
  <2> QED
    BY <2>1 DEF VaultState
<1>7. a = IF vultisig.vaults = {} THEN <<i, l>> ELSE <<i>>
  <2> HIDE DEF i, l
  <2>1. <<i>> \o <<l>> = <<i, l>>
    BY <1>4, JoinSteps
  <2>2. <<i>> \o <<>> = <<i>>
    <3> DEFINE q == <<i>>
    <3>1. q \in Seq(Step)
      BY <1>4
    <3> HIDE DEF q
    <3>2. q \o <<>> = q
      BY <3>1, ConcatEmptySeq
    <3> QED
      BY <3>2 DEF q
  <2> QED
    BY <2>1, <2>2
<1> HIDE DEF i, l, r, e, k, v, a
<1>8. /\ OfKind(i, Trusted') /\ OfKind(l, Trusted') /\ OfKind(r, Trusted')
      /\ OfKind(e, Trusted') /\ l.do \notin FirstSteps /\ e.do \notin FirstSteps
  BY <1>4 DEF OfKind, KeystoreSteps, VaultSteps, FirstSteps
<1>9. /\ <<e>> \in Seq(Step) /\ <<e>>[1] = e /\ <<e>> # <<>>
      /\ Form(<<e>>, Trusted') /\ Switching(<<e>>)
      /\ \A j \in 1 .. Len(<<e>>) : <<e>>[j].do # "setActive"
  BY <1>4, <1>8, OneStep
<1>10. /\ a \in Seq(Step) /\ a # <<>> /\ a[1] = i /\ Form(a, Trusted')
       /\ \A j \in 1 .. Len(a) : a[j].do # "setActive"
  <2>1. CASE vultisig.vaults = {}
    <3>1. a = <<i, l>>
      BY <1>7, <2>1
    <3> QED
      BY <1>4, <1>8, <3>1, TwoSteps
  <2>2. CASE vultisig.vaults # {}
    <3>1. a = <<i>>
      BY <1>7, <2>2
    <3> QED
      BY <1>4, <1>8, <3>1, OneStep
  <2> QED
    BY <2>1, <2>2
<1>11. /\ c \in Seq(Step) /\ c # <<>> /\ c[1] = r /\ Form(c, Trusted') /\ Switching(c)
       /\ \A j \in 1 .. Len(c) : c[j].do \in {"restore", "entered"}
  <2>1. /\ c \in Seq(Step) /\ c # <<>> /\ c[1] = r /\ Form(c, Trusted')
        /\ Switching(c)
    BY <1>4, <1>8, TwoSteps
  <2>2. Len(c) = 2 /\ c[2] = e
    OBVIOUS
  <2> HIDE DEF c
  <2>3. \A j \in 1 .. Len(c) : j = 1 \/ j = 2
    BY <2>2
  <2> QED
    BY <1>4, <2>1, <2>2, <2>3
<1> HIDE DEF c
<1>12. /\ a \o c \in Seq(Step) /\ a \o c # <<>> /\ (a \o c)[1] = i
       /\ Form(a \o c, Trusted') /\ Switching(a \o c)
       /\ \A j \in 1 .. Len(a \o c) : (a \o c)[j].do # "setActive"
  <2>1. Plain(c)
    BY <1>4, <1>11 DEF Plain, FirstSteps
  <2>2. /\ a \o c \in Seq(Step) /\ a \o c # <<>> /\ (a \o c)[1] = i
        /\ Form(a \o c, Trusted') /\ Switching(a \o c)
    BY <1>10, <1>11, <2>1, PushForm
  <2>3. 1 \in 1 .. Len(a \o c)
    BY <2>2, FirstStep
  <2>4. \A j \in 1 .. Len(a \o c) : (a \o c)[j].do # "setActive"
    BY <1>4, <2>2, <2>3 DEF Form, FirstSteps
  <2> QED
    BY <2>2, <2>4
<1>13. /\ CallsInv' /\ begun' = begun /\ ~Resting' /\ ~ToRestore(s)'
       /\ \A t \in Slots \ {s} : calls'[t] = calls[t]
  <2> SUFFICES ASSUME NEW p \in Seq(Step), Push(s, p), p # <<>>, Form(p, Trusted'),
                      Switching(p), p[1] \in {e, i},
                      \A j \in 1 .. Len(p) : p[j].do # "setActive"
               PROVE  /\ CallsInv' /\ begun' = begun /\ ~Resting' /\ ~ToRestore(s)'
                      /\ \A t \in Slots \ {s} : calls'[t] = calls[t]
    BY <1>2, <1>9, <1>12
  <2>1. Trusted' = Trusted
    BY <1>2, SameTrust
  <2>2. /\ CallsInv' /\ begun' = begun /\ calls'[s][1] = p[1]
        /\ \A t \in Slots \ {s} : calls'[t] = calls[t]
        /\ Resting' <=> Resting /\ ~Switching(p)
    BY <1>3, <2>1, PushEffect DEF AppInv
  <2>3. ~ToRestore(s)'
    BY <1>4, <2>2 DEF ToRestore
  <2> QED
    BY <2>2, <2>3
<1>14. TypeOK'
  BY <1>2, <1>5, <1>6, <1>13, StoreSame DEF AppInv, TypeOK, CallsInv
<1>15. HeldInSwitch' /\ LockedElsewhere'
  BY <1>2, <1>5, <1>13 DEF HeldInSwitch, LockedElsewhere, Unlocked
<1>16. AppMirrorsService'
  BY <1>2, <1>13 DEF AppMirrorsService
<1>17. AddressesUnlessRaced'
  BY <1>2, <1>6 DEF AppInv, StateInv, AddressesUnlessRaced
<1>18. SavedElsewhere'
  BY <1>13 DEF SavedElsewhere, SavedIsVault
<1>19. RestoreAllowed'
  BY <1>3, <1>13, StillAllowed DEF AppInv
<1> QED
  BY <1>13, <1>14, <1>15, <1>16, <1>17, <1>18, <1>19 DEF AppInv, StateInv

(* The switch ends: the app shows the vaults, and the keystore is locked.  *)
LEMMA EnteredStep ==
    ASSUME AppInv, NEW s \in Slots, Entered(s)  PROVE AppInv'
<1>1. /\ At(s, "entered") /\ Pop(s) /\ app' = VaultApp(vultisig)
      /\ transitioning' = FALSE
      /\ UNCHANGED <<vultisig, keystore, store, stored, opened, raced, missed, late>>
  BY DEF Entered
<1>2. /\ calls[s] \in Seq(Step) /\ calls[s] # <<>> /\ calls[s][1].do = "entered"
      /\ running \in {s, None}
  BY <1>1, AtStep DEF AppInv
<1>3. /\ CallsInv' /\ begun' = begun
  BY <1>1, <1>2, SameTrust, TrustGrows, PopEffect DEF AppInv
<1>4. ~Resting
  <2>1. 1 \in 1 .. Len(calls[s])
    BY <1>2, FirstStep
  <2>2. Switching(calls[s])
    BY <1>2, <2>1 DEF Switching
  <2> QED
    BY <2>2, RestingMeans DEF AppInv
<1>5. /\ VaultApp(vultisig) \in AppStates /\ VaultApp(vultisig).mode = "vultisig"
      /\ VaultApp(vultisig).vault = vultisig
  BY VaultStates DEF AppInv, TypeOK, VaultApp
<1>6. TypeOK'
  BY <1>1, <1>3, <1>5, StoreSame DEF AppInv, TypeOK, CallsInv, AppStates
<1>7. HeldInSwitch'
  BY <1>1 DEF HeldInSwitch
<1>8. LockedElsewhere' /\ AddressesUnlessRaced'
  BY <1>1, <1>4 DEF AppInv, StateInv, LockedElsewhere, AddressesUnlessRaced, Unlocked
<1>9. AppMirrorsService'
  BY <1>1, <1>5 DEF AppMirrorsService
<1>10. SavedElsewhere' /\ RestoreAllowed'
  BY <1>1, <1>5 DEF SavedElsewhere, SavedIsVault, RestoreAllowed
<1> QED
  BY <1>3, <1>6, <1>7, <1>8, <1>9, <1>10 DEF AppInv, StateInv

-----------------------------------------------------------------------------
(* The theorems                                                            *)

LEMMA InitAppInv == Init => AppInv
<1> SUFFICES ASSUME Init  PROVE AppInv
  OBVIOUS
<1>1. \A s \in Slots : calls[s] = <<>> /\ Len(calls[s]) = 0
  BY EmptySeq DEF Init
<1>2. calls \in [Slots -> Seq(Step)]
  BY DEF Init
<1>3. CallsInv
  <2>1. OneRuns
    BY <1>1, SlotsAssumption DEF Init, OneRuns
  <2>2. Forms
    BY <1>1 DEF Forms, Form
  <2> QED
    BY <1>2, <2>1, <2>2 DEF CallsInv, Init
<1>4. None \in KeystoreState /\ KeystoreApp(None) \in AppStates
      /\ InitialVault \in VaultState /\ ~Unlocked(None)
  BY KeystoreStates, VaultStates
<1>5. TypeOK
  <2>1. saves \in Seq(Saves)
    BY EmptySeq DEF Init
  <2>2. StoreTypeOK
    BY <2>1 DEF Init, StoreTypeOK, Wallets
  <2> QED
    BY <1>2, <1>4, <2>2, BoundsAssumption DEF Init, TypeOK, AppStates
<1>6. HeldInSwitch /\ AppMirrorsService /\ LockedElsewhere /\ AddressesUnlessRaced
  BY <1>4 DEF Init, HeldInSwitch, AppMirrorsService, LockedElsewhere,
              AddressesUnlessRaced, KeystoreApp, InitialVault
<1>7. SavedElsewhere
  BY DEF Init, SavedElsewhere, SavedIsVault, Started
<1>8. RestoreAllowed
  BY <1>1 DEF RestoreAllowed, ToRestore
<1> QED
  BY <1>3, <1>5, <1>6, <1>7, <1>8 DEF AppInv, StateInv

(* A step of the common storage: nothing of the app changes.               *)
LEMMA StorageStep ==
    ASSUME AppInv, StoreTypeOK',
           ~slipped' => ~slipped /\ Intended' \in {Intended, None},
           UNCHANGED <<app, vultisig, keystore, transitioning, stored>>,
           UNCHANGED <<opened, calls, running, begun, raced, missed, late>>
    PROVE  AppInv'
<1>1. CallsInv' /\ TypeOK'
  BY SameCalls DEF AppInv, TypeOK
<1>2. (Resting' <=> Resting) /\ (Started' <=> Started)
  BY DEF Resting, Position, Started
<1>3. \A s \in Slots : (ToRestore(s)' <=> ToRestore(s)) /\ (ToSwitch(s)' <=> ToSwitch(s))
  BY DEF ToRestore, ToSwitch
<1>4. HeldInSwitch' /\ LockedElsewhere' /\ AddressesUnlessRaced'
  BY <1>2 DEF AppInv, StateInv, HeldInSwitch, LockedElsewhere,
              AddressesUnlessRaced, Unlocked
<1>5. AppMirrorsService'
  BY <1>2 DEF AppInv, StateInv, AppMirrorsService
<1>6. SavedElsewhere'
  <2>1. SavedIsVault' => SavedIsVault
    BY <1>2, IdsAssumption DEF SavedIsVault
  <2> QED
    BY <1>3, <2>1 DEF AppInv, StateInv, SavedElsewhere
<1>7. RestoreAllowed'
  BY <1>3 DEF AppInv, StateInv, RestoreAllowed, Unlocked
<1> QED
  BY <1>1, <1>4, <1>5, <1>6, <1>7 DEF AppInv, StateInv

LEMMA NextAppInv == AppInv /\ [Next]_vars => AppInv'
<1> SUFFICES ASSUME AppInv, [Next]_vars  PROVE AppInv'
  OBVIOUS
<1>1. CASE LockKeystore
  BY <1>1, LockKeystoreStep
<1>2. CASE SwitchToKeystore
  BY <1>2, SwitchToKeystoreStep
<1>3. CASE SwitchToLedger
  BY <1>3, SwitchToLedgerStep
<1>4. ASSUME NEW s \in Slots,
             Startup(s) \/ KeystoreCall(s) \/ LeaveLedger(s) \/ VaultCall(s)
                \/ LockVault(s)
      PROVE  AppInv'
  BY <1>4, StartupStep, KeystoreCallStep, LeaveLedgerStep, VaultCallStep,
     LockVaultStep
<1>5. ASSUME NEW s \in Slots, NEW v \in Vaults, Import(s, v) \/ CreateVault(s, v)
      PROVE  AppInv'
  BY <1>5, ImportStep, CreateVaultStep
<1>6. ASSUME NEW s \in Slots, StepOf(s)  PROVE AppInv'
  <2>1. CASE \/ KeystoreEmits(s) \/ KeystoreFails(s) \/ RestoreLast(s)
             \/ SwitchEndsAtOnce(s) \/ Switch(s) \/ Restore(s) \/ Entered(s)
    BY <2>1, KeystoreEmitsStep, FailedSteps, RestoreLastStep, SwitchEndsStep,
       SwitchStep, RestoreStep, EnteredStep
  <2>2. CASE \/ Ready(s) \/ Loaded(s) \/ SelectUnknown(s) \/ SelectLocked(s)
             \/ SelectOpen(s) \/ Selected(s) \/ SelectFails(s) \/ SetActive(s)
    BY <2>2, DoneSteps, LoadedStep, SelectLockedStep, SelectOpenStep, SelectedStep,
       SelectFailsStep, SetActiveStep
  <2>3. CASE \/ Unlock(s) \/ PasswordAccepted(s) \/ VaultUnlocked(s)
             \/ VaultCallFails(s) \/ VaultLocked(s) \/ Created(s) \/ Verified(s)
             \/ Deleted(s)
    BY <2>3, UnlockStep, PasswordStep, VaultUnlockedStep, FailedSteps,
       VaultLockedStep, CreatedStep, VerifiedStep, DeletedStep
  <2> QED
    BY <1>6, <2>1, <2>2, <2>3 DEF StepOf
<1>7. CASE SaveEnds
  <2>1. /\ StoreTypeOK'
        /\ ~slipped' => ~slipped /\ Intended' \in {Intended, None}
    BY <1>7, SaveEnded DEF AppInv, TypeOK
  <2> QED
    BY <1>7, <2>1, StorageStep DEF SaveEnds
<1>8. CASE StorageLoads
  <2>1. StoreTypeOK' /\ Intended' = Intended /\ slipped' = slipped
    BY <1>8, StorageLoaded DEF AppInv, TypeOK
  <2> QED
    BY <1>8, <2>1, StorageStep DEF StorageLoads
<1>9. CASE UNCHANGED vars
  <2>1. StoreTypeOK' /\ Intended' = Intended /\ slipped' = slipped
    BY <1>9, StoreSame DEF AppInv, TypeOK, vars
  <2> QED
    BY <1>9, <2>1, StorageStep DEF vars
<1> QED
  BY <1>1, <1>2, <1>3, <1>4, <1>5, <1>6, <1>7, <1>8, <1>9 DEF Next

LEMMA AlwaysAppInv == Spec => []AppInv
  BY InitAppInv, NextAppInv, PTL DEF Spec

(* The state of the wallet modes, of the vault manager and of the calls in *)
(* flight is well-typed (services/wallet/appWallet.ts, vaultManager.ts).   *)
THEOREM TypeCorrect == Spec => []TypeOK
<1>1. AppInv => TypeOK
  BY DEF AppInv
<1> QED
  BY <1>1, AlwaysAppInv, PTL

(* Whatever calls of vaultManager.ts overlap, the addresses of the active  *)
(* phase are those of the active vault, unless an unlock ended after its   *)
(* vault had ceased to be the active one.                                  *)
THEOREM AddressesOfActive == Spec => []AddressesUnlessRaced
<1>1. AppInv => AddressesUnlessRaced
  BY DEF AppInv, StateInv
<1> QED
  BY <1>1, AlwaysAppInv, PTL

(* The subscriptions of appWallet.ts lose nothing: the app shows the vault *)
(* state, but for the phases of a creation, and the keystore once no       *)
(* switch is under way.                                                    *)
THEOREM AppShowsService == Spec => []AppMirrorsService
<1>1. AppInv => AppMirrorsService
  BY DEF AppInv, StateInv
<1> QED
  BY <1>1, AlwaysAppInv, PTL

(* appWallet.ts keeps no keystore unlocked behind another mode, unless an  *)
(* unlock ended during the switch to it.                                   *)
THEOREM OneUnlocked == Spec => []OneUnlockedUnlessMissed
<1>1. AppInv => OneUnlockedUnlessMissed
  BY DEF AppInv, StateInv, LockedElsewhere, OneUnlockedUnlessMissed
<1> QED
  BY <1>1, AlwaysAppInv, PTL

(* While the app shows a keystore, no call runs and no save is in flight,  *)
(* lastOpenedWallet is no vault, however the saves of appWallet.ts:50      *)
(* overlapped, failed or emptied the file before: unless a vault was       *)
(* activated after the user had left, or the save sent last was refused or *)
(* overtook another.  The next start restores what the user saw last.      *)
THEOREM SavedWallet == Spec => []SavedFollowsMode
<1>1. ASSUME AppInv  PROVE SavedFollowsMode
  <2> SUFFICES ASSUME SavedIsVault, running = None  PROVE FALSE
    BY DEF SavedFollowsMode, SavedIsVault, Intended
  <2>1. \A s \in Slots : ~ToRestore(s) /\ ~ToSwitch(s)
    BY <1>1, NoneRuns DEF AppInv
  <2> QED
    BY <1>1, <2>1 DEF AppInv, StateInv, SavedElsewhere
<1> QED
  BY <1>1, AlwaysAppInv, PTL

(* The steps that may make a vault active have one to be trusted.          *)
Activates == vultisig'.phase = "Active" /\ vultisig.phase # "Active" /\ ~raced'

LEMMA StepActivates ==
    ASSUME AppInv, NEW s \in Slots, StepOf(s), Activates
    PROVE  vultisig'.active \in opened' \cup (Vaults \ Encrypted)
<1>1. vultisig \in VaultState /\ raced \in BOOLEAN
  BY DEF AppInv, TypeOK
<1>2. vultisig' # vultisig
  BY DEF Activates
<1>3. \/ KeystoreEmits(s) \/ RestoreLast(s) \/ Switch(s) \/ Loaded(s)
      \/ SelectLocked(s) \/ Selected(s) \/ SetActive(s) \/ VaultUnlocked(s)
      \/ Created(s) \/ Deleted(s)
  BY <1>2 DEF StepOf, KeystoreFails, SwitchEndsAtOnce, Restore, Entered, Ready,
              SelectUnknown, SelectOpen, SelectFails, Unlock, PasswordAccepted,
              VaultCallFails, VaultLocked, Verified
<1>4. Exited.phase # "Active"
  BY ExitedState
<1>5. ASSUME NEW d \in {"addresses", "setActive"}, At(s, d), Activate(Arg(s)),
             opened' = opened, raced' = raced
      PROVE  vultisig'.active \in opened' \cup (Vaults \ Encrypted)
  <2>1. Arg(s) \in Trusted
    BY <1>5, AtStep DEF AppInv
  <2>2. Arg(s) \in opened' \cup (Vaults \ Encrypted)
    BY <1>5, <2>1 DEF Activates, Trusted
  <2>3. vultisig' = [vultisig EXCEPT !.phase = "Active", !.active = Arg(s),
                                     !.addresses = Arg(s)]
    BY <1>5 DEF Activate, SetVultisig
  <2>4. vultisig'.active = Arg(s)
    BY <1>1, <2>3 DEF VaultState
  <2> QED
    BY <2>2, <2>4
<1>6. CASE VaultUnlocked(s)
  <2>1. /\ At(s, "unlocked") /\ opened' = opened
        /\ vultisig' = [vultisig EXCEPT !.phase = "Active", !.addresses = Arg(s)]
        /\ raced' = (raced \/ vultisig.active # Arg(s))
    BY <1>6 DEF VaultUnlocked, SetVultisig
  <2>2. ~raced /\ vultisig.active = Arg(s)
    BY <1>1, <2>1 DEF Activates
  <2>3. Arg(s) \in Trusted
    BY <2>1, AtStep DEF AppInv
  <2>4. vultisig'.active = Arg(s)
    BY <1>1, <2>1, <2>2 DEF VaultState
  <2> QED
    BY <2>1, <2>2, <2>3, <2>4 DEF Trusted
<1>7. CASE Selected(s) \/ SetActive(s)
  BY <1>5, <1>7 DEF Selected, SetActive
<1>8. CASE Loaded(s) \/ SelectLocked(s) \/ Created(s) \/ Switch(s)
  <2>1. vultisig'.phase # "Active" \/ vultisig'.phase = vultisig.phase
    BY <1>1, <1>8 DEF Loaded, SelectLocked, Created, Switch, SetVultisig, VaultState
  <2> QED
    BY <2>1 DEF Activates
<1>9. CASE KeystoreEmits(s) \/ RestoreLast(s) \/ Deleted(s)
  <2>1. vultisig' = Exited \/ vultisig' = vultisig
    BY <1>9 DEF KeystoreEmits, Emit, RestoreLast, ExitToKeystore, Deleted, SetVultisig
  <2> QED
    BY <1>4, <2>1 DEF Activates
<1> QED
  BY <1>3, <1>6, <1>7, <1>8, <1>9

(* An encrypted vault becomes active only while the SDK has its password   *)
(* (selectVault, unlockVault and activateVault of vaultManager.ts), unless *)
(* an unlock overlapped with a selection or a lock.                        *)
THEOREM OnlyOpenedActivated == Spec => ActiveWasOpened
<1>1. ASSUME AppInv, [Next]_vars, Activates
      PROVE  vultisig'.active \in opened' \cup (Vaults \ Encrypted)
  <2>1. vultisig' # vultisig /\ vultisig \in VaultState
    BY <1>1 DEF Activates, AppInv, TypeOK
  <2>2. Exited.phase # "Active"
    BY <1>1, ExitedState
  <2>3. CASE \E s \in Slots : StepOf(s)
    BY <1>1, <2>3, StepActivates
  <2>4. CASE LockKeystore \/ SwitchToKeystore \/ \E s \in Slots : Startup(s)
    <3>1. vultisig' = Exited \/ vultisig' = vultisig
      BY <2>4 DEF LockKeystore, Emit, SwitchToKeystore, ExitToKeystore, Startup
    <3> QED
      BY <1>1, <2>2, <3>1 DEF Activates
  <2>5. CASE \E s \in Slots : LockVault(s) \/ \E v \in Vaults : CreateVault(s, v)
    <3>1. vultisig'.phase # "Active"
      BY <2>1, <2>5 DEF LockVault, CreateVault, SetVultisig, VaultState
    <3> QED
      BY <1>1, <3>1 DEF Activates
  <2> QED
    BY <1>1, <2>1, <2>3, <2>4, <2>5
       DEF Next, vars, SaveEnds, StorageLoads, SwitchToLedger, KeystoreCall,
           LeaveLedger, VaultCall, Import
<1> QED
  BY <1>1, AlwaysAppInv, PTL DEF Spec, ActiveWasOpened, Activates
=============================================================================
