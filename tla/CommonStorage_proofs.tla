------------------------- MODULE CommonStorage_proofs -------------------------
(***************************************************************************)
(* The common storage for any fields, values, calls in flight, failures    *)
(* and restarts: the fields of the file are registers until disturbed      *)
(* says otherwise, what was answered is kept, and the cache is the file.   *)
(*                                                                         *)
(* The inductive part is what a call knows of the file (Sound): as long as *)
(* nothing was disturbed, or the call is alone, what it is about to write  *)
(* is what the file shows with its own fields changed.                     *)
(***************************************************************************)
EXTENDS CommonStorage, FileStore_proofs

(* What a call carries names no retired URL, and a save's own fields.      *)
TidyCall(call) ==
    /\ call.phase = "idle" => call.kind = "none"
    /\ call.kind = "save" => Clean(call.partial)
    /\ call.phase \in {"opening", "filling"} =>
        /\ Clean(call.data)
        /\ call.goal = "save" =>
            /\ call.kind = "save"
            /\ \A f \in DOMAIN call.partial : call.data[f] = call.partial[f]

Tidy == \A c \in Slots : TidyCall(calls[c])

(* The file has not changed since the call looked at it.                   *)
Sound ==
    \A c \in Slots :
        /\ calls[c].phase = "filling" =>
            /\ file.form = "empty"
            /\ \A d \in Slots : d # c => ~ Writing(d)
        /\ calls[c].phase = "opening" =>
            calls[c].data = IF calls[c].goal = "save" THEN Over(calls[c].partial, Shown)
                            ELSE Shown

Single == \A c, d \in Slots : ~ Idle(c) /\ ~ Idle(d) => c = d

(* The one save of a field that sole names is the one under way, and there *)
(* is none while acked has a value.                                        *)
SavesField(c, f) == calls[c].kind = "save" /\ f \in DOMAIN calls[c].partial

Sole ==
    \A f \in Fields, c \in Slots :
        /\ sole[f] # None => (SavesField(c, f) <=> c = sole[f])
        /\ acked[f] # None => ~ SavesField(c, f)

StorageInv ==
    /\ TypeOK
    /\ Tidy
    /\ Sole
    /\ alone => Single
    /\ alone \/ ~ disturbed => Sound

-----------------------------------------------------------------------------
(* Types and what the calls carry                                          *)

LEMMA InitStorageInv == Init => StorageInv
<1> SUFFICES ASSUME Init PROVE StorageInv OBVIOUS
<1>1. \A c \in Slots : calls[c] \in Call /\ (c # First => calls[c] = NoCall)
                       /\ (calls[c].phase = "idle" \/ calls[c].phase = "checking")
                       /\ (calls[c].kind = "get" \/ calls[c].kind = "none")
                       /\ (calls[c].phase = "idle" => calls[c].kind = "none")
  <2>1. "get" \in Kinds BY DEF Kinds
  <2> QED BY <2>1, AskFacts, NoCallFacts, DefaultsAreClean DEF Init, Starting
<1>2. TypeOK
  <2>1. calls \in [Slots -> Call] BY <1>1 DEF Init, Starting
  <2>2. file \in [form : Forms, data : Partial]
    BY DefaultsAreClean DEF Init, FileInit, Forms
  <2>3. FileTypeOK
    <3>1. failures = 0 /\ disturbed = FALSE BY DEF Init, FileInit
    <3>2. disturbed \in BOOLEAN BY <3>1
    <3> QED BY <2>1, <2>2, <3>1, <3>2 DEF FileTypeOK, Call
  <2>4. alone \in BOOLEAN BY DEF Init
  <2> QED BY <2>3, <2>4 DEF Init, TypeOK
<1>3. Tidy BY <1>1 DEF Tidy, TidyCall
<1>4. Single BY <1>1, NoCallFacts DEF Single, Idle
<1>5. Sound BY <1>1 DEF Sound
<1>6. Sole BY DEF Init, Sole
<1> QED BY <1>2, <1>3, <1>4, <1>5, <1>6 DEF StorageInv

LEMMA TidyOfOnlyCall ==
    ASSUME Tidy, NEW c \in Slots, OnlyCall(c), TidyCall(calls'[c])
    PROVE  Tidy'
BY DEF Tidy, TidyCall, OnlyCall

LEMMA TidyOfDue ==
    ASSUME FileTypeOK, Tidy, NEW c \in Slots, OnlyCall(c), NEW content \in Content,
           Clean(content),
           \/ Due(c, "create", content)
           \/ Due(c, "migrate", content)
           \/ Has(c, content)
    PROVE  Tidy'
<1>1. TidyCall(calls[c]) BY DEF Tidy
<1>2. calls[c].partial \in Partial BY DEF FileTypeOK
<1>3. CASE Due(c, "create", content) \/ Due(c, "migrate", content)
  BY <1>1, <1>3, TidyOfOnlyCall DEF Due, TidyCall, OnlyCall
<1>4. CASE Has(c, content) /\ calls[c].kind = "save"
  <2>1. Clean(calls[c].partial) BY <1>1, <1>4 DEF TidyCall
  <2>2. /\ Clean(Over(calls[c].partial, content))
        /\ \A f \in DOMAIN calls[c].partial :
              Over(calls[c].partial, content)[f] = calls[c].partial[f]
    BY <1>2, <2>1, OverIsContent
  <2> QED BY <1>4, <2>1, <2>2, TidyOfOnlyCall DEF Has, Due, TidyCall, OnlyCall
<1>5. CASE Has(c, content) /\ calls[c].kind # "save"
  BY <1>1, <1>5, TidyOfOnlyCall DEF Has, TidyCall, OnlyCall
<1> QED BY <1>3, <1>4, <1>5

LEMMA FileStepTidy ==
    ASSUME FileTypeOK, Tidy, NEW c \in Slots, FileStep(c)
    PROVE  FileTypeOK' /\ Tidy' /\ OnlyCall(c)
<1>0. Shown \in Content /\ Clean(Shown) BY ShownIsClean
<1>a. calls[c].data \in Content BY DEF FileTypeOK
<1>1. CASE Check(c)
  <2>1. Tidy'
    <3>1. CASE Due(c, "create", Defaults)
      BY <1>1, <3>1, CheckEffect, TidyOfDue, DefaultsAreClean
    <3>2. CASE calls'[c].phase = "reading"
      <4>1. TidyCall(calls[c]) BY DEF Tidy
      <4> QED BY <1>1, <3>2, <4>1, CheckEffect, TidyOfOnlyCall DEF TidyCall, OnlyCall
    <3> QED BY <1>1, <3>1, <3>2, CheckEffect
  <2>2. FileTypeOK' BY <1>1, CheckEffect DEF FileTypeOK, OnlyCall, Call
  <2> QED BY <1>1, <2>1, <2>2, CheckEffect
<1>2. CASE Read(c)
  <2>1. Tidy' BY <1>0, <1>2, ReadEffect, TidyOfDue
  <2>2. disturbed' \in BOOLEAN
    <3>1. disturbed' = (disturbed \/ (calls[c].kind = "save" /\ Filling # {}))
      BY <1>2, ReadEffect
    <3> QED BY <3>1
  <2>3. FileTypeOK' BY <1>2, <2>2, ReadEffect DEF FileTypeOK, OnlyCall, Call
  <2> QED BY <1>2, <2>1, <2>3, ReadEffect
<1>3. CASE Open(c)
  <2>1. Tidy'
    <3>1. TidyCall(calls[c]) BY DEF Tidy
    <3> QED BY <1>3, <3>1, OpenEffect, TidyOfOnlyCall DEF TidyCall, OnlyCall
  <2>2. disturbed' \in BOOLEAN
    <3>1. disturbed' = (disturbed \/ \E d \in Slots \ {c} : Writing(d))
      BY <1>3, OpenEffect
    <3> QED BY <3>1
  <2>3. file' \in [form : Forms, data : Partial]
    BY <1>3, OpenEffect, DefaultsAreClean DEF Forms
  <2>4. FileTypeOK' BY <1>3, <2>2, <2>3, OpenEffect DEF FileTypeOK, OnlyCall, Call
  <2> QED BY <1>3, <2>1, <2>4, OpenEffect
<1>4. CASE Fill(c)
  <2>1. Clean(calls[c].data) BY <1>4, FillEffect DEF Tidy, TidyCall
  <2>2. Tidy'
    <3>1. CASE calls[c].goal = "save"
      <4>1. TidyCall(calls[c]) BY DEF Tidy
      <4> QED BY <1>4, <3>1, <4>1, FillEffect, TidyOfOnlyCall DEF TidyCall, OnlyCall
    <3>2. CASE calls[c].goal # "save"
      BY <1>a, <1>4, <2>1, <3>2, FillEffect, TidyOfDue
    <3> QED BY <3>1, <3>2
  <2>3. file' \in [form : Forms, data : Partial]
    BY <1>a, <1>4, FillEffect, DefaultsAreClean, ContentIsPartial DEF Forms
  <2>4. FileTypeOK' BY <1>4, <2>3, FillEffect DEF FileTypeOK, OnlyCall, Call
  <2> QED BY <1>4, <2>2, <2>4, FillEffect
<1> QED BY <1>1, <1>2, <1>3, <1>4 DEF FileStep

LEMMA FailsTidy ==
    ASSUME FileTypeOK, Tidy, NEW c \in Slots, Fails(c)
    PROVE  FileTypeOK' /\ Tidy' /\ OnlyCall(c)
<1>1. Tidy'
  <2>1. CASE Due(c, "create", Defaults) \/ Has(c, Defaults)
    BY <2>1, FailEffect, TidyOfDue, DefaultsAreClean
  <2>2. CASE calls'[c].phase = "rejected"
    <3>1. TidyCall(calls[c]) BY DEF Tidy
    <3> QED BY <2>2, <3>1, FailEffect, TidyOfOnlyCall DEF TidyCall, OnlyCall
  <2> QED BY <2>1, <2>2, FailEffect
<1>2. FileTypeOK' BY FailEffect DEF FileTypeOK, OnlyCall, Call
<1> QED BY <1>1, <1>2, FailEffect

-----------------------------------------------------------------------------
(* The file as the calls know it                                           *)

Calm == alone \/ ~ disturbed

LEMMA OthersDoNotWrite ==
    ASSUME StorageInv, Calm, NEW c \in Slots, calls[c].phase = "filling"
    PROVE  /\ file.form = "empty"
           /\ \A d \in Slots : d # c => ~ Writing(d)
           /\ Filling = {c}
<1>1. Sound BY DEF StorageInv, Calm
<1>2. file.form = "empty" /\ \A d \in Slots : d # c => ~ Writing(d) BY <1>1 DEF Sound
<1> QED BY <1>2 DEF Filling, Writing

LEMMA RegOfFilling ==
    ASSUME NEW c, Filling = {c} PROVE Reg = calls[c].data
BY DEF Reg

(* What an operation of the main process does to the registers: the write  *)
(* of a save changes those of its own fields, in the step that opens the   *)
(* file, and nothing else changes any.                                     *)
LEMMA FileStepSound ==
    ASSUME StorageInv, NEW c \in Slots, FileStep(c), UNCHANGED alone, Calm'
    PROVE  /\ Sound'
           /\ IF calls[c].phase = "opening" /\ calls[c].goal = "save"
              THEN Reg' = Over(calls[c].partial, Reg)
              ELSE Reg' = Reg
           /\ calls'[c].phase = "answered" =>
                calls'[c].data = Reg' \/ (calls[c].phase = "reading" /\ Filling # {})
<1>0. FileTypeOK /\ Tidy /\ TidyCall(calls[c]) BY DEF StorageInv, TypeOK, Tidy
<1>a. Calm BY DEF Calm, FileStep, Check, Read, Open, Fill
<1>b. Sound BY <1>a DEF StorageInv, Calm
<1>1. CASE Check(c)
  <2>1. Shown' = Shown BY <1>0, <1>1, CheckEffect DEF Shown
  <2>2. \A d \in Slots : d # c => calls'[d] = calls[d]
    BY <1>0, <1>1, CheckEffect DEF OnlyCall
  <2>3. calls'[c].phase \notin {"filling", "answered"} /\ calls[c].phase = "checking"
    BY <1>0, <1>1, CheckEffect DEF Due
  <2>4. Sound'
    <3>1. CASE file.form = "absent" /\ Due(c, "create", Defaults)
      <4>1. \A d \in Slots : calls[d].phase # "filling" BY <1>b, <3>1 DEF Sound
      <4>2. Shown = Defaults BY <3>1 DEF Shown
      <4> QED BY <1>b, <2>1, <2>2, <2>3, <3>1, <4>1, <4>2 DEF Sound, Due
    <3>2. CASE calls'[c].phase = "reading"
      <4>1. file' = file BY <1>0, <1>1, CheckEffect
      <4> QED BY <1>b, <2>1, <2>2, <2>3, <3>2, <4>1 DEF Sound, Writing
    <3> QED BY <1>0, <1>1, <3>1, <3>2, CheckEffect
  <2>5. Filling' = Filling BY <2>2, <2>3 DEF Filling
  <2>6. Reg' = Reg
    <3>1. CASE Filling = {} BY <2>1, <2>5, <3>1 DEF Reg
    <3>2. ASSUME NEW d \in Filling PROVE Reg' = Reg
      <4>1. Filling = {d} /\ d # c
        BY <1>a, <2>3, OthersDoNotWrite DEF Filling
      <4>2. Filling' = {d} BY <2>5, <4>1
      <4>3. Reg = calls[d].data BY <4>1, RegOfFilling
      <4>4. Reg' = calls'[d].data BY <4>2 DEF Reg
      <4> QED BY <2>2, <3>2, <4>1, <4>3, <4>4 DEF Filling
    <3> QED BY <3>1, <3>2
  <2> QED BY <2>3, <2>4, <2>6
<1>2. CASE Read(c)
  <2>1. Shown' = Shown /\ file' = file BY <1>0, <1>2, ReadEffect DEF Shown
  <2>2. \A d \in Slots : d # c => calls'[d] = calls[d]
    BY <1>0, <1>2, ReadEffect DEF OnlyCall
  <2>3. calls'[c].phase # "filling" /\ calls[c].phase = "reading"
    BY <1>0, <1>2, ReadEffect DEF Due, Has
  <2>4. ASSUME Writing(c)' PROVE Filling = {}
    <3>1. CASE file.form = "json" BY <1>b, <3>1 DEF Sound, Filling
    <3>2. CASE calls[c].kind = "save" /\ ~ disturbed' BY <1>0, <1>2, <3>2, ReadEffect
    <3>3. CASE alone
      <4>1. Single BY <3>3 DEF StorageInv
      <4> QED BY <2>3, <4>1 DEF Single, Idle, Filling
    <3>4. CASE ~ file.form = "json" /\ calls[c].kind # "save"
      BY <1>0, <1>2, <2>4, <3>4, ReadEffect DEF Has, Writing
    <3> QED BY <3>1, <3>2, <3>3, <3>4 DEF Calm
  <2>5. Sound'
    <3>1. calls'[c].phase = "opening" =>
            calls'[c].data = IF calls'[c].goal = "save"
                             THEN Over(calls'[c].partial, Shown') ELSE Shown'
      <4>1. calls'[c].partial = calls[c].partial BY <1>0, <1>2, ReadEffect DEF OnlyCall
      <4> QED BY <1>0, <1>2, <2>1, <4>1, ReadEffect DEF Due, Has
    <3>2. CASE Writing(c)' BY <1>b, <2>1, <2>2, <2>3, <2>4, <3>1, <3>2 DEF Sound, Filling
    <3>3. CASE ~ Writing(c)' BY <1>b, <2>1, <2>2, <2>3, <3>1, <3>3 DEF Sound, Writing
    <3> QED BY <3>2, <3>3
  <2>6. Filling' = Filling BY <2>2, <2>3 DEF Filling
  <2>7. Reg' = Reg
    <3>1. CASE Filling = {} BY <2>1, <2>6, <3>1 DEF Reg
    <3>2. ASSUME NEW d \in Filling PROVE Reg' = Reg
      <4>1. Filling = {d} /\ d # c
        BY <1>a, <2>3, OthersDoNotWrite DEF Filling
      <4>2. Filling' = {d} BY <2>6, <4>1
      <4>3. Reg = calls[d].data BY <4>1, RegOfFilling
      <4>4. Reg' = calls'[d].data BY <4>2 DEF Reg
      <4> QED BY <2>2, <3>2, <4>1, <4>3, <4>4 DEF Filling
    <3> QED BY <3>1, <3>2
  <2>8. calls'[c].phase = "answered" =>
          calls'[c].data = Reg' \/ (calls[c].phase = "reading" /\ Filling # {})
    <3>1. calls'[c].phase = "answered" => calls[c].kind # "save" /\ calls'[c].data = Shown
      BY <1>0, <1>2, ReadEffect DEF Due, Has
    <3>2. Filling = {} => Reg = Shown BY DEF Reg
    <3> QED BY <2>3, <2>7, <3>1, <3>2
  <2> QED BY <2>3, <2>5, <2>7, <2>8
<1>3. CASE Open(c)
  <2>1. /\ calls[c].phase = "opening" /\ calls'[c].phase = "filling"
        /\ calls'[c].goal = calls[c].goal /\ calls'[c].data = calls[c].data
        /\ file'.form = "empty"
        /\ \A d \in Slots : d # c => calls'[d] = calls[d]
    BY <1>0, <1>3, OpenEffect DEF OnlyCall
  <2>2. \A d \in Slots : d # c => ~ Writing(d)
    <3>1. CASE alone
      <4>1. Single BY <3>1 DEF StorageInv
      <4> QED BY <2>1, <4>1 DEF Single, Idle, Writing
    <3>2. CASE ~ disturbed' BY <1>0, <1>3, <3>2, OpenEffect
    <3> QED BY <3>1, <3>2 DEF Calm
  <2>3. Sound' BY <2>1, <2>2 DEF Sound, Writing
  <2>4. Filling = {} /\ Filling' = {c} BY <2>1, <2>2 DEF Filling, Writing
  <2>5. Reg = Shown /\ Reg' = calls[c].data BY <2>1, <2>4 DEF Reg
  <2>6. calls[c].data = IF calls[c].goal = "save" THEN Over(calls[c].partial, Shown)
                        ELSE Shown
    BY <1>b, <2>1 DEF Sound
  <2> QED BY <2>1, <2>3, <2>5, <2>6
<1>4. CASE Fill(c)
  <2>1. calls[c].phase = "filling" BY <1>0, <1>4, FillEffect
  <2>2. /\ file.form = "empty" /\ Filling = {c}
        /\ \A d \in Slots : d # c => ~ Writing(d)
    BY <1>a, <2>1, OthersDoNotWrite
  <2>3. \A d \in Slots : d # c => calls'[d] = calls[d]
    BY <1>0, <1>4, FillEffect DEF OnlyCall
  <2>4. file' = [form |-> "json", data |-> calls[c].data]
    BY <1>0, <1>4, <2>2, FillEffect
  <2>5. calls[c].data \in Content /\ Clean(calls[c].data)
    BY <1>0, <2>1 DEF FileTypeOK, TidyCall
  <2>6. Shown' = calls[c].data BY <2>4, <2>5, ShownOfWritten
  <2>7. calls'[c].phase # "filling" /\ calls'[c].partial = calls[c].partial
    BY <1>0, <1>4, FillEffect DEF Has, Due, OnlyCall
  <2>8. Sound'
    <3>1. calls'[c].phase = "opening" =>
            calls'[c].data = IF calls'[c].goal = "save"
                             THEN Over(calls'[c].partial, Shown') ELSE Shown'
      BY <1>0, <1>4, <2>6, <2>7, FillEffect DEF Has, Due
    <3> QED BY <2>2, <2>3, <2>7, <3>1 DEF Sound, Writing
  <2>9. Filling' = {} BY <2>2, <2>3, <2>7 DEF Filling, Writing
  <2>10. Reg' = calls[c].data /\ Reg = calls[c].data
    BY <2>2, <2>6, <2>9, RegOfFilling DEF Reg
  <2>11. calls'[c].phase = "answered" => calls'[c].data = Reg'
    BY <1>0, <1>4, <2>10, FillEffect DEF Has, Due
  <2> QED BY <2>1, <2>8, <2>10, <2>11
<1> QED BY <1>1, <1>2, <1>3, <1>4 DEF FileStep

LEMMA FailsSound ==
    ASSUME StorageInv, NEW c \in Slots, Fails(c), ~ disturbed'
    PROVE  Sound' /\ Reg' = Reg
<1>0. FileTypeOK BY DEF StorageInv, TypeOK
<1>1. /\ ~ disturbed /\ file' = file /\ ~ Writing(c)'
      /\ calls[c].phase \in {"reading", "opening"}
      /\ \A d \in Slots : d # c => calls'[d] = calls[d]
  BY <1>0, FailEffect DEF OnlyCall
<1>2. Sound /\ Calm BY <1>1 DEF StorageInv, Calm
<1>3. Shown' = Shown BY <1>1 DEF Shown
<1>4. Sound' BY <1>1, <1>2, <1>3 DEF Sound, Writing
<1>5. Filling' = Filling BY <1>1 DEF Filling, Writing
<1>6. Reg' = Reg
  <2>1. CASE Filling = {} BY <1>3, <1>5, <2>1 DEF Reg
  <2>2. ASSUME NEW d \in Filling PROVE Reg' = Reg
    <3>1. Filling = {d} /\ d # c BY <1>1, <1>2, OthersDoNotWrite DEF Filling
    <3>2. Reg = calls[d].data BY <3>1, RegOfFilling
    <3>3. Reg' = calls'[d].data BY <1>5, <3>1 DEF Reg
    <3> QED BY <1>1, <2>2, <3>1, <3>2, <3>3 DEF Filling
  <2> QED BY <2>1, <2>2
<1> QED BY <1>4, <1>6

(* Neither a new call nor an answer touches the file.                      *)
LEMMA RegOfOthers ==
    ASSUME UNCHANGED file, Filling' = Filling,
           \A c \in Filling : calls'[c].data = calls[c].data
    PROVE  Reg' = Reg
<1>1. Shown' = Shown BY DEF Shown
<1>2. CASE Filling = {} BY <1>1, <1>2 DEF Reg
<1>3. CASE Filling # {}
  <2> DEFINE d == CHOOSE c \in Filling : TRUE
  <2>1. d \in Filling BY <1>3
  <2>2. Reg = calls[d].data BY <1>3 DEF Reg
  <2>3. Reg' = calls'[d].data BY <1>3 DEF Reg
  <2> QED BY <2>1, <2>2, <2>3
<1> QED BY <1>2, <1>3

LEMMA BeginEffect ==
    ASSUME TypeOK, NEW c \in Slots, NEW kind \in Kinds \ {"none"},
           NEW partial \in Partial, Begin(c, kind, partial)
    PROVE  /\ calls' \in [Slots -> Call]
           /\ calls'[c].kind = kind /\ calls'[c].partial = partial
           /\ calls'[c].phase = "checking"
           /\ calls[c].phase = "idle"
           /\ \A d \in Slots : d # c => calls'[d] = calls[d]
           /\ Filling' = Filling /\ Reg' = Reg
           /\ begun' \in Nat
           /\ alone' = ((kind = "ledger" => alone) /\ \A d \in Slots : Idle(d))
           /\ UNCHANGED <<file, failures, disturbed, cache, crashes>>
<1>1. calls' = [calls EXCEPT ![c] = Ask(c, kind, partial)] /\ Idle(c) BY DEF Begin
<1>2. FileTypeOK BY DEF TypeOK
<1>3. /\ calls' \in [Slots -> Call] /\ calls'[c] = Ask(c, kind, partial)
      /\ \A d \in Slots : d # c => calls'[d] = calls[d]
  BY <1>1, <1>2, AskFacts, CallsOfType
<1>4. calls'[c].phase = "checking" BY <1>3, AskFacts
<1>5. Filling' = Filling /\ c \notin Filling BY <1>1, <1>3, <1>4 DEF Filling, Idle
<1>6. \A d \in Filling : calls'[d].data = calls[d].data BY <1>3, <1>5 DEF Filling
<1>7. Reg' = Reg BY <1>5, <1>6, RegOfOthers DEF Begin
<1> QED BY <1>1, <1>3, <1>5, <1>7, AskFacts DEF Begin, Idle, TypeOK

LEMMA EndEffect ==
    ASSUME TypeOK, NEW c \in Slots, calls' = [calls EXCEPT ![c] = NoCall],
           calls[c].phase \in {"answered", "rejected"}, UNCHANGED file
    PROVE  /\ calls' \in [Slots -> Call]
           /\ calls'[c].phase = "idle" /\ calls'[c].kind = "none"
           /\ \A d \in Slots : d # c => calls'[d] = calls[d]
           /\ Filling' = Filling /\ Reg' = Reg
<1>1. FileTypeOK BY DEF TypeOK
<1>2. /\ calls' \in [Slots -> Call] /\ calls'[c] = NoCall
      /\ \A d \in Slots : d # c => calls'[d] = calls[d]
  BY <1>1, NoCallFacts, CallsOfType
<1>3. Filling' = Filling /\ c \notin Filling BY <1>2, NoCallFacts DEF Filling
<1>4. \A d \in Filling : calls'[d].data = calls[d].data BY <1>2, <1>3 DEF Filling
<1> QED BY <1>2, <1>3, <1>4, NoCallFacts, RegOfOthers

LEMMA StartingFacts ==
    /\ Starting \in [Slots -> Call]
    /\ \A c \in Slots :
        /\ Starting[c].phase \in {"idle", "checking"}
        /\ Starting[c].kind = IF c = First THEN "get" ELSE "none"
        /\ c # First => Starting[c].phase = "idle"
        /\ Starting[c].phase = "idle" => Starting[c].kind = "none"
<1>1. "get" \in Kinds BY DEF Kinds
<1> QED BY <1>1, AskFacts, NoCallFacts, DefaultsAreClean DEF Starting

LEMMA CrashEffect ==
    ASSUME TypeOK, Crash
    PROVE  /\ calls' = Starting /\ file' = file /\ cache' = None
           /\ disturbed' = (disturbed \/ Filling # {})
           /\ Filling' = {}
           /\ ~ disturbed' => Reg' = Reg
<1>1. /\ calls' = Starting /\ file' = file /\ cache' = None
      /\ disturbed' = (disturbed \/ Filling # {})
  BY DEF Crash, Dies
<1>2. Filling' = {} BY <1>1, StartingFacts DEF Filling
<1>3. Shown' = Shown BY <1>1 DEF Shown
<1> QED BY <1>1, <1>2, <1>3 DEF Reg

LEMMA ModifyStorageEffect ==
    ASSUME TypeOK, NEW c \in Slots, ModifyStorage(c)
    PROVE  \E f \in Fields, v \in Chosen :
             /\ [g \in {f} |-> v] \in Partial
             /\ Clean([g \in {f} |-> v])
             /\ Begin(c, "save", [g \in {f} |-> v])
             /\ sole' = [sole EXCEPT ![f] = IF NoSaveOf(f) THEN c ELSE None]
             /\ acked' = [acked EXCEPT ![f] = None]
<1>1. \A f \in Fields, v \in Chosen :
         [g \in {f} |-> v] \in Partial /\ Clean([g \in {f} |-> v])
  <2> TAKE f \in Fields, v \in Chosen
  <2>1. v \in Values /\ v # Retired BY DEF Chosen
  <2>2. {f} \in SUBSET Fields /\ [g \in {f} |-> v] \in [{f} -> Values] BY <2>1
  <2>3. [g \in {f} |-> v] \in Partial BY <2>2 DEF Partial
  <2> QED BY <2>1, <2>3 DEF Clean
<1> QED BY <1>1 DEF ModifyStorage

(* Who saves a field, before and after the step of a call.                 *)
LEMMA SoleOfOnlyCall ==
    ASSUME Sole, NEW c \in Slots, OnlyCall(c), UNCHANGED <<sole, acked>>
    PROVE  Sole'
BY DEF Sole, OnlyCall, SavesField

LEMMA SoleOfEnd ==
    ASSUME TypeOK, Sole, NEW c \in Slots, calls'[c].kind = "none",
           \A d \in Slots : d # c => calls'[d] = calls[d],
           \A f \in Fields : sole'[f] = IF sole[f] = c THEN None ELSE sole[f],
           \A f \in Fields : acked'[f] # None => acked[f] # None \/ sole[f] = c
    PROVE  Sole'
<1> SUFFICES ASSUME NEW f \in Fields, NEW d \in Slots
             PROVE  /\ sole'[f] # None => (SavesField(d, f)' <=> d = sole'[f])
                    /\ acked'[f] # None => ~ SavesField(d, f)'
  BY DEF Sole
<1>1. sole[f] # None => (SavesField(d, f) <=> d = sole[f]) BY DEF Sole
<1>2. acked[f] # None => ~ SavesField(d, f) BY DEF Sole
<1>3. CASE d = c BY <1>1, <1>2, <1>3 DEF SavesField
<1>4. CASE d # c BY <1>1, <1>2, <1>4, StartAssumption DEF SavesField
<1> QED BY <1>3, <1>4

LEMMA NextSole == StorageInv /\ [Next]_vars => Sole'
<1> SUFFICES ASSUME StorageInv, [Next]_vars PROVE Sole' OBVIOUS
<1>0. TypeOK /\ FileTypeOK /\ Tidy /\ Sole BY DEF StorageInv, TypeOK
<1>k. "save" \in Kinds \ {"none"} /\ "ledger" \in Kinds \ {"none"} BY DEF Kinds
<1>1. ASSUME NEW c \in Slots, ModifyStorage(c) PROVE Sole'
  <2>1. PICK f \in Fields, v \in Chosen :
             /\ [g \in {f} |-> v] \in Partial
             /\ Clean([g \in {f} |-> v])
             /\ Begin(c, "save", [g \in {f} |-> v])
             /\ sole' = [sole EXCEPT ![f] = IF NoSaveOf(f) THEN c ELSE None]
             /\ acked' = [acked EXCEPT ![f] = None]
    BY <1>0, <1>1, ModifyStorageEffect
  <2>2. /\ calls'[c].kind = "save" /\ calls'[c].partial = [g \in {f} |-> v]
        /\ calls[c].phase = "idle"
        /\ \A d \in Slots : d # c => calls'[d] = calls[d]
    BY <1>0, <1>k, <2>1, BeginEffect
  <2>3. calls[c].kind = "none" BY <1>0, <2>2 DEF Tidy, TidyCall
  <2>4. \A g \in Fields, d \in Slots :
          SavesField(d, g)' <=> SavesField(d, g) \/ (d = c /\ g = f)
    BY <2>2, <2>3 DEF SavesField
  <2>5. \A g \in Fields : ~ SavesField(c, g) BY <2>3 DEF SavesField
  <2>6. /\ \A g \in Fields : g # f => sole'[g] = sole[g] /\ acked'[g] = acked[g]
        /\ sole'[f] = (IF NoSaveOf(f) THEN c ELSE None) /\ acked'[f] = None
    BY <1>0, <2>1 DEF TypeOK
  <2>7. NoSaveOf(f) => \A d \in Slots : ~ SavesField(d, f) BY DEF NoSaveOf, SavesField
  <2> QED BY <1>0, <2>4, <2>5, <2>6, <2>7 DEF Sole
<1>2. ASSUME NEW c \in Slots, ReadByLedger(c) PROVE Sole'
  <2>1. UNCHANGED <<sole, acked>> /\ Begin(c, "ledger", Defaults)
    BY <1>2 DEF ReadByLedger
  <2>2. /\ calls'[c].kind = "ledger" /\ calls[c].phase = "idle"
        /\ \A d \in Slots : d # c => calls'[d] = calls[d]
    BY <1>0, <1>k, <2>1, BeginEffect, DefaultsAreClean
  <2>3. calls[c].kind = "none" BY <1>0, <2>2 DEF Tidy, TidyCall
  <2>4. \A g \in Fields, d \in Slots : SavesField(d, g)' <=> SavesField(d, g)
    BY <2>2, <2>3 DEF SavesField
  <2> QED BY <1>0, <2>1, <2>4 DEF Sole
<1>3. ASSUME NEW c \in Slots, Work(c) PROVE Sole'
  BY <1>0, <1>3, FileStepTidy, SoleOfOnlyCall DEF Work
<1>4. ASSUME NEW c \in Slots, Failure(c) PROVE Sole'
  BY <1>0, <1>4, FailsTidy, SoleOfOnlyCall DEF Failure
<1>5. ASSUME NEW c \in Slots, Answered(c) PROVE Sole'
  <2>1. calls'[c].kind = "none" /\ \A d \in Slots : d # c => calls'[d] = calls[d]
    BY <1>0, <1>5, EndEffect DEF Answered
  <2>2. \A f \in Fields : sole'[f] = IF sole[f] = c THEN None ELSE sole[f]
    BY <1>5 DEF Answered, Acknowledged
  <2>3. \A f \in Fields : acked'[f] # None => acked[f] # None \/ sole[f] = c
    BY <1>5 DEF Answered, Acknowledged
  <2> QED BY <1>0, <2>1, <2>2, <2>3, SoleOfEnd
<1>6. ASSUME NEW c \in Slots, Rejected(c) PROVE Sole'
  <2>1. calls'[c].kind = "none" /\ \A d \in Slots : d # c => calls'[d] = calls[d]
    BY <1>0, <1>6, EndEffect DEF Rejected
  <2>2. \A f \in Fields : sole'[f] = IF sole[f] = c THEN None ELSE sole[f]
    BY <1>6 DEF Rejected
  <2>3. acked' = acked BY <1>6 DEF Rejected
  <2> QED BY <1>0, <2>1, <2>2, <2>3, SoleOfEnd
<1>7. CASE Crash
  <2>1. calls' = Starting /\ \A f \in Fields : sole'[f] = None
    BY <1>7 DEF Crash
  <2> QED BY <2>1, StartingFacts DEF Sole, SavesField
<1>8. CASE UNCHANGED vars BY <1>0, <1>8 DEF vars, Sole, SavesField
<1> QED BY <1>1, <1>2, <1>3, <1>4, <1>5, <1>6, <1>7, <1>8 DEF Next, Step

LEMMA NextStorageInv == StorageInv /\ [Next]_vars => StorageInv'
<1> SUFFICES ASSUME StorageInv, [Next]_vars PROVE StorageInv' OBVIOUS
<1>0. TypeOK /\ FileTypeOK /\ Tidy BY DEF StorageInv, TypeOK
<1>s. Sole' BY NextSole
<1>k. "save" \in Kinds \ {"none"} /\ "ledger" \in Kinds \ {"none"} BY DEF Kinds
<1>1. ASSUME NEW c \in Slots, NEW kind \in Kinds \ {"none"}, NEW partial \in Partial,
             Begin(c, kind, partial), kind = "save" => Clean(partial),
             sole' \in [Fields -> Slots \cup {None}],
             acked' \in [Fields -> Values \cup {None}]
      PROVE  StorageInv'
  <2>1. alone' = ((kind = "ledger" => alone) /\ \A d \in Slots : Idle(d))
    BY <1>0, <1>1, BeginEffect
  <2>2. alone' \in BOOLEAN BY <2>1
  <2>3. FileTypeOK' BY <1>0, <1>1, BeginEffect DEF FileTypeOK, Call
  <2>4. TypeOK' BY <1>0, <1>1, <2>2, <2>3, BeginEffect DEF TypeOK
  <2>5. Tidy' BY <1>0, <1>1, BeginEffect DEF Tidy, TidyCall
  <2>6. alone' => Single'
    <3>1. ASSUME alone', NEW d \in Slots, d # c PROVE Idle(d)'
      BY <1>0, <1>1, <2>1, <3>1, BeginEffect DEF Idle
    <3> QED BY <3>1 DEF Single
  <2>7. Calm' => Sound'
    <3>1. \A d \in Slots : Writing(d)' => d # c /\ Writing(d) /\ calls'[d] = calls[d]
      BY <1>0, <1>1, BeginEffect DEF Writing
    <3>2. ~ Writing(c) /\ ~ Writing(c)' BY <1>0, <1>1, BeginEffect DEF Writing
    <3>3. Shown' = Shown /\ file' = file BY <1>0, <1>1, BeginEffect DEF Shown
    <3>4. CASE \A d \in Slots : Idle(d) BY <3>1, <3>4 DEF Sound, Idle, Writing
    <3>5. CASE ~ disturbed'
      <4>1. Sound BY <1>0, <1>1, <3>5, BeginEffect DEF StorageInv
      <4> QED BY <3>1, <3>2, <3>3, <4>1 DEF Sound, Writing
    <3> QED BY <2>1, <3>4, <3>5 DEF Calm
  <2> QED BY <1>s, <2>4, <2>5, <2>6, <2>7 DEF StorageInv, Calm
<1>2. ASSUME NEW c \in Slots, ModifyStorage(c) PROVE StorageInv'
  <2>1. PICK f \in Fields, v \in Chosen :
             /\ [g \in {f} |-> v] \in Partial
             /\ Clean([g \in {f} |-> v])
             /\ Begin(c, "save", [g \in {f} |-> v])
             /\ sole' = [sole EXCEPT ![f] = IF NoSaveOf(f) THEN c ELSE None]
             /\ acked' = [acked EXCEPT ![f] = None]
    BY <1>0, <1>2, ModifyStorageEffect
  <2>2. sole' \in [Fields -> Slots \cup {None}] BY <1>0, <2>1 DEF TypeOK
  <2>3. acked' \in [Fields -> Values \cup {None}] BY <1>0, <2>1 DEF TypeOK
  <2> QED BY <1>1, <1>k, <2>1, <2>2, <2>3
<1>3. ASSUME NEW c \in Slots, ReadByLedger(c) PROVE StorageInv'
  <2>1. UNCHANGED <<sole, acked>> /\ Begin(c, "ledger", Defaults)
    BY <1>3 DEF ReadByLedger
  <2> QED BY <1>0, <1>1, <1>k, <2>1, DefaultsAreClean DEF TypeOK
<1>4. ASSUME NEW c \in Slots, Work(c) PROVE StorageInv'
  <2>1. FileStep(c) /\ UNCHANGED <<cache, begun, crashes, sole, acked, alone>>
    BY <1>4 DEF Work
  <2>2. FileTypeOK' /\ Tidy' /\ OnlyCall(c) BY <1>0, <2>1, FileStepTidy
  <2>3. TypeOK' BY <1>0, <2>1, <2>2 DEF TypeOK
  <2>4. ~ Idle(c) BY <2>1 DEF FileStep, Check, Read, Open, Fill, Idle
  <2>5. alone' => Single' BY <2>1, <2>2, <2>4 DEF StorageInv, Single, Idle, OnlyCall
  <2>6. Calm' => Sound' BY <2>1, FileStepSound
  <2> QED BY <1>s, <2>2, <2>3, <2>5, <2>6 DEF StorageInv, Calm
<1>5. ASSUME NEW c \in Slots, Failure(c) PROVE StorageInv'
  <2>1. Fails(c) /\ alone' = FALSE /\ UNCHANGED <<cache, begun, crashes, sole, acked>>
    BY <1>5 DEF Failure
  <2>2. FileTypeOK' /\ Tidy' BY <1>0, <2>1, FailsTidy
  <2>3. alone' \in BOOLEAN BY <2>1
  <2>4. TypeOK' BY <1>0, <2>1, <2>2, <2>3 DEF TypeOK
  <2>5. ~ disturbed' => Sound' BY <2>1, FailsSound
  <2> QED BY <1>s, <2>1, <2>2, <2>4, <2>5 DEF StorageInv
<1>6. ASSUME NEW c \in Slots, calls' = [calls EXCEPT ![c] = NoCall],
             calls[c].phase \in {"answered", "rejected"},
             UNCHANGED <<file, failures, disturbed, begun, crashes, alone>>,
             cache' \in Content \cup {None},
             sole' \in [Fields -> Slots \cup {None}],
             acked' \in [Fields -> Values \cup {None}]
      PROVE  StorageInv'
  <2>1. /\ calls' \in [Slots -> Call]
        /\ calls'[c].phase = "idle" /\ calls'[c].kind = "none"
        /\ \A d \in Slots : d # c => calls'[d] = calls[d]
    BY <1>0, <1>6, EndEffect
  <2>2. FileTypeOK' BY <1>0, <1>6, <2>1 DEF FileTypeOK, Call
  <2>3. TypeOK' BY <1>0, <1>6, <2>2 DEF TypeOK
  <2>4. Tidy' BY <1>0, <2>1 DEF Tidy, TidyCall
  <2>5. alone' => Single' BY <1>6, <2>1 DEF StorageInv, Single, Idle
  <2>6. Calm' => Sound'
    <3>1. Shown' = Shown BY <1>6 DEF Shown
    <3> QED BY <1>6, <2>1, <3>1 DEF StorageInv, Calm, Sound, Writing
  <2> QED BY <1>s, <2>3, <2>4, <2>5, <2>6 DEF StorageInv, Calm
<1>7. ASSUME NEW c \in Slots, Answered(c) PROVE StorageInv'
  <2>1. calls[c].data \in Content /\ calls[c].partial \in Partial
    BY <1>0 DEF FileTypeOK
  <2>2. cache' \in Content \cup {None} BY <1>0, <1>7, <2>1 DEF Answered, TypeOK
  <2>3. sole' \in [Fields -> Slots \cup {None}]
    BY <1>0, <1>7 DEF Answered, Acknowledged, TypeOK
  <2>4. acked' \in [Fields -> Values \cup {None}]
    <3>1. acked' = [f \in Fields |->
                      IF calls[c].kind = "save" /\ sole[f] = c
                      THEN calls[c].partial[f] ELSE acked[f]]
      BY <1>7 DEF Answered, Acknowledged
    <3>2. ASSUME NEW f \in Fields, sole[f] = c PROVE calls[c].partial[f] \in Values
      <4>1. f \in DOMAIN calls[c].partial
        BY <3>2, StartAssumption DEF StorageInv, Sole, SavesField
      <4> QED BY <2>1, <4>1, PartialOfType
    <3> QED BY <1>0, <3>1, <3>2 DEF TypeOK
  <2> QED BY <1>6, <1>7, <2>2, <2>3, <2>4 DEF Answered
<1>8. ASSUME NEW c \in Slots, Rejected(c) PROVE StorageInv'
  <2>1. cache' \in Content \cup {None} BY <1>0, <1>8 DEF Rejected, TypeOK
  <2>2. sole' \in [Fields -> Slots \cup {None}] BY <1>0, <1>8 DEF Rejected, TypeOK
  <2> QED BY <1>0, <1>6, <1>8, <2>1, <2>2 DEF Rejected, TypeOK
<1>9. CASE Crash
  <2>1. /\ calls' = Starting /\ file' = file /\ cache' = None /\ alone' = TRUE
        /\ disturbed' = (disturbed \/ Filling # {})
        /\ sole' = [f \in Fields |-> None] /\ crashes' = crashes + 1
        /\ UNCHANGED <<failures, begun, acked>>
    BY <1>9 DEF Crash, Dies
  <2>2. disturbed' \in BOOLEAN /\ alone' \in BOOLEAN BY <2>1
  <2>3. FileTypeOK' BY <1>0, <2>1, <2>2, StartingFacts DEF FileTypeOK, Call
  <2>4. sole' \in [Fields -> Slots \cup {None}] BY <2>1
  <2>5. TypeOK' BY <1>0, <2>1, <2>2, <2>3, <2>4 DEF TypeOK
  <2>6. Tidy' BY <2>1, StartingFacts DEF Tidy, TidyCall
  <2>7. Single' BY <2>1, StartingFacts DEF Single, Idle
  <2>8. Sound' BY <2>1, StartingFacts DEF Sound
  <2> QED BY <1>s, <2>5, <2>6, <2>7, <2>8 DEF StorageInv
<1>10. CASE UNCHANGED vars
  <2>1. UNCHANGED <<file, calls, failures, disturbed, cache, begun, crashes, sole,
                    acked, alone>>
    BY <1>10 DEF vars
  <2>2. TypeOK' BY <1>0, <2>1 DEF TypeOK, FileTypeOK
  <2>3. Tidy' BY <1>0, <2>1 DEF Tidy
  <2>4. alone' => Single' BY <2>1 DEF StorageInv, Single, Idle
  <2>5. alone' \/ ~ disturbed' => Sound' BY <2>1 DEF StorageInv, Sound, Writing, Shown
  <2> QED BY <1>s, <2>2, <2>3, <2>4, <2>5 DEF StorageInv
<1> QED BY <1>2, <1>3, <1>4, <1>5, <1>7, <1>8, <1>9, <1>10 DEF Next, Step

LEMMA StorageAlways == Spec => []StorageInv
BY InitStorageInv, NextStorageInv, PTL DEF Spec

(* The type invariant, for any fields, values, number of calls in flight   *)
(* and of failures and restarts.                                           *)
THEOREM TypeCorrect == Spec => []TypeOK
BY StorageAlways, PTL DEF StorageInv

-----------------------------------------------------------------------------
(* What an answered save wrote is kept                                     *)

(* The write of the save c has begun, and with it its effect.              *)
Taken(c) ==
    /\ calls[c].kind = "save"
    /\ \/ calls[c].phase = "answered"
       \/ calls[c].phase = "filling" /\ calls[c].goal = "save"

Kept ==
    ~ disturbed =>
        \A f \in Fields :
            /\ acked[f] # None => Reg[f] = acked[f]
            /\ \A c \in Slots :
                Taken(c) /\ sole[f] = c => Reg[f] = calls[c].partial[f]

(* Only the opening of the file begins the write of a save.                *)
LEMMA TakenByOpen ==
    ASSUME FileTypeOK, NEW c \in Slots, FileStep(c), Taken(c)'
    PROVE  Taken(c) \/ (calls[c].phase = "opening" /\ calls[c].goal = "save")
<1>1. CASE Check(c) BY <1>1, CheckEffect DEF Taken, Due
<1>2. CASE Read(c) BY <1>2, ReadEffect DEF Taken, Due, Has, OnlyCall
<1>3. CASE Open(c) BY <1>3, OpenEffect DEF Taken
<1>4. CASE Fill(c) BY <1>4, FillEffect DEF Taken, Due, Has, OnlyCall
<1> QED BY <1>1, <1>2, <1>3, <1>4 DEF FileStep

RegOK == Reg \in Content /\ Pending \in [Slots -> Partial \cup {None}]

LEMMA RegTyped == TypeOK => RegOK
<1> SUFFICES ASSUME TypeOK
             PROVE  Reg \in Content /\ Pending \in [Slots -> Partial \cup {None}]
  BY DEF RegOK
<1>1. FileTypeOK BY DEF TypeOK
<1>2. Filling = {} => Reg \in Content BY <1>1, ShownIsClean DEF Reg
<1>3. ASSUME Filling # {} PROVE Reg \in Content
  <2> DEFINE d == CHOOSE c \in Filling : TRUE
  <2>1. d \in Filling BY <1>3
  <2>2. Reg = calls[d].data BY <1>3 DEF Reg
  <2> HIDE DEF d
  <2>3. calls[d].data \in Content BY <1>1, <2>1 DEF FileTypeOK, Filling
  <2> QED BY <2>2, <2>3
<1>4. Pending \in [Slots -> Partial \cup {None}] BY <1>1 DEF Pending, FileTypeOK
<1> QED BY <1>2, <1>3, <1>4

(* Kept does not see a step that changes no register, no history and begins *)
(* no write.                                                                *)
LEMMA KeptOfStep ==
    ASSUME Kept, Reg' = Reg, ~ disturbed' => ~ disturbed,
           \A f \in Fields : acked'[f] # None =>
                acked'[f] = acked[f] \/ (~ disturbed' => Reg[f] = acked'[f]),
           \A f \in Fields, c \in Slots : ~ disturbed' /\ Taken(c)' /\ sole'[f] = c =>
                Taken(c) /\ sole[f] = c /\ calls'[c].partial = calls[c].partial
    PROVE  Kept'
BY DEF Kept

LEMMA NextKept == StorageInv /\ Kept /\ [Next]_vars => Kept'
<1> SUFFICES ASSUME StorageInv, Kept, [Next]_vars PROVE Kept' OBVIOUS
<1>0. TypeOK /\ FileTypeOK /\ Tidy /\ Sole BY DEF StorageInv, TypeOK
<1>k. "save" \in Kinds \ {"none"} /\ "ledger" \in Kinds \ {"none"} BY DEF Kinds
<1>1. ASSUME NEW c \in Slots, ModifyStorage(c) PROVE Kept'
  <2>1. PICK f \in Fields, v \in Chosen :
             /\ [g \in {f} |-> v] \in Partial
             /\ Clean([g \in {f} |-> v])
             /\ Begin(c, "save", [g \in {f} |-> v])
             /\ sole' = [sole EXCEPT ![f] = IF NoSaveOf(f) THEN c ELSE None]
             /\ acked' = [acked EXCEPT ![f] = None]
    BY <1>0, <1>1, ModifyStorageEffect
  <2>2. /\ calls'[c].phase = "checking" /\ Reg' = Reg /\ disturbed' = disturbed
        /\ \A d \in Slots : d # c => calls'[d] = calls[d]
    BY <1>0, <1>k, <2>1, BeginEffect
  <2>3. \A g \in Fields : acked'[g] # None => acked'[g] = acked[g]
    BY <1>0, <2>1 DEF TypeOK
  <2>4. ASSUME NEW g \in Fields, NEW d \in Slots, Taken(d)', sole'[g] = d
        PROVE  Taken(d) /\ sole[g] = d /\ calls'[d].partial = calls[d].partial
    <3>1. d # c BY <2>2, <2>4 DEF Taken
    <3>2. Taken(d) /\ calls'[d] = calls[d] BY <2>2, <2>4, <3>1 DEF Taken
    <3>3. sole[g] = d BY <1>0, <2>1, <2>4, <3>1, StartAssumption DEF TypeOK
    <3> QED BY <3>2, <3>3
  <2> QED BY <2>2, <2>3, <2>4, KeptOfStep
<1>2. ASSUME NEW c \in Slots, ReadByLedger(c) PROVE Kept'
  <2>1. UNCHANGED <<sole, acked>> /\ Begin(c, "ledger", Defaults)
    BY <1>2 DEF ReadByLedger
  <2>2. /\ calls'[c].phase = "checking" /\ Reg' = Reg /\ disturbed' = disturbed
        /\ \A d \in Slots : d # c => calls'[d] = calls[d]
    BY <1>0, <1>k, <2>1, BeginEffect, DefaultsAreClean
  <2>3. \A d \in Slots : Taken(d)' => Taken(d) /\ calls'[d] = calls[d]
    BY <2>2 DEF Taken
  <2> QED BY <2>1, <2>2, <2>3, KeptOfStep
<1>3. ASSUME NEW c \in Slots, Work(c), ~ disturbed' PROVE Kept'
  <2>1. FileStep(c) /\ UNCHANGED <<cache, begun, crashes, sole, acked, alone>>
    BY <1>3 DEF Work
  <2>a. ~ disturbed BY <1>3, <2>1 DEF FileStep, Check, Read, Open, Fill
  <2>2. OnlyCall(c) /\ ~ disturbed BY <1>0, <2>1, <2>a, FileStepTidy
  <2>3. IF calls[c].phase = "opening" /\ calls[c].goal = "save"
        THEN Reg' = Over(calls[c].partial, Reg) ELSE Reg' = Reg
    BY <1>3, <2>1, FileStepSound DEF Calm
  <2>4. CASE calls[c].phase = "opening" /\ calls[c].goal = "save"
    <3>1. calls[c].kind = "save" BY <1>0, <2>4 DEF Tidy, TidyCall
    <3>2. \A f \in Fields : Reg'[f] = IF SavesField(c, f) THEN calls[c].partial[f] ELSE Reg[f]
      BY <2>3, <2>4, <3>1 DEF Over, SavesField
    <3>3. SUFFICES ASSUME NEW f \in Fields
                   PROVE  /\ acked[f] # None => Reg'[f] = acked[f]
                          /\ \A d \in Slots : Taken(d)' /\ sole[f] = d =>
                                Reg'[f] = calls'[d].partial[f]
      BY <2>1 DEF Kept
    <3>4. acked[f] # None => Reg'[f] = acked[f]
      BY <1>0, <2>2, <3>2 DEF Kept, Sole
    <3>5. ASSUME NEW d \in Slots, Taken(d)', sole[f] = d
          PROVE  Reg'[f] = calls'[d].partial[f]
      <4>1. sole[f] # None BY <3>5, StartAssumption
      <4>2. CASE d = c BY <1>0, <2>2, <3>2, <3>5, <4>1, <4>2 DEF Sole, OnlyCall
      <4>3. CASE d # c
        <5>1. ~ SavesField(c, f) BY <1>0, <3>5, <4>1, <4>3 DEF Sole
        <5>2. calls'[d] = calls[d] /\ Taken(d) BY <2>2, <3>5, <4>3 DEF OnlyCall, Taken
        <5> QED BY <2>2, <3>2, <3>5, <5>1, <5>2 DEF Kept
      <4> QED BY <4>2, <4>3
    <3> QED BY <3>4, <3>5
  <2>5. CASE ~ (calls[c].phase = "opening" /\ calls[c].goal = "save")
    <3>1. \A d \in Slots : Taken(d)' =>
              Taken(d) /\ calls'[d].partial = calls[d].partial
      BY <1>0, <2>1, <2>2, <2>5, TakenByOpen DEF OnlyCall, Taken
    <3> QED BY <2>1, <2>2, <2>3, <2>5, <3>1, KeptOfStep
  <2> QED BY <2>4, <2>5
<1>4. ASSUME NEW c \in Slots, Failure(c), ~ disturbed' PROVE Kept'
  <2>1. Fails(c) /\ UNCHANGED <<sole, acked>> BY <1>4 DEF Failure
  <2>2. OnlyCall(c) /\ ~ disturbed /\ (calls[c].kind = "save" => calls'[c].phase = "rejected")
    BY <1>0, <1>4, <2>1, FailEffect
  <2>3. Reg' = Reg BY <1>4, <2>1, FailsSound
  <2>4. \A d \in Slots : Taken(d)' => Taken(d) /\ calls'[d] = calls[d]
    BY <2>2 DEF OnlyCall, Taken
  <2> QED BY <2>1, <2>2, <2>3, <2>4, KeptOfStep
<1>5. ASSUME NEW c \in Slots, calls' = [calls EXCEPT ![c] = NoCall],
             calls[c].phase \in {"answered", "rejected"},
             UNCHANGED <<file, disturbed>>,
             \A f \in Fields : sole'[f] = IF sole[f] = c THEN None ELSE sole[f],
             \A f \in Fields : acked'[f] # None =>
                acked'[f] = acked[f] \/ (~ disturbed' => Reg[f] = acked'[f])
      PROVE  Kept'
  <2>1. /\ calls'[c].kind = "none" /\ Reg' = Reg
        /\ \A d \in Slots : d # c => calls'[d] = calls[d]
    BY <1>0, <1>5, EndEffect
  <2>2. \A d \in Slots : Taken(d)' => Taken(d) /\ calls'[d] = calls[d]
    BY <2>1 DEF Taken
  <2>3. \A f \in Fields, d \in Slots : sole'[f] = d => sole[f] = d
    BY <1>5, StartAssumption
  <2> QED BY <1>5, <2>1, <2>2, <2>3, KeptOfStep
<1>6. ASSUME NEW c \in Slots, Answered(c) PROVE Kept'
  <2>1. \A f \in Fields : sole'[f] = IF sole[f] = c THEN None ELSE sole[f]
    BY <1>6 DEF Answered, Acknowledged
  <2>2. ASSUME NEW f \in Fields
        PROVE  acked'[f] = acked[f] \/ (~ disturbed' => Reg[f] = acked'[f])
    <3>1. acked'[f] = IF calls[c].kind = "save" /\ sole[f] = c
                      THEN calls[c].partial[f] ELSE acked[f]
      BY <1>6 DEF Answered, Acknowledged
    <3>2. calls[c].phase = "answered" /\ disturbed' = disturbed BY <1>6 DEF Answered
    <3> QED BY <3>1, <3>2 DEF Kept, Taken
  <2> QED BY <1>5, <1>6, <2>1, <2>2 DEF Answered
<1>7. ASSUME NEW c \in Slots, Rejected(c) PROVE Kept'
  <2>1. \A f \in Fields : sole'[f] = IF sole[f] = c THEN None ELSE sole[f]
    BY <1>7 DEF Rejected
  <2> QED BY <1>5, <1>7, <2>1 DEF Rejected
<1>8. ASSUME Crash, ~ disturbed' PROVE Kept'
  <2>1. /\ Reg' = Reg /\ ~ disturbed /\ acked' = acked
        /\ \A f \in Fields : sole'[f] = None
    BY <1>0, <1>8, CrashEffect DEF Crash
  <2> QED BY <2>1, StartAssumption, KeptOfStep
<1>9. CASE UNCHANGED vars
  <2>1. UNCHANGED <<file, calls, disturbed, sole, acked>> BY <1>9 DEF vars
  <2>2. Reg' = Reg BY <2>1 DEF Reg, Shown, Filling
  <2> QED BY <2>1, <2>2, KeptOfStep DEF Taken
<1>10. disturbed' => Kept' BY DEF Kept
<1> QED BY <1>1, <1>2, <1>3, <1>4, <1>6, <1>7, <1>8, <1>9, <1>10 DEF Next, Step

(* What a save was answered for stays in the file until the field is saved *)
(* again, through restarts and the saves of other fields, as long as the   *)
(* file is undisturbed (saveToFile, modifyStorage).                        *)
THEOREM AckedIsKeptAlways == Spec => []AckedIsKept
<1>1. Init => Kept
  <2> SUFFICES ASSUME Init PROVE Kept OBVIOUS
  <2>1. \A f \in Fields : acked[f] = None /\ sole[f] = None BY DEF Init
  <2> QED BY <2>1, StartAssumption DEF Kept
<1>2. Kept => AckedIsKept BY DEF Kept, AckedIsKept
<1> QED BY <1>1, <1>2, NextKept, StorageAlways, PTL DEF Spec

-----------------------------------------------------------------------------
(* The cache is the file                                                   *)

(* As long as the latest call is alone, its answer is what the file says,  *)
(* and so is the cache while it is not one that sets the cache.            *)
Cached ==
    alone =>
        /\ \A c \in Slots :
            /\ calls[c].phase # "rejected"
            /\ calls[c].phase = "answered" => calls[c].data = Reg
        /\ (\A c \in Slots : calls[c].kind \in {"none", "ledger"}) => cache = Reg

LEMMA NextCached == StorageInv /\ Cached /\ [Next]_vars => Cached'
<1> SUFFICES ASSUME StorageInv, Cached, [Next]_vars, alone' PROVE Cached'
  BY DEF Cached
<1>0. TypeOK /\ FileTypeOK /\ Tidy BY DEF StorageInv, TypeOK
<1>k. "save" \in Kinds \ {"none"} /\ "ledger" \in Kinds \ {"none"} BY DEF Kinds
<1>1. ASSUME NEW c \in Slots, NEW kind \in {"save", "ledger"}, NEW partial \in Partial,
             Begin(c, kind, partial)
      PROVE  Cached'
  <2>1. /\ calls'[c].phase = "checking" /\ calls'[c].kind = kind
        /\ Reg' = Reg /\ cache' = cache
        /\ kind = "ledger" => alone
        /\ \A d \in Slots : Idle(d)
        /\ \A d \in Slots : d # c => calls'[d] = calls[d]
    BY <1>0, <1>1, <1>k, BeginEffect
  <2>2. \A d \in Slots : calls[d].kind = "none" BY <1>0, <2>1 DEF Idle, Tidy, TidyCall
  <2>3. \A d \in Slots : calls'[d].phase \notin {"rejected", "answered"}
    BY <2>1 DEF Idle
  <2>4. CASE kind = "save" BY <2>1, <2>3, <2>4 DEF Cached
  <2>5. CASE kind = "ledger" BY <2>1, <2>2, <2>3, <2>5 DEF Cached
  <2> QED BY <2>4, <2>5
<1>2. ASSUME NEW c \in Slots, ModifyStorage(c) PROVE Cached'
  BY <1>0, <1>1, <1>2, ModifyStorageEffect
<1>3. ASSUME NEW c \in Slots, ReadByLedger(c) PROVE Cached'
  BY <1>1, <1>3, DefaultsAreClean DEF ReadByLedger
<1>4. ASSUME NEW c \in Slots, Work(c) PROVE Cached'
  <2>1. FileStep(c) /\ UNCHANGED <<cache, begun, crashes, sole, acked, alone>>
    BY <1>4 DEF Work
  <2>2. OnlyCall(c) BY <1>0, <2>1, FileStepTidy
  <2>3. alone /\ Single /\ Calm' BY <2>1 DEF StorageInv, Calm
  <2>4. ~ Idle(c) BY <2>1 DEF FileStep, Check, Read, Open, Fill, Idle
  <2>5. \A d \in Slots : d # c => calls'[d] = calls[d] /\ calls[d].phase = "idle"
    BY <2>2, <2>3, <2>4 DEF Single, Idle, OnlyCall
  <2>6. calls'[c].phase # "rejected"
    <3>1. CASE Check(c) BY <1>0, <3>1, CheckEffect DEF Due
    <3>2. CASE Read(c) BY <1>0, <3>2, ReadEffect DEF Due, Has
    <3>3. CASE Open(c) BY <1>0, <3>3, OpenEffect
    <3>4. CASE Fill(c) BY <1>0, <3>4, FillEffect DEF Due, Has
    <3> QED BY <2>1, <3>1, <3>2, <3>3, <3>4 DEF FileStep
  <2>7. calls'[c].phase = "answered" => calls'[c].data = Reg'
    <3>1. calls[c].phase = "reading" => Filling = {} BY <2>5 DEF Filling
    <3> QED BY <2>1, <2>3, <3>1, FileStepSound
  <2>8. calls'[c].kind \in {"none", "ledger"} => Reg' = Reg
    <3>1. calls'[c].kind = calls[c].kind BY <2>2 DEF OnlyCall
    <3>2. calls[c].phase = "opening" /\ calls[c].goal = "save" => calls[c].kind = "save"
      BY <1>0 DEF Tidy, TidyCall
    <3> QED BY <2>1, <2>3, <3>1, <3>2, FileStepSound
  <2>9. (\A d \in Slots : calls'[d].kind \in {"none", "ledger"}) =>
            \A d \in Slots : calls[d].kind \in {"none", "ledger"}
    BY <2>2 DEF OnlyCall
  <2> QED BY <2>1, <2>3, <2>5, <2>6, <2>7, <2>8, <2>9 DEF Cached
<1>5. ASSUME NEW c \in Slots, Failure(c) PROVE FALSE
  BY <1>5 DEF Failure
<1>6. ASSUME NEW c \in Slots, Answered(c) PROVE Cached'
  <2>1. /\ alone /\ Single /\ calls[c].phase = "answered"
        /\ calls' = [calls EXCEPT ![c] = NoCall] /\ file' = file
        /\ cache' = IF calls[c].kind = "ledger" THEN cache ELSE calls[c].data
    BY <1>6 DEF Answered, StorageInv
  <2>2. /\ calls'[c].phase = "idle" /\ Reg' = Reg
        /\ \A d \in Slots : d # c => calls'[d] = calls[d]
    BY <1>0, <2>1, EndEffect
  <2>3. \A d \in Slots : d # c => calls[d].phase = "idle" /\ calls[d].kind = "none"
    BY <1>0, <2>1 DEF Single, Idle, Tidy, TidyCall
  <2>4. calls[c].kind = "ledger" => cache = Reg BY <2>1, <2>3 DEF Cached
  <2>5. cache' = Reg' BY <2>1, <2>2, <2>4 DEF Cached
  <2>6. \A d \in Slots : calls'[d].phase = "idle" BY <2>2, <2>3
  <2> QED BY <2>5, <2>6 DEF Cached
<1>7. ASSUME NEW c \in Slots, Rejected(c) PROVE FALSE
  BY <1>7 DEF Rejected, Cached
<1>8. CASE Crash
  <2>1. calls' = Starting BY <1>8 DEF Crash
  <2>2. calls'[First].kind = "get" BY <2>1, StartAssumption, StartingFacts
  <2>3. \A c \in Slots : calls'[c].phase \notin {"rejected", "answered"}
    BY <2>1, StartingFacts
  <2> QED BY <2>2, <2>3, StartAssumption DEF Cached
<1>9. CASE UNCHANGED vars
  <2>1. UNCHANGED <<file, calls, cache, alone>> BY <1>9 DEF vars
  <2>2. Reg' = Reg BY <2>1 DEF Reg, Shown, Filling
  <2> QED BY <2>1, <2>2 DEF Cached
<1> QED BY <1>2, <1>3, <1>4, <1>5, <1>6, <1>7, <1>8, <1>9 DEF Next, Step

(* When every call has ended, the cache is what the file says if the       *)
(* latest call was alone and met no failure (modifyStorage, the get of the *)
(* start), whatever the calls before it did to each other.                 *)
THEOREM CacheIsFileAlways == Spec => []CacheIsFile
<1>1. Init => Cached
  <2> SUFFICES ASSUME Init PROVE Cached OBVIOUS
  <2>1. calls = Starting BY DEF Init
  <2>2. calls[First].kind = "get" BY <2>1, StartAssumption, StartingFacts
  <2>3. \A c \in Slots : calls[c].phase \notin {"rejected", "answered"}
    BY <2>1, StartingFacts
  <2> QED BY <2>2, <2>3, StartAssumption DEF Cached
<1>2. StorageInv /\ Cached => CacheIsFile
  <2> SUFFICES ASSUME StorageInv, Cached, alone, \A c \in Slots : Idle(c)
               PROVE  cache = Shown
    BY DEF CacheIsFile
  <2>1. \A c \in Slots : calls[c].kind = "none" BY DEF StorageInv, Tidy, TidyCall, Idle
  <2>2. Filling = {} BY DEF Filling, Idle
  <2> QED BY <2>1, <2>2 DEF Cached, Reg
<1> QED BY <1>1, <1>2, NextCached, StorageAlways, PTL DEF Spec

-----------------------------------------------------------------------------
(* The fields of the file are registers                                    *)

Unmade(c) == IF Unwritten(calls[c]) THEN calls[c].partial ELSE None

LEMMA PendingOfStep ==
    ASSUME NEW c \in Slots, \A d \in Slots : d # c => calls'[d] = calls[d]
    PROVE  Pending' = [Pending EXCEPT ![c] = Unmade(c)']
<1>1. Pending = [d \in Slots |-> Unmade(d)] /\ Pending' = [d \in Slots |-> Unmade(d)']
  BY DEF Pending, Unmade
<1>2. \A d \in Slots : d # c => Unmade(d)' = Unmade(d) BY DEF Unmade
<1> HIDE DEF Unmade
<1> QED BY <1>1, <1>2

LEMMA PendingOf == ASSUME NEW c \in Slots PROVE Pending[c] = Unmade(c)
BY DEF Pending, Unmade

(* A step that changes nothing the registers show.                         *)
LEMMA StutterOf ==
    ASSUME NEW c \in Slots, \A d \in Slots : d # c => calls'[d] = calls[d],
           Unmade(c)' = Unmade(c), Reg' = Reg, disturbed' = disturbed
    PROVE  UNCHANGED Registers!vars
<1>1. Pending' = [Pending EXCEPT ![c] = Pending[c]] BY PendingOfStep, PendingOf
<1>2. Pending' = Pending BY <1>1 DEF Pending
<1> QED BY <1>2 DEF Registers!vars

LEMMA WorkRefines ==
    ASSUME StorageInv, NEW c \in Slots, Work(c), ~ disturbed'
    PROVE  Registers!Save(c) \/ UNCHANGED Registers!vars
<1>0. FileTypeOK /\ Tidy /\ TidyCall(calls[c]) BY DEF StorageInv, TypeOK, Tidy
<1>1. FileStep(c) /\ UNCHANGED alone BY DEF Work
<1>2. ~ disturbed BY <1>1 DEF FileStep, Check, Read, Open, Fill
<1>3. disturbed' = disturbed BY <1>2, <1>0, <1>1, FileStepTidy DEF FileTypeOK
<1>4. /\ calls'[c].kind = calls[c].kind /\ calls'[c].partial = calls[c].partial
      /\ \A d \in Slots : d # c => calls'[d] = calls[d]
  BY <1>0, <1>1, FileStepTidy DEF OnlyCall
<1>5. IF calls[c].phase = "opening" /\ calls[c].goal = "save"
      THEN Reg' = Over(calls[c].partial, Reg) ELSE Reg' = Reg
  BY <1>1, FileStepSound DEF Calm
<1>6. CASE calls[c].phase = "opening" /\ calls[c].goal = "save"
  <2>1. calls[c].kind = "save" /\ calls[c].partial \in Partial
    BY <1>0, <1>6 DEF TidyCall, FileTypeOK
  <2>2. Pending[c] = calls[c].partial /\ Pending[c] # None
    BY <1>6, <2>1, PendingOf, StartAssumption DEF Unmade, Unwritten
  <2>3. Open(c) BY <1>1, <1>6 DEF FileStep, Check, Read, Fill
  <2>4. Unmade(c)' = None BY <1>0, <1>6, <2>3, OpenEffect DEF Unmade, Unwritten
  <2>5. Pending' = [Pending EXCEPT ![c] = None] BY <1>4, <2>4, PendingOfStep
  <2>6. Reg' = [f \in Fields |-> IF f \in DOMAIN Pending[c] THEN Pending[c][f] ELSE Reg[f]]
    BY <1>5, <1>6, <2>2 DEF Over
  <2> QED BY <1>3, <2>2, <2>5, <2>6 DEF Registers!Save
<1>7. CASE ~ (calls[c].phase = "opening" /\ calls[c].goal = "save")
  <2>1. Unmade(c)' = Unmade(c)
    <3>1. Unwritten(calls'[c]) <=> Unwritten(calls[c])
      <4>1. CASE Check(c) BY <1>0, <1>4, <4>1, CheckEffect DEF Due, Unwritten
      <4>2. CASE Read(c) BY <1>0, <1>4, <4>2, ReadEffect DEF Due, Has, Unwritten
      <4>3. CASE Open(c) BY <1>0, <1>4, <1>7, <4>3, OpenEffect DEF Unwritten
      <4>4. CASE Fill(c)
        BY <1>0, <1>4, <4>4, FillEffect DEF Due, Has, Unwritten, TidyCall
      <4> QED BY <1>1, <4>1, <4>2, <4>3, <4>4 DEF FileStep
    <3> QED BY <1>4, <3>1 DEF Unmade
  <2> QED BY <1>3, <1>4, <1>5, <1>7, <2>1, StutterOf
<1> QED BY <1>6, <1>7

LEMMA FailureRefines ==
    ASSUME StorageInv, NEW c \in Slots, Failure(c), ~ disturbed'
    PROVE  Registers!Refuse(c) \/ UNCHANGED Registers!vars
<1>0. FileTypeOK /\ TidyCall(calls[c]) BY DEF StorageInv, TypeOK, Tidy
<1>1. Fails(c) BY DEF Failure
<1>2. /\ OnlyCall(c) /\ ~ disturbed /\ disturbed' \in BOOLEAN
      /\ calls[c].phase \in {"reading", "opening"}
      /\ calls[c].kind = "save" => calls'[c].phase = "rejected"
  BY <1>0, <1>1, FailEffect
<1>3. disturbed' = disturbed BY <1>0, <1>2 DEF FileTypeOK
<1>4. Reg' = Reg BY <1>1, FailsSound
<1>5. CASE calls[c].kind = "save"
  <2>1. Pending[c] = calls[c].partial /\ Pending[c] # None
    BY <1>0, <1>2, <1>5, PendingOf, StartAssumption DEF Unmade, Unwritten, FileTypeOK
  <2>2. Pending' = [Pending EXCEPT ![c] = None]
    BY <1>2, <1>5, PendingOfStep DEF Unmade, Unwritten, OnlyCall
  <2> QED BY <1>3, <1>4, <2>1, <2>2 DEF Registers!Refuse
<1>6. CASE calls[c].kind # "save"
  <2>1. Unmade(c)' = Unmade(c) BY <1>2, <1>6 DEF Unmade, Unwritten, OnlyCall
  <2> QED BY <1>2, <1>3, <1>4, <2>1, StutterOf DEF OnlyCall
<1> QED BY <1>5, <1>6

LEMMA ModifyRefines ==
    ASSUME StorageInv, NEW c \in Slots, ModifyStorage(c)
    PROVE  Registers!Request(c)
<1>0. TypeOK /\ Tidy BY DEF StorageInv
<1>k. "save" \in Kinds \ {"none"} BY DEF Kinds
<1>1. PICK f \in Fields, v \in Chosen :
             /\ [g \in {f} |-> v] \in Partial
             /\ Clean([g \in {f} |-> v])
             /\ Begin(c, "save", [g \in {f} |-> v])
             /\ sole' = [sole EXCEPT ![f] = IF NoSaveOf(f) THEN c ELSE None]
             /\ acked' = [acked EXCEPT ![f] = None]
  BY <1>0, ModifyStorageEffect
<1> DEFINE partial == [g \in {f} |-> v]
<1>p. partial \in Partial /\ Begin(c, "save", partial) BY <1>1
<1> HIDE DEF partial
<1>2. /\ calls'[c].kind = "save" /\ calls'[c].partial = partial
      /\ calls'[c].phase = "checking" /\ calls[c].phase = "idle"
      /\ Reg' = Reg /\ disturbed' = disturbed
      /\ \A d \in Slots : d # c => calls'[d] = calls[d]
  BY <1>0, <1>k, <1>p, BeginEffect
<1>3. Pending[c] = None
  BY <1>0, <1>2, PendingOf DEF Tidy, TidyCall, Unmade, Unwritten
<1>4. Pending' = [Pending EXCEPT ![c] = partial]
  BY <1>2, PendingOfStep DEF Unmade, Unwritten
<1>5. partial \in Registers!Partial BY <1>p DEF Registers!Partial, Partial
<1> QED BY <1>2, <1>3, <1>4, <1>5 DEF Registers!Request

LEMMA NextRefines ==
    StorageInv /\ StorageInv' /\ [Next]_vars => [Registers!Next]_Registers!vars
<1> SUFFICES ASSUME StorageInv, StorageInv', [Next]_vars
             PROVE  [Registers!Next]_Registers!vars
  OBVIOUS
<1>0. TypeOK /\ FileTypeOK /\ Tidy BY DEF StorageInv, TypeOK
<1>k. "ledger" \in Kinds \ {"none"} BY DEF Kinds
<1>1. CASE disturbed'
  <2>1. Reg' \in Content /\ Pending' \in [Slots -> Partial \cup {None}]
    <3>1. TypeOK' BY DEF StorageInv
    <3>2. RegOK' BY <3>1, RegTyped, PTL
    <3> QED BY <3>2 DEF RegOK
  <2>2. Registers!Partial = Partial BY DEF Registers!Partial, Partial
  <2> QED BY <1>1, <2>1, <2>2 DEF Registers!Next, Registers!Distrust, Content
<1>2. ASSUME ~ disturbed', NEW c \in Slots, ModifyStorage(c)
      PROVE  [Registers!Next]_Registers!vars
  BY <1>2, ModifyRefines DEF Registers!Next
<1>3. ASSUME ~ disturbed', NEW c \in Slots, ReadByLedger(c)
      PROVE  UNCHANGED Registers!vars
  <2>1. /\ calls'[c].kind = "ledger" /\ calls[c].phase = "idle"
        /\ Reg' = Reg /\ disturbed' = disturbed
        /\ \A d \in Slots : d # c => calls'[d] = calls[d]
    BY <1>0, <1>3, <1>k, BeginEffect, DefaultsAreClean DEF ReadByLedger
  <2>2. Unmade(c)' = Unmade(c) BY <2>1 DEF Unmade, Unwritten
  <2> QED BY <2>1, <2>2, StutterOf
<1>4. ASSUME ~ disturbed', NEW c \in Slots, Work(c)
      PROVE  [Registers!Next]_Registers!vars
  BY <1>4, WorkRefines DEF Registers!Next
<1>5. ASSUME ~ disturbed', NEW c \in Slots, Failure(c)
      PROVE  [Registers!Next]_Registers!vars
  BY <1>5, FailureRefines DEF Registers!Next
<1>6. ASSUME ~ disturbed', NEW c \in Slots, Answered(c) \/ Rejected(c)
      PROVE  UNCHANGED Registers!vars
  <2>1. /\ calls' = [calls EXCEPT ![c] = NoCall]
        /\ calls[c].phase \in {"answered", "rejected"}
        /\ UNCHANGED <<file, disturbed>>
    BY <1>6 DEF Answered, Rejected
  <2>2. /\ calls'[c].kind = "none" /\ Reg' = Reg
        /\ \A d \in Slots : d # c => calls'[d] = calls[d]
    BY <1>0, <2>1, EndEffect
  <2>3. Unmade(c)' = Unmade(c) BY <2>1, <2>2 DEF Unmade, Unwritten
  <2> QED BY <2>1, <2>2, <2>3, StutterOf
<1>7. ASSUME ~ disturbed', Crash PROVE Registers!Restart
  <2>1. /\ calls' = Starting /\ Reg' = Reg /\ ~ disturbed
    BY <1>0, <1>7, CrashEffect
  <2>2. disturbed' = disturbed BY <1>0, <1>7, <2>1, CrashEffect DEF FileTypeOK
  <2>3. \A c \in Slots : calls'[c].kind # "save" BY <2>1, StartingFacts
  <2>4. Pending' = [c \in Slots |-> None] BY <2>3 DEF Pending, Unwritten
  <2> QED BY <2>1, <2>2, <2>4 DEF Registers!Restart, Registers!NonePending
<1>8. CASE UNCHANGED vars
  <2>1. UNCHANGED <<file, calls, disturbed>> BY <1>8 DEF vars
  <2>2. Reg' = Reg BY <2>1 DEF Reg, Shown, Filling
  <2>3. Pending' = Pending BY <2>1 DEF Pending
  <2> QED BY <2>1, <2>2, <2>3 DEF Registers!vars
<1> QED
  BY <1>1, <1>2, <1>3, <1>4, <1>5, <1>6, <1>7, <1>8
  DEF Next, Step, Registers!Next

(* A save takes effect on its own fields, at once, at most once and before *)
(* it is answered; nothing else changes a field (saveToFile, getFileContent *)
(* and the migration of retired URLs), as long as the file is undisturbed. *)
THEOREM RegistersImplemented == Spec => ImplementsRegisters
<1>1. Init => Registers!Init
  <2> SUFFICES ASSUME Init PROVE Registers!Init OBVIOUS
  <2>1. StorageInv BY InitStorageInv
  <2>2. Reg \in Content BY <2>1, RegTyped DEF StorageInv, RegOK
  <2>3. calls = Starting /\ disturbed = FALSE BY DEF Init, FileInit
  <2>4. \A c \in Slots : calls[c].kind # "save" BY <2>3, StartingFacts
  <2>5. Pending = [c \in Slots |-> None] BY <2>4 DEF Pending, Unwritten
  <2> QED BY <2>2, <2>3, <2>5 DEF Registers!Init, Registers!NonePending, Content
<1> QED
  BY <1>1, NextRefines, StorageAlways, PTL DEF Spec, ImplementsRegisters, Registers!Spec

===============================================================================
