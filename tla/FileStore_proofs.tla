---------------------------- MODULE FileStore_proofs ----------------------------
(***************************************************************************)
(* What the operations of FileStore do, for any fields, values and calls:  *)
(* to the contents, to the call they belong to and to no other, and to the *)
(* file.  The proofs of the two clients of the file use these facts.       *)
(***************************************************************************)
EXTENDS FileStore, TLAPS

Clean(content) == \A f \in DOMAIN content : content[f] # Retired

-----------------------------------------------------------------------------
(* Contents                                                                *)

LEMMA PartialOfType ==
    ASSUME NEW partial \in Partial
    PROVE  /\ DOMAIN partial \subseteq Fields
           /\ \A f \in DOMAIN partial : partial[f] \in Values
BY DEF Partial

LEMMA ContentIsPartial == Content \subseteq Partial
BY DEF Content, Partial

LEMMA DefaultsAreClean == Defaults \in Content /\ Clean(Defaults) /\ Defaults \in Partial
<1>1. Defaults \in Content BY ValuesAssumption DEF Content
<1> QED BY <1>1, ContentIsPartial, ValuesAssumption DEF Clean, Content

LEMMA OverIsContent ==
    ASSUME NEW partial \in Partial, NEW base \in Content
    PROVE  /\ Over(partial, base) \in Content
           /\ \A f \in DOMAIN partial : Over(partial, base)[f] = partial[f]
           /\ Clean(partial) /\ Clean(base) => Clean(Over(partial, base))
<1>1. /\ DOMAIN partial \subseteq Fields
      /\ \A f \in DOMAIN partial : partial[f] \in Values
  BY PartialOfType
<1>2. Over(partial, base) \in Content BY <1>1 DEF Over, Content
<1>3. \A f \in DOMAIN partial : Over(partial, base)[f] = partial[f] BY <1>1 DEF Over
<1>4. Clean(partial) /\ Clean(base) => Clean(Over(partial, base))
  BY <1>1 DEF Clean, Over, Content
<1> QED BY <1>2, <1>3, <1>4

LEMMA MigratedIsClean ==
    ASSUME NEW content \in Content
    PROVE  /\ MigrateNineRealmsUrls(content) \in Content
           /\ Clean(MigrateNineRealmsUrls(content))
           /\ Clean(content) => MigrateNineRealmsUrls(content) = content
BY ValuesAssumption DEF Content, Clean, MigrateNineRealmsUrls

LEMMA ShownIsClean ==
    ASSUME FileTypeOK PROVE Shown \in Content /\ Clean(Shown)
<1>1. file.data \in Partial BY DEF FileTypeOK
<1>2. Over(file.data, Defaults) \in Content BY <1>1, OverIsContent, DefaultsAreClean
<1> QED BY <1>2, MigratedIsClean, DefaultsAreClean DEF Shown

(* What was written is what the file shows.                                *)
LEMMA ShownOfWritten ==
    ASSUME NEW content \in Content, Clean(content),
           file' = [form |-> "json", data |-> content]
    PROVE  Shown' = content
<1>1. Over(content, Defaults) = content BY DEF Over, Content
<1>2. MigrateNineRealmsUrls(content) = content BY MigratedIsClean
<1> QED BY <1>1, <1>2 DEF Shown

-----------------------------------------------------------------------------
(* Calls                                                                   *)

Call == [kind : Kinds, phase : Phases, goal : Goals, partial : Partial, data : Content]

LEMMA ToWriteFacts ==
    ASSUME FileTypeOK, NEW c \in Slots, NEW goal \in Goals, NEW content \in Content
    PROVE  /\ ToWrite(c, goal, content) \in Call
           /\ ToWrite(c, goal, content).phase = "opening"
           /\ ToWrite(c, goal, content).kind = calls[c].kind
           /\ ToWrite(c, goal, content).goal = goal
           /\ ToWrite(c, goal, content).partial = calls[c].partial
           /\ ToWrite(c, goal, content).data = content
<1>1. calls[c] \in Call BY DEF FileTypeOK, Call
<1>2. "opening" \in Phases BY DEF Phases
<1> QED BY <1>1, <1>2 DEF ToWrite, Call

LEMMA ObtainedFacts ==
    ASSUME FileTypeOK, NEW c \in Slots, NEW content \in Content
    PROVE  /\ Obtained(c, content) \in Call
           /\ Obtained(c, content).kind = calls[c].kind
           /\ Obtained(c, content).partial = calls[c].partial
           /\ calls[c].kind = "save" =>
                /\ Obtained(c, content).phase = "opening"
                /\ Obtained(c, content).goal = "save"
                /\ Obtained(c, content).data = Over(calls[c].partial, content)
           /\ calls[c].kind # "save" =>
                /\ Obtained(c, content).phase = "answered"
                /\ Obtained(c, content).data = content
<1>1. calls[c] \in Call /\ calls[c].partial \in Partial BY DEF FileTypeOK, Call
<1>2. Over(calls[c].partial, content) \in Content BY <1>1, OverIsContent
<1>3. "save" \in Goals /\ "answered" \in Phases BY DEF Goals, Phases
<1>4. CASE calls[c].kind = "save" BY <1>2, <1>3, <1>4, ToWriteFacts DEF Obtained
<1>5. CASE calls[c].kind # "save"
  <2>1. Obtained(c, content) = [calls[c] EXCEPT !.phase = "answered", !.data = content]
    BY <1>5 DEF Obtained
  <2> QED BY <1>1, <1>3, <1>5, <2>1 DEF Call
<1> QED BY <1>4, <1>5

LEMMA CallsOfType ==
    ASSUME FileTypeOK, NEW c \in Slots, NEW call \in Call,
           calls' = [calls EXCEPT ![c] = call]
    PROVE  /\ calls' \in [Slots -> Call]
           /\ calls'[c] = call
           /\ \A d \in Slots : d # c => calls'[d] = calls[d]
BY DEF FileTypeOK, Call

LEMMA AskFacts ==
    ASSUME NEW c, NEW kind \in Kinds, NEW partial \in Partial
    PROVE  /\ Ask(c, kind, partial) \in Call
           /\ Ask(c, kind, partial).kind = kind
           /\ Ask(c, kind, partial).phase = "checking"
           /\ Ask(c, kind, partial).partial = partial
<1>1. NoCall \in Call
  BY DefaultsAreClean DEF NoCall, Call, Kinds, Phases, Goals
<1>2. "checking" \in Phases BY DEF Phases
<1> QED BY <1>1, <1>2 DEF Ask, Call

LEMMA NoCallFacts ==
    NoCall \in Call /\ NoCall.phase = "idle" /\ NoCall.kind = "none"
BY DefaultsAreClean DEF NoCall, Call, Kinds, Phases, Goals

-----------------------------------------------------------------------------
(* What the operations do to their call, and that they touch no other.     *)

OnlyCall(c) ==
    /\ calls' \in [Slots -> Call]
    /\ calls'[c].kind = calls[c].kind
    /\ calls'[c].partial = calls[c].partial
    /\ \A d \in Slots : d # c => calls'[d] = calls[d]

(* A write is due: c is about to open the file.                            *)
Due(c, goal, content) ==
    /\ calls'[c].phase = "opening"
    /\ calls'[c].goal = goal
    /\ calls'[c].data = content

(* The content is there: the write of a save is due, or the answer.        *)
Has(c, content) ==
    IF calls[c].kind = "save" THEN Due(c, "save", Over(calls[c].partial, content))
    ELSE calls'[c].phase = "answered" /\ calls'[c].data = content

LEMMA ToWriteEffect ==
    ASSUME FileTypeOK, NEW c \in Slots, NEW goal \in Goals, NEW content \in Content,
           calls' = [calls EXCEPT ![c] = ToWrite(c, goal, content)]
    PROVE  OnlyCall(c) /\ Due(c, goal, content)
<1> DEFINE call == ToWrite(c, goal, content)
<1>1. /\ call \in Call /\ call.phase = "opening" /\ call.kind = calls[c].kind
      /\ call.goal = goal /\ call.partial = calls[c].partial /\ call.data = content
  BY ToWriteFacts
<1>2. calls' = [calls EXCEPT ![c] = call] OBVIOUS
<1> HIDE DEF call
<1>3. calls' \in [Slots -> Call] /\ calls'[c] = call
      /\ \A d \in Slots : d # c => calls'[d] = calls[d]
  BY <1>1, <1>2, CallsOfType
<1> QED BY <1>1, <1>3 DEF OnlyCall, Due

LEMMA ObtainedEffect ==
    ASSUME FileTypeOK, NEW c \in Slots, NEW content \in Content,
           calls' = [calls EXCEPT ![c] = Obtained(c, content)]
    PROVE  OnlyCall(c) /\ Has(c, content)
<1>1. Obtained(c, content) \in Call BY ObtainedFacts
<1>2. calls'[c] = Obtained(c, content) /\ OnlyCall(c)
  BY <1>1, ObtainedFacts, CallsOfType DEF OnlyCall
<1> QED BY <1>2, ObtainedFacts DEF Has, Due

LEMMA PhaseEffect ==
    ASSUME FileTypeOK, NEW c \in Slots, NEW phase \in Phases,
           calls' = [calls EXCEPT ![c] = [calls[c] EXCEPT !.phase = phase]]
    PROVE  /\ OnlyCall(c)
           /\ calls'[c].phase = phase
           /\ calls'[c].goal = calls[c].goal
           /\ calls'[c].data = calls[c].data
<1>1. calls[c] \in Call BY DEF FileTypeOK, Call
<1> DEFINE call == [calls[c] EXCEPT !.phase = phase]
<1>2. /\ call \in Call /\ call.phase = phase /\ call.goal = calls[c].goal
      /\ call.data = calls[c].data /\ call.kind = calls[c].kind
      /\ call.partial = calls[c].partial
  BY <1>1 DEF Call
<1> HIDE DEF call
<1>3. calls' = [calls EXCEPT ![c] = call] BY DEF call
<1> QED BY <1>2, <1>3, CallsOfType DEF OnlyCall

LEMMA CheckEffect ==
    ASSUME FileTypeOK, NEW c \in Slots, Check(c)
    PROVE  /\ OnlyCall(c)
           /\ \/ file.form = "absent" /\ Due(c, "create", Defaults)
              \/ calls'[c].phase = "reading"
           /\ calls[c].phase = "checking"
           /\ UNCHANGED <<file, failures, disturbed>>
<1>1. CASE file.form = "absent"
  <2>1. calls' = [calls EXCEPT ![c] = ToWrite(c, "create", Defaults)]
    BY <1>1 DEF Check
  <2>2. "create" \in Goals BY DEF Goals
  <2> QED BY <1>1, <2>1, <2>2, ToWriteEffect, DefaultsAreClean DEF Check
<1>2. CASE file.form # "absent"
  <2>1. calls' = [calls EXCEPT ![c] = [calls[c] EXCEPT !.phase = "reading"]]
    BY <1>2 DEF Check
  <2>2. "reading" \in Phases BY DEF Phases
  <2> QED BY <2>1, <2>2, PhaseEffect DEF Check
<1> QED BY <1>1, <1>2

LEMMA ReadEffect ==
    ASSUME FileTypeOK, NEW c \in Slots, Read(c)
    PROVE  /\ OnlyCall(c)
           /\ \/ file.form = "json" /\ Due(c, "migrate", Shown)
              \/ Has(c, Shown)
           /\ calls[c].phase = "reading"
           /\ disturbed' = (disturbed \/ (calls[c].kind = "save" /\ Filling # {}))
           /\ UNCHANGED <<file, failures>>
<1>1. Shown \in Content BY ShownIsClean
<1>2. CASE file.form = "json" /\ Shown # Over(file.data, Defaults)
  <2>1. calls' = [calls EXCEPT ![c] = ToWrite(c, "migrate", Shown)]
    BY <1>2 DEF Read
  <2>2. "migrate" \in Goals BY DEF Goals
  <2> QED BY <1>1, <1>2, <2>1, <2>2, ToWriteEffect DEF Read
<1>3. CASE ~ (file.form = "json" /\ Shown # Over(file.data, Defaults))
  <2>1. calls' = [calls EXCEPT ![c] = Obtained(c, Shown)] BY <1>3 DEF Read
  <2> QED BY <1>1, <2>1, ObtainedEffect DEF Read
<1> QED BY <1>2, <1>3

LEMMA OpenEffect ==
    ASSUME FileTypeOK, NEW c \in Slots, Open(c)
    PROVE  /\ OnlyCall(c)
           /\ calls[c].phase = "opening"
           /\ calls'[c].phase = "filling"
           /\ calls'[c].goal = calls[c].goal
           /\ calls'[c].data = calls[c].data
           /\ file' = [form |-> "empty", data |-> Defaults]
           /\ disturbed' = (disturbed \/ \E d \in Slots \ {c} : Writing(d))
           /\ UNCHANGED failures
<1>1. calls' = [calls EXCEPT ![c] = [calls[c] EXCEPT !.phase = "filling"]] BY DEF Open
<1>2. "filling" \in Phases BY DEF Phases
<1> QED BY <1>1, <1>2, PhaseEffect DEF Open

LEMMA FillEffect ==
    ASSUME FileTypeOK, NEW c \in Slots, Fill(c)
    PROVE  /\ OnlyCall(c)
           /\ calls[c].phase = "filling"
           /\ \/ file' = [form |-> "json", data |-> calls[c].data]
              \/ file.form # "empty" /\ file' = [form |-> "garbage", data |-> Defaults]
           /\ IF calls[c].goal = "save"
              THEN calls'[c].phase = "answered" /\ calls'[c].data = calls[c].data
              ELSE Has(c, calls[c].data)
           /\ UNCHANGED <<failures, disturbed>>
<1>1. calls[c].data \in Content BY DEF FileTypeOK
<1>2. CASE calls[c].goal = "save"
  <2>1. calls' = [calls EXCEPT ![c] = [calls[c] EXCEPT !.phase = "answered"]]
    BY <1>2 DEF Fill
  <2>2. "answered" \in Phases BY DEF Phases
  <2> QED BY <1>2, <2>1, <2>2, PhaseEffect DEF Fill
<1>3. CASE calls[c].goal # "save"
  <2>1. calls' = [calls EXCEPT ![c] = Obtained(c, calls[c].data)] BY <1>3 DEF Fill
  <2> QED BY <1>1, <1>3, <2>1, ObtainedEffect DEF Fill
<1> QED BY <1>2, <1>3

(* What a failed operation leaves to the call, and when it disturbs.       *)
LEMMA FailEffect ==
    ASSUME FileTypeOK, NEW c \in Slots, Fails(c)
    PROVE  /\ OnlyCall(c)
           /\ ~ Idle(c) /\ calls[c].phase \notin {"answered", "rejected"}
           /\ \/ Due(c, "create", Defaults)
              \/ Has(c, Defaults)
              \/ calls'[c].phase = "rejected"
           /\ ~ disturbed' =>
                /\ ~ disturbed
                /\ file' = file
                /\ ~ Writing(c)'
                /\ calls[c].phase \in {"reading", "opening"}
                /\ calls[c].kind = "save" => calls'[c].phase = "rejected"
           /\ file' \in [form : Forms, data : Partial]
           /\ failures' \in Nat
           /\ disturbed' \in BOOLEAN
<1>0. /\ failures' \in Nat /\ "create" \in Goals /\ "rejected" \in Phases
      /\ Defaults \in Content /\ Defaults \in Partial /\ "garbage" \in Forms
  BY DefaultsAreClean DEF Fails, FileTypeOK, Goals, Phases, Forms
<1>1. CASE CheckFails(c)
  <2>1. OnlyCall(c) /\ Due(c, "create", Defaults)
    BY <1>0, <1>1, ToWriteEffect DEF CheckFails
  <2> QED BY <1>0, <1>1, <2>1 DEF CheckFails, FileTypeOK, Idle
<1>2. CASE ReadFails(c)
  <2>1. OnlyCall(c) /\ Has(c, Defaults) BY <1>0, <1>2, ObtainedEffect DEF ReadFails
  <2>2. disturbed' = (disturbed \/ calls[c].kind = "save") /\ file' = file
        /\ calls[c].phase = "reading"
    BY <1>2 DEF ReadFails
  <2>3. ~ disturbed' => calls[c].kind # "save" /\ calls'[c].phase = "answered" /\ ~ disturbed
    BY <2>1, <2>2 DEF Has
  <2>4. disturbed' \in BOOLEAN BY <2>2
  <2> QED BY <1>0, <2>1, <2>2, <2>3, <2>4 DEF Writing, Idle, FileTypeOK
<1>3. ASSUME calls' = [calls EXCEPT ![c] = AfterFailedWrite(c)]
      PROVE  /\ OnlyCall(c)
             /\ Has(c, Defaults) \/ calls'[c].phase = "rejected"
             /\ calls[c].goal # "migrate" => calls'[c].phase = "rejected"
  <2>1. CASE calls[c].goal = "migrate"
    BY <1>0, <1>3, <2>1, ObtainedEffect DEF AfterFailedWrite
  <2>2. CASE calls[c].goal # "migrate"
    BY <1>0, <1>3, <2>2, PhaseEffect DEF AfterFailedWrite
  <2> QED BY <2>1, <2>2
<1>4. CASE OpenFails(c)
  <2>1. /\ disturbed' = (disturbed \/ calls[c].goal = "migrate") /\ file' = file
        /\ calls[c].phase = "opening"
        /\ calls' = [calls EXCEPT ![c] = AfterFailedWrite(c)]
    BY <1>4 DEF OpenFails
  <2>2. disturbed' \in BOOLEAN BY <2>1
  <2>3. ~ disturbed' => calls[c].goal # "migrate" /\ ~ disturbed BY <2>1
  <2> QED BY <1>0, <1>3, <2>1, <2>2, <2>3 DEF Writing, Idle, FileTypeOK
<1>5. CASE FillFails(c)
  <2>1. /\ disturbed' = TRUE /\ calls[c].phase = "filling"
        /\ file' = file \/ file' = [form |-> "garbage", data |-> Defaults]
        /\ calls' = [calls EXCEPT ![c] = AfterFailedWrite(c)]
    BY <1>5 DEF FillFails
  <2> QED BY <1>0, <1>3, <2>1 DEF Idle, FileTypeOK
<1> QED BY <1>1, <1>2, <1>4, <1>5 DEF Fails

=================================================================================
