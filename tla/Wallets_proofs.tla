----------------------------- MODULE Wallets_proofs -----------------------------
(***************************************************************************)
(* The wallets of this install: the keystore service, for any ids, names,  *)
(* calls in flight and restarts, and the import that fills its store in a  *)
(* Flatpak sandbox (StorageMigration), for any wallets, crashes, failures  *)
(* and changes of the host's stores.  The two share no variable: the       *)
(* import ends before the service starts.                                  *)
(*                                                                         *)
(* A call of the service carries the list it will save and set through its *)
(* awaits, so its invariants speak of the lists on their way: which ids    *)
(* they may have (Fresh), what the call makes current (Carried), how the   *)
(* file, the memory and the one save or load under way agree while nothing *)
(* is disturbed (OneSave), and which of them has the user's wallets while  *)
(* nothing is lost (Kept).                                                 *)
(***************************************************************************)
EXTENDS Keystore, StorageMigration, SequenceTheorems, TLAPS

-----------------------------------------------------------------------------
(* Lists                                                                   *)

Has(list, id, name) ==
    \E i \in DOMAIN list : list[i].id = id /\ list[i].name = name

(* No wallet but id is selected; with None, no wallet is.                  *)
SelectsOnly(list, id) == \A i \in DOMAIN list : list[i].selected => list[i].id = id

LEMMA ListFacts ==
    ASSUME NEW list \in Seq(Entry)
    PROVE  /\ Len(list) \in Nat
           /\ DOMAIN list = 1 .. Len(list)
           /\ \A i \in DOMAIN list : list[i] \in Entry
           /\ IdsOf(list) \subseteq Ids
<1>1. Len(list) \in Nat /\ DOMAIN list = 1 .. Len(list) OBVIOUS
<1>2. \A i \in DOMAIN list : list[i] \in Entry OBVIOUS
<1>3. \A i \in DOMAIN list : list[i].id \in Ids BY <1>2 DEF Entry
<1> QED BY <1>1, <1>2, <1>3 DEF IdsOf

LEMMA ListOfLength ==
    ASSUME NEW n \in Nat, NEW list, list \in [1 .. n -> Entry]
    PROVE  list \in Seq(Entry) /\ Len(list) = n /\ DOMAIN list = 1 .. n
OBVIOUS

LEMMA SelectOnlyFacts ==
    ASSUME NEW list \in Seq(Entry), NEW id
    PROVE  /\ SelectOnly(list, id) \in Seq(Entry)
           /\ DOMAIN SelectOnly(list, id) = DOMAIN list
           /\ Len(SelectOnly(list, id)) = Len(list)
           /\ \A i \in DOMAIN list :
                /\ SelectOnly(list, id)[i].id = list[i].id
                /\ SelectOnly(list, id)[i].name = list[i].name
                /\ SelectOnly(list, id)[i].selected = (list[i].id = id)
<1> DEFINE new == SelectOnly(list, id)
<1>1. \A i \in DOMAIN list :
        /\ [list[i] EXCEPT !.selected = list[i].id = id] \in Entry
        /\ [list[i] EXCEPT !.selected = list[i].id = id].id = list[i].id
        /\ [list[i] EXCEPT !.selected = list[i].id = id].name = list[i].name
        /\ [list[i] EXCEPT !.selected = list[i].id = id].selected = (list[i].id = id)
  <2> TAKE i \in DOMAIN list
  <2>1. list[i] \in Entry BY ListFacts
  <2>2. (list[i].id = id) \in BOOLEAN OBVIOUS
  <2> QED BY <2>1, <2>2 DEF Entry
<1>2. new \in [1 .. Len(list) -> Entry] BY <1>1, ListFacts DEF SelectOnly
<1>3. new \in Seq(Entry) /\ Len(new) = Len(list) /\ DOMAIN new = DOMAIN list
  BY <1>2, ListFacts, ListOfLength
<1>4. \A i \in DOMAIN list :
        /\ new[i].id = list[i].id
        /\ new[i].name = list[i].name
        /\ new[i].selected = (list[i].id = id)
  BY <1>1 DEF SelectOnly
<1> QED BY <1>3, <1>4

LEMMA SelectedOnly ==
    ASSUME NEW list \in Seq(Entry), NEW id
    PROVE  /\ IdsOf(SelectOnly(list, id)) = IdsOf(list)
           /\ WellFormed(list) => WellFormed(SelectOnly(list, id))
           /\ SelectsOnly(SelectOnly(list, id), id)
<1> DEFINE new == SelectOnly(list, id)
<1>1. /\ DOMAIN new = DOMAIN list
      /\ \A i \in DOMAIN list :
            /\ new[i].id = list[i].id
            /\ new[i].selected = (list[i].id = id)
  BY SelectOnlyFacts
<1> HIDE DEF new
<1>2. IdsOf(new) = IdsOf(list) BY <1>1 DEF IdsOf
<1>3. WellFormed(list) => WellFormed(new)
  <2> SUFFICES ASSUME WellFormed(list), NEW i \in DOMAIN list, NEW j \in DOMAIN list, i # j
               PROVE  /\ new[i].id # new[j].id
                      /\ ~ (new[i].selected /\ new[j].selected)
    BY <1>1 DEF WellFormed
  <2>1. list[i].id # list[j].id BY DEF WellFormed
  <2>2. new[i].id # new[j].id BY <1>1, <2>1
  <2>3. (new[i].selected => list[i].id = id) /\ (new[j].selected => list[j].id = id)
    BY <1>1
  <2>4. ~ (new[i].selected /\ new[j].selected) BY <2>1, <2>3
  <2> QED BY <2>2, <2>4
<1>4. SelectsOnly(new, id) BY <1>1 DEF SelectsOnly
<1> QED BY <1>2, <1>3, <1>4 DEF new

LEMMA RenamedFacts ==
    ASSUME NEW list \in Seq(Entry), NEW id, NEW name \in Names
    PROVE  /\ Renamed(list, id, name) \in Seq(Entry)
           /\ IdsOf(Renamed(list, id, name)) = IdsOf(list)
           /\ WellFormed(list) => WellFormed(Renamed(list, id, name))
           /\ SelectsOnly(list, id) => SelectsOnly(Renamed(list, id, name), id)
           /\ id \in IdsOf(list) => Has(Renamed(list, id, name), id, name)
<1> DEFINE new == Renamed(list, id, name)
<1>1. \A i \in DOMAIN list :
        LET entry == IF list[i].id = id THEN [list[i] EXCEPT !.name = name] ELSE list[i]
        IN  /\ entry \in Entry
            /\ entry.id = list[i].id
            /\ entry.selected = list[i].selected
            /\ list[i].id = id => entry.name = name
  <2> TAKE i \in DOMAIN list
  <2>1. list[i] \in Entry BY ListFacts
  <2>2. LET entry == [list[i] EXCEPT !.name = name]
        IN  /\ entry \in Entry
            /\ entry.id = list[i].id
            /\ entry.selected = list[i].selected
            /\ entry.name = name
    BY <2>1 DEF Entry
  <2> QED BY <2>1, <2>2
<1>2. new \in [1 .. Len(list) -> Entry] BY <1>1, ListFacts DEF Renamed
<1>3. new \in Seq(Entry) /\ DOMAIN new = DOMAIN list BY <1>2, ListFacts, ListOfLength
<1>4. \A i \in DOMAIN list :
        /\ new[i].id = list[i].id
        /\ new[i].selected = list[i].selected
        /\ list[i].id = id => new[i].name = name
  BY <1>1 DEF Renamed
<1> HIDE DEF new
<1>5. IdsOf(new) = IdsOf(list) BY <1>3, <1>4 DEF IdsOf
<1>6. WellFormed(list) => WellFormed(new) BY <1>3, <1>4 DEF WellFormed
<1>7. SelectsOnly(list, id) => SelectsOnly(new, id) BY <1>3, <1>4 DEF SelectsOnly
<1>8. id \in IdsOf(list) => Has(new, id, name) BY <1>3, <1>4 DEF IdsOf, Has
<1> QED BY <1>3, <1>5, <1>6, <1>7, <1>8 DEF new

LEMMA WithNewFacts ==
    ASSUME NEW list \in Seq(Entry), NEW id \in Ids, NEW name \in Names
    PROVE  /\ WithNew(list, id, name) \in Seq(Entry)
           /\ IdsOf(WithNew(list, id, name)) = IdsOf(list) \cup {id}
           /\ WellFormed(list) /\ id \notin IdsOf(list) =>
                WellFormed(WithNew(list, id, name))
           /\ SelectsOnly(WithNew(list, id, name), id)
           /\ Has(WithNew(list, id, name), id, name)
<1> DEFINE old == SelectOnly(list, None)
           entry == [id |-> id, name |-> name, selected |-> TRUE]
           new == WithNew(list, id, name)
           n == Len(list)
<1>1. /\ old \in Seq(Entry) /\ Len(old) = n /\ DOMAIN old = 1 .. n /\ n \in Nat
      /\ IdsOf(old) = IdsOf(list)
      /\ WellFormed(list) => WellFormed(old)
      /\ SelectsOnly(old, None)
  BY ListFacts, SelectOnlyFacts, SelectedOnly
<1>2. \A i \in DOMAIN old : ~ old[i].selected
  <2>1. \A i \in DOMAIN old : old[i].id \in Ids BY <1>1, ListFacts DEF Entry
  <2> QED BY <1>1, <2>1, NoneAssumption DEF SelectsOnly
<1>3. entry \in Entry /\ entry.id = id /\ entry.name = name /\ entry.selected = TRUE
  BY DEF Entry
<1>4. new = Append(old, entry) BY DEF WithNew
<1> HIDE DEF old, entry, new
<1>5. /\ new \in Seq(Entry) /\ DOMAIN new = 1 .. (n + 1)
      /\ \A i \in 1 .. n : new[i] = old[i]
      /\ new[n + 1] = entry
  BY <1>1, <1>3, <1>4
<1>6. IdsOf(new) = IdsOf(list) \cup {id}
  <2>1. \A i \in DOMAIN new : i \in DOMAIN old \/ i = n + 1 BY <1>1, <1>5
  <2>2. \A i \in DOMAIN old : i \in DOMAIN new BY <1>1, <1>5
  <2>3. n + 1 \in DOMAIN new BY <1>1, <1>5
  <2> QED BY <1>1, <1>3, <1>5, <2>1, <2>2, <2>3 DEF IdsOf
<1>7. ASSUME WellFormed(list), id \notin IdsOf(list) PROVE WellFormed(new)
  <2>1. \A i \in DOMAIN new : i \in DOMAIN old \/ i = n + 1 BY <1>1, <1>5
  <2>2. \A i \in DOMAIN old : old[i].id # id BY <1>1, <1>7 DEF IdsOf
  <2>3. WellFormed(old) BY <1>1, <1>7
  <2> QED BY <1>1, <1>2, <1>3, <1>5, <2>1, <2>2, <2>3 DEF WellFormed
<1>8. SelectsOnly(new, id) BY <1>1, <1>2, <1>3, <1>5 DEF SelectsOnly
<1>9. Has(new, id, name) BY <1>1, <1>3, <1>5 DEF Has
<1> QED BY <1>5, <1>6, <1>7, <1>8, <1>9 DEF new

LEMMA PositionFacts ==
    ASSUME NEW list, NEW id \in IdsOf(list)
    PROVE  Position(list, id) \in DOMAIN list /\ list[Position(list, id)].id = id
BY DEF Position, IdsOf

LEMMA WithoutFacts ==
    ASSUME NEW list \in Seq(Entry), NEW id
    PROVE  /\ Without(list, id) \in Seq(Entry)
           /\ IdsOf(Without(list, id)) \subseteq IdsOf(list)
           /\ IdsOf(list) \ {id} \subseteq IdsOf(Without(list, id))
           /\ WellFormed(list) => WellFormed(Without(list, id))
           /\ WellFormed(list) /\ SelectsOnly(list, id) =>
                \A i \in DOMAIN Without(list, id) :
                    Without(list, id)[i].selected => id \notin IdsOf(list)
<1> DEFINE new == Without(list, id)
<1>1. CASE id \notin IdsOf(list) BY <1>1 DEF Without
<1>2. CASE id \in IdsOf(list)
  <2> DEFINE p == Position(list, id)
             n == Len(list)
  <2>1. p \in 1 .. n /\ list[p].id = id /\ n \in Nat /\ DOMAIN list = 1 .. n
    BY <1>2, PositionFacts, ListFacts
  <2>2. new = [i \in 1 .. (n - 1) |-> IF i < p THEN list[i] ELSE list[i + 1]]
    BY <1>2 DEF Without
  <2> HIDE DEF p, n, new
  <2>3. \A i \in 1 .. (n - 1) : list[i] \in Entry /\ list[i + 1] \in Entry
    BY <2>1, ListFacts
  <2>4. n - 1 \in Nat BY <2>1
  <2>5. new \in [1 .. (n - 1) -> Entry] BY <2>2, <2>3
  <2>6. new \in Seq(Entry) /\ DOMAIN new = 1 .. (n - 1) BY <2>4, <2>5, ListOfLength
  <2>7. \A i \in DOMAIN new : \E j \in DOMAIN list :
            /\ j = IF i < p THEN i ELSE i + 1
            /\ j # p
            /\ new[i] = list[j]
    BY <2>1, <2>2, <2>6
  <2>8. \A j \in DOMAIN list : j # p =>
            \E i \in DOMAIN new : new[i] = list[j]
    <3> TAKE j \in DOMAIN list
    <3>1. CASE j < p
      <4>1. j \in DOMAIN new /\ new[j] = list[j] BY <2>1, <2>2, <2>6, <3>1
      <4> QED BY <4>1
    <3>2. CASE j > p
      <4>1. j - 1 \in 1 .. (n - 1) /\ ~ (j - 1 < p) /\ (j - 1) + 1 = j BY <2>1, <3>2
      <4>2. j - 1 \in DOMAIN new /\ new[j - 1] = list[j] BY <2>2, <2>6, <4>1
      <4> QED BY <4>2
    <3> QED BY <2>1, <3>1, <3>2
  <2>9. IdsOf(new) \subseteq IdsOf(list) BY <2>7 DEF IdsOf
  <2>10. IdsOf(list) \ {id} \subseteq IdsOf(new)
    <3>1. \A j \in DOMAIN list : list[j].id # id => j # p BY <2>1
    <3> QED BY <2>8, <3>1 DEF IdsOf
  <2>11. WellFormed(list) => WellFormed(new)
    <3> SUFFICES ASSUME WellFormed(list), NEW i \in DOMAIN new, NEW k \in DOMAIN new, i # k
                 PROVE  /\ new[i].id # new[k].id
                        /\ ~ (new[i].selected /\ new[k].selected)
      BY DEF WellFormed
    <3>1. PICK j \in DOMAIN list : j = (IF i < p THEN i ELSE i + 1) /\ new[i] = list[j]
      BY <2>7
    <3>2. PICK l \in DOMAIN list : l = (IF k < p THEN k ELSE k + 1) /\ new[k] = list[l]
      BY <2>7
    <3>3. j # l BY <2>1, <2>6, <3>1, <3>2
    <3> QED BY <3>1, <3>2, <3>3 DEF WellFormed
  <2>12. WellFormed(list) /\ SelectsOnly(list, id) => \A i \in DOMAIN new : ~ new[i].selected
    BY <2>1, <2>7 DEF WellFormed, SelectsOnly
  <2> QED BY <2>6, <2>9, <2>10, <2>11, <2>12 DEF new
<1> QED BY <1>1, <1>2

(* The wallet a list makes current, when the app starts and after a        *)
(* removal, is a wallet of the list.                                       *)
LEMMA CurrentOfList ==
    ASSUME NEW list \in Seq(Entry)
    PROVE  /\ LastOf(list) \in Current \cup {None}
           /\ (\A i \in DOMAIN list : ~ list[i].selected) => AgreesWith(list, LastOf(list))
           /\ WellFormed(list) => /\ Initial(list) \in Current \cup {None}
                                  /\ AgreesWith(list, Initial(list))
<1>1. CASE list = <<>> BY <1>1 DEF LastOf, Initial, AgreesWith
<1>2. CASE list # <<>>
  <2> DEFINE n == Len(list)
  <2>1. n \in Nat /\ DOMAIN list = 1 .. n /\ 1 \in DOMAIN list /\ n \in DOMAIN list
    BY <1>2, ListFacts
  <2>2. ASSUME NEW i \in DOMAIN list
        PROVE  /\ Locked(list[i]) \in Current /\ Locked(list[i]) # None
               /\ Locked(list[i]).id = list[i].id /\ Locked(list[i]).name = list[i].name
    <3>1. list[i] \in Entry BY ListFacts
    <3>2. Locked(list[i]) \in Current BY <3>1 DEF Locked, Current, Entry
    <3> QED BY <3>2, NoneAssumption DEF Locked
  <2>3. ASSUME NEW i \in DOMAIN list, SelectsOnly(list, list[i].id)
        PROVE  AgreesWith(list, Locked(list[i]))
    BY <2>2, <2>3 DEF AgreesWith, SelectsOnly
  <2>4. LastOf(list) = Locked(list[n]) BY <1>2 DEF LastOf
  <2>5. (\A i \in DOMAIN list : ~ list[i].selected) => AgreesWith(list, LastOf(list))
    BY <2>1, <2>3, <2>4 DEF SelectsOnly
  <2>6. ASSUME WellFormed(list)
        PROVE  Initial(list) \in Current \cup {None} /\ AgreesWith(list, Initial(list))
    <3> DEFINE Selected == {i \in DOMAIN list : list[i].selected}
    <3>1. CASE Selected = {}
      <4>1. Initial(list) = Locked(list[1]) BY <1>2, <3>1 DEF Initial
      <4>2. SelectsOnly(list, list[1].id) BY <3>1 DEF SelectsOnly
      <4> QED BY <2>1, <2>2, <2>3, <4>1, <4>2
    <3>2. CASE Selected # {}
      <4>1. PICK i \in DOMAIN list : list[i].selected BY <3>2
      <4>2. \A j \in Selected : j = i BY <2>6, <4>1 DEF WellFormed
      <4>3. i \in Selected /\ \A j \in Selected : i <= j BY <2>1, <4>1, <4>2
      <4>4. (CHOOSE k \in Selected : \A j \in Selected : k <= j) = i BY <4>2, <4>3
      <4>5. Initial(list) = Locked(list[i]) BY <1>2, <3>2, <4>4 DEF Initial
      <4>6. SelectsOnly(list, list[i].id) BY <4>2 DEF SelectsOnly
      <4> QED BY <2>2, <2>3, <4>5, <4>6
    <3> QED BY <3>1, <3>2
  <2> QED BY <2>1, <2>2, <2>4, <2>5, <2>6
<1> QED BY <1>1, <1>2

-----------------------------------------------------------------------------
(* Calls                                                                   *)

(* A step leaves the call s so, and no other call is touched.              *)
To(s, kind, stage, id, name, list) ==
    /\ calls' \in [Slots -> Calls]
    /\ calls'[s].kind = kind
    /\ calls'[s].phase = stage
    /\ calls'[s].id = id
    /\ calls'[s].name = name
    /\ calls'[s].list = list
    /\ \A t \in Slots : t # s => calls'[t] = calls[t]

ToPhase(s, stage) == To(s, calls[s].kind, stage, calls[s].id, calls[s].name, calls[s].list)

ToNone(s) == To(s, "none", "idle", None, None, <<>>)

LEMMA Constants ==
    /\ {"none", "add", "remove", "change", "rename", "unlock", "abandoned"} \subseteq Kinds
    /\ {"idle", "deciphering", "sealing", "saving", "filling", "written", "refused"} \subseteq Phases
    /\ <<>> \in Seq(Entry)
    /\ NoCall \in Calls
BY DEF Kinds, Phases, NoCall, Calls

LEMMA ToOfCall ==
    ASSUME TypeOK, NEW s \in Slots, NEW call \in Calls,
           calls' = [calls EXCEPT ![s] = call]
    PROVE  To(s, call.kind, call.phase, call.id, call.name, call.list)
BY DEF To, TypeOK

LEMMA ToOf ==
    ASSUME TypeOK, NEW s \in Slots, NEW kind \in Kinds, NEW stage \in Phases,
           NEW id \in Ids \cup {None}, NEW name \in Names \cup {None},
           NEW list \in Seq(Entry),
           calls' = [calls EXCEPT ![s] = [kind |-> kind, phase |-> stage, id |-> id,
                                          name |-> name, list |-> list]]
    PROVE  To(s, kind, stage, id, name, list)
<1> DEFINE call == [kind |-> kind, phase |-> stage, id |-> id, name |-> name, list |-> list]
<1>1. /\ call \in Calls /\ call.kind = kind /\ call.phase = stage /\ call.id = id
      /\ call.name = name /\ call.list = list
  BY DEF Calls
<1>2. calls' = [calls EXCEPT ![s] = call] OBVIOUS
<1> HIDE DEF call
<1> QED BY <1>1, <1>2, ToOfCall DEF To

LEMMA FinishEffect ==
    ASSUME TypeOK, NEW s \in Slots, Finish(s) PROVE ToNone(s) /\ begun' = begun
<1>1. calls' = [calls EXCEPT ![s] = [kind |-> "none", phase |-> "idle", id |-> None,
                                     name |-> None, list |-> <<>>]]
  BY DEF Finish, NoCall
<1> QED BY <1>1, Constants, ToOf DEF ToNone, Finish

LEMMA CallFacts ==
    ASSUME TypeOK, NEW s \in Slots
    PROVE  /\ calls[s].kind \in Kinds /\ calls[s].phase \in Phases
           /\ calls[s].id \in Ids \cup {None} /\ calls[s].name \in Names \cup {None}
           /\ calls[s].list \in Seq(Entry)
           /\ calls[s] \in Calls
BY DEF TypeOK, Calls

LEMMA PhaseEffect ==
    ASSUME TypeOK, NEW s \in Slots, NEW stage \in Phases,
           Continue(s, [calls[s] EXCEPT !.phase = stage])
    PROVE  ToPhase(s, stage) /\ begun' = begun
<1> DEFINE call == [calls[s] EXCEPT !.phase = stage]
<1>1. calls[s] \in Calls BY CallFacts
<1>2. /\ call \in Calls /\ call.kind = calls[s].kind /\ call.phase = stage
      /\ call.id = calls[s].id /\ call.name = calls[s].name /\ call.list = calls[s].list
  BY <1>1 DEF Calls
<1>3. calls' = [calls EXCEPT ![s] = call] /\ begun' = begun BY DEF Continue
<1> HIDE DEF call
<1> QED BY <1>2, <1>3, ToOfCall DEF ToPhase, To

(* What a call knows, by its kind.                                         *)
CallOK(call) ==
    /\ call.phase = "idle" => call.kind = "none" /\ call.list = <<>>
    /\ call.kind = "none" => call.phase = "idle"
    /\ call.kind # "none" => call.id \in Ids
    /\ call.kind \in {"add", "change", "rename", "unlock"} => call.name \in Names
    /\ call.kind = "unlock" => call.phase = "deciphering"
    /\ call.kind = "abandoned" => call.phase \in {"saving", "filling"}

(* Only a list that is there as a whole can be read.                       *)
FileOK(file) == file.form # "json" => file.list = <<>>

Json(list) == [form |-> "json", list |-> list]

Types ==
    /\ TypeOK
    /\ \A s \in Slots : CallOK(calls[s])
    /\ FileOK(disk)
    /\ load.phase # "read" => load.list = <<>>

-----------------------------------------------------------------------------
(* What each action does to its call                                       *)

LEMMA BeginAddEffect ==
    ASSUME Types, NEW s \in Slots, NEW id \in Ids, NEW name \in Names, BeginAdd(s, id, name)
    PROVE  /\ \E stage \in {"sealing", "deciphering"} : To(s, "add", stage, id, name, <<>>)
           /\ Free(s) /\ id \notin used /\ used' = used \cup {id}
           /\ UNCHANGED <<state, wallets, disk, load, met, disturbed, owned, lost, raced>>
           /\ TypeOK'
<1>0. TypeOK BY DEF Types
<1>1. PICK stage \in {"sealing", "deciphering"} :
        Begin(s, [NoCall EXCEPT !.kind = "add", !.phase = stage, !.id = id, !.name = name])
  BY DEF notes, BeginAdd
<1> DEFINE call == [NoCall EXCEPT !.kind = "add", !.phase = stage, !.id = id, !.name = name]
<1>2. /\ call \in Calls /\ call.kind = "add" /\ call.phase = stage
      /\ call.id = id /\ call.name = name /\ call.list = <<>>
  BY Constants DEF Calls, NoCall
<1>3. calls' = [calls EXCEPT ![s] = call] BY <1>1 DEF Begin
<1> HIDE DEF call
<1>4. To(s, "add", stage, id, name, <<>>) BY <1>0, <1>2, <1>3, ToOfCall DEF To
<1>5. begun' \in Nat BY <1>0, <1>1 DEF Begin, TypeOK
<1>6. TypeOK' BY <1>0, <1>4, <1>5 DEF notes, BeginAdd, TypeOK, To, Importing
<1> QED BY <1>1, <1>4, <1>6 DEF notes, BeginAdd

LEMMA ImportedEffect ==
    ASSUME Types, NEW s \in Slots, Imported(s)
    PROVE  /\ ToPhase(s, "sealing") /\ calls[s].kind = "add" /\ calls[s].phase = "deciphering"
           /\ UNCHANGED <<state, wallets, disk, load, used, met, disturbed, owned, lost, raced>>
           /\ TypeOK'
<1>0. TypeOK BY DEF Types
<1>1. ToPhase(s, "sealing") /\ begun' = begun BY <1>0, Constants, PhaseEffect DEF notes, Imported
<1> QED BY <1>0, <1>1 DEF notes, Imported, TypeOK, ToPhase, To, Importing

LEMMA AddFailsEffect ==
    ASSUME Types, NEW s \in Slots, AddFails(s)
    PROVE  /\ ToNone(s) /\ calls[s].kind = "add" /\ calls[s].phase \in {"deciphering", "sealing"}
           /\ UNCHANGED <<state, wallets, disk, load, used, met, disturbed, owned, lost, raced>>
           /\ TypeOK'
<1>0. TypeOK BY DEF Types
<1>1. ToNone(s) /\ begun' = begun BY <1>0, FinishEffect DEF notes, AddFails
<1> QED BY <1>0, <1>1 DEF notes, AddFails, TypeOK, ToNone, To, Importing

LEMMA NoteSaveEffect ==
    ASSUME NEW s, NoteSave(s)
    PROVE  /\ met' \in BOOLEAN /\ disturbed' \in BOOLEAN /\ lost' \in BOOLEAN
           /\ ~ met' => ~ Loading /\ \A t \in Slots : t # s => ~ Saving(t)
           /\ met' => disturbed'
           /\ ~ disturbed' => ~ disturbed
           /\ ~ lost' => ~ lost /\ ~ met' /\ load.phase = "done"
<1>1. /\ met' = (Loading \/ \E t \in Slots \ {s} : Saving(t))
      /\ disturbed' = (disturbed \/ met')
      /\ lost' = (lost \/ met' \/ load.phase # "done")
  BY DEF NoteSave
<1>2. met' \in BOOLEAN BY <1>1
<1>3. disturbed' \in BOOLEAN /\ lost' \in BOOLEAN BY <1>1
<1> QED BY <1>1, <1>2, <1>3

LEMMA NoteAnswerEffect ==
    ASSUME NEW s, NoteAnswer(s)
    PROVE  /\ disturbed' \in BOOLEAN
           /\ ~ disturbed' => calls[s].phase # "refused" /\ ~ met
<1>1. disturbed' = (calls[s].phase = "refused" \/ met) BY DEF NoteAnswer
<1>2. disturbed' \in BOOLEAN BY <1>1
<1> QED BY <1>1, <1>2

LEMMA SealedEffect ==
    ASSUME Types, NEW s \in Slots, Sealed(s)
    PROVE  /\ To(s, "add", "saving", calls[s].id, calls[s].name,
                 WithNew(wallets, calls[s].id, calls[s].name))
           /\ calls[s].kind = "add" /\ calls[s].phase = "sealing"
           /\ calls[s].id \in Ids /\ calls[s].name \in Names
           /\ NoteSave(s)
           /\ UNCHANGED <<state, wallets, disk, load, used, owned, raced>>
           /\ TypeOK'
<1>0. TypeOK BY DEF Types
<1> DEFINE list == WithNew(wallets, calls[s].id, calls[s].name)
<1>1. calls[s].kind = "add" /\ calls[s].phase = "sealing" BY DEF Sealed
<1>2. calls[s].id \in Ids /\ calls[s].name \in Names BY <1>1 DEF Types, CallOK
<1>3. list \in Seq(Entry) BY <1>0, <1>2, WithNewFacts DEF TypeOK
<1>4. calls' = [calls EXCEPT ![s] = [calls[s] EXCEPT !.phase = "saving", !.list = list]]
  BY DEF Sealed, Continue
<1> HIDE DEF list
<1> DEFINE call == [calls[s] EXCEPT !.phase = "saving", !.list = list]
<1>5. /\ call \in Calls /\ call.kind = "add" /\ call.phase = "saving"
      /\ call.id = calls[s].id /\ call.name = calls[s].name /\ call.list = list
  BY <1>0, <1>1, <1>3, CallFacts, Constants DEF Calls
<1>6. calls' = [calls EXCEPT ![s] = call] BY <1>4
<1> HIDE DEF call
<1>7. To(s, "add", "saving", calls[s].id, calls[s].name, list)
  BY <1>0, <1>5, <1>6, ToOfCall DEF To
<1>8. met' \in BOOLEAN /\ disturbed' \in BOOLEAN /\ lost' \in BOOLEAN
  BY NoteSaveEffect DEF Sealed
<1>9. TypeOK' BY <1>0, <1>7, <1>8 DEF Sealed, TypeOK, To, Continue
<1> QED BY <1>1, <1>2, <1>7, <1>9 DEF Sealed, list

(* The wallet of an add, a change or a rename becomes the current one.     *)
LEMMA AddedEffect ==
    ASSUME Types, NEW s \in Slots, Added(s)
    PROVE  /\ ToNone(s) /\ calls[s].kind = "add" /\ calls[s].phase \in {"written", "refused"}
           /\ wallets' = calls[s].list
           /\ state' = [id |-> calls[s].id, name |-> calls[s].name, unlocked |-> TRUE]
           /\ ~ disturbed' => calls[s].phase = "written" /\ ~ met
           /\ owned' = owned \cup {calls[s].id} /\ calls[s].id \in Ids
           /\ UNCHANGED <<disk, load, used, met, lost, raced>>
           /\ TypeOK'
<1>0. TypeOK BY DEF Types
<1>1. ToNone(s) /\ begun' = begun BY <1>0, FinishEffect DEF Added
<1>2. calls[s].id \in Ids /\ calls[s].name \in Names BY DEF Added, Types, CallOK
<1>3. state' \in Current BY <1>2 DEF Added, Current
<1>4. wallets' \in Seq(Entry) BY <1>0, CallFacts DEF Added
<1>5. NoteAnswer(s) BY DEF Added
<1>6. disturbed' \in BOOLEAN BY <1>5, NoteAnswerEffect
<1>8. owned' \in SUBSET Ids BY <1>0, <1>2 DEF Added, TypeOK
<1>7. TypeOK' BY <1>8, <1>0, <1>1, <1>2, <1>3, <1>4, <1>6 DEF Added, TypeOK, ToNone, To, Importing
<1> QED BY <1>1, <1>2, <1>5, <1>7, NoteAnswerEffect DEF Added

LEMMA BeginRemoveEffect ==
    ASSUME Types, NEW s \in Slots, BeginRemove(s)
    PROVE  /\ To(s, "remove", "saving", state.id, None, Without(wallets, state.id))
           /\ Free(s) /\ state # None /\ state \in Current
           /\ NoteSave(s) /\ owned' = owned \ {state.id}
           /\ UNCHANGED <<state, wallets, disk, load, used, raced>>
           /\ TypeOK'
<1>0. TypeOK BY DEF Types
<1>1. state \in Current /\ state.id \in Ids BY <1>0 DEF BeginRemove, TypeOK, Current
<1>2. Without(wallets, state.id) \in Seq(Entry) BY <1>0, WithoutFacts DEF TypeOK
<1>3. To(s, "remove", "saving", state.id, None, Without(wallets, state.id))
  BY <1>0, <1>1, <1>2, Constants, ToOf DEF BeginRemove, Begin
<1>4. met' \in BOOLEAN /\ disturbed' \in BOOLEAN /\ lost' \in BOOLEAN
  BY NoteSaveEffect DEF BeginRemove
<1>5. begun' \in Nat BY <1>0 DEF BeginRemove, Begin, TypeOK
<1>7. owned' \in SUBSET Ids BY <1>0 DEF BeginRemove, TypeOK
<1>6. TypeOK' BY <1>7, <1>0, <1>3, <1>4, <1>5 DEF BeginRemove, TypeOK, To
<1> QED BY <1>1, <1>3, <1>6 DEF BeginRemove, Types

LEMMA RemovedEffect ==
    ASSUME Types, NEW s \in Slots, Removed(s)
    PROVE  /\ ToNone(s) /\ calls[s].kind = "remove" /\ calls[s].phase \in {"written", "refused"}
           /\ wallets' = calls[s].list
           /\ state' = LastOf(calls[s].list)
           /\ ~ disturbed' => calls[s].phase = "written" /\ ~ met
           /\ UNCHANGED <<disk, load, used, met, owned, lost, raced>>
           /\ TypeOK'
<1>0. TypeOK BY DEF Types
<1>1. ToNone(s) /\ begun' = begun BY <1>0, FinishEffect DEF Removed
<1>2. wallets' \in Seq(Entry) BY <1>0, CallFacts DEF Removed
<1>3. state' \in Current \cup {None} BY <1>0, CallFacts, CurrentOfList DEF Removed
<1>5. NoteAnswer(s) BY DEF Removed
<1>6. disturbed' \in BOOLEAN BY <1>5, NoteAnswerEffect
<1>7. TypeOK' BY <1>0, <1>1, <1>2, <1>3, <1>6 DEF Removed, TypeOK, ToNone, To
<1> QED BY <1>1, <1>5, <1>7, NoteAnswerEffect DEF Removed

LEMMA BeginChangeEffect ==
    ASSUME Types, NEW s \in Slots, NEW id \in Ids, BeginChange(s, id)
    PROVE  /\ To(s, "change", "saving", id, wallets[Position(wallets, id)].name,
                 SelectOnly(wallets, id))
           /\ Free(s) /\ id \in IdsOf(wallets)
           /\ wallets[Position(wallets, id)].name \in Names
           /\ NoteSave(s)
           /\ UNCHANGED <<state, wallets, disk, load, used, owned, raced>>
           /\ TypeOK'
<1>0. TypeOK BY DEF Types
<1>1. wallets \in Seq(Entry) /\ id \in IdsOf(wallets) BY <1>0 DEF BeginChange, TypeOK
<1>2. wallets[Position(wallets, id)].name \in Names
  BY <1>1, PositionFacts, ListFacts DEF Entry
<1>3. SelectOnly(wallets, id) \in Seq(Entry) BY <1>1, SelectOnlyFacts
<1>4. To(s, "change", "saving", id, wallets[Position(wallets, id)].name,
         SelectOnly(wallets, id))
  BY <1>0, <1>2, <1>3, Constants, ToOf DEF BeginChange, Begin
<1>5. met' \in BOOLEAN /\ disturbed' \in BOOLEAN /\ lost' \in BOOLEAN
  BY NoteSaveEffect DEF BeginChange
<1>6. begun' \in Nat BY <1>0 DEF BeginChange, Begin, TypeOK
<1>7. TypeOK' BY <1>0, <1>4, <1>5, <1>6 DEF BeginChange, TypeOK, To
<1> QED BY <1>1, <1>2, <1>4, <1>7 DEF BeginChange

LEMMA ChangedEffect ==
    ASSUME Types, NEW s \in Slots, Changed(s)
    PROVE  /\ ToNone(s) /\ calls[s].kind = "change" /\ calls[s].phase = "written"
           /\ wallets' = calls[s].list
           /\ state' = [id |-> calls[s].id, name |-> calls[s].name, unlocked |-> FALSE]
           /\ ~ disturbed' => ~ met
           /\ UNCHANGED <<disk, load, used, met, owned, lost, raced>>
           /\ TypeOK'
<1>0. TypeOK BY DEF Types
<1>1. ToNone(s) /\ begun' = begun BY <1>0, FinishEffect DEF Changed
<1>2. calls[s].id \in Ids /\ calls[s].name \in Names BY DEF Changed, Types, CallOK
<1>3. state' \in Current BY <1>2 DEF Changed, Current
<1>4. wallets' \in Seq(Entry) BY <1>0, CallFacts DEF Changed
<1>6. NoteAnswer(s) BY DEF Changed
<1>7. disturbed' \in BOOLEAN BY <1>6, NoteAnswerEffect
<1>5. TypeOK' BY <1>0, <1>1, <1>2, <1>3, <1>4, <1>7 DEF Changed, TypeOK, ToNone, To
<1> QED BY <1>1, <1>5, <1>6, NoteAnswerEffect DEF Changed

LEMMA BeginRenameEffect ==
    ASSUME Types, NEW s \in Slots, NEW name \in Names, BeginRename(s, name)
    PROVE  /\ To(s, "rename", "saving", state.id, name, Renamed(wallets, state.id, name))
           /\ Free(s) /\ state # None /\ state \in Current
           /\ NoteSave(s)
           /\ UNCHANGED <<state, wallets, disk, load, used, owned, raced>>
           /\ TypeOK'
<1>0. TypeOK BY DEF Types
<1>1. state \in Current /\ state.id \in Ids BY <1>0 DEF BeginRename, TypeOK, Current
<1>2. Renamed(wallets, state.id, name) \in Seq(Entry) BY <1>0, RenamedFacts DEF TypeOK
<1>3. To(s, "rename", "saving", state.id, name, Renamed(wallets, state.id, name))
  BY <1>0, <1>1, <1>2, Constants, ToOf DEF BeginRename, Begin
<1>4. met' \in BOOLEAN /\ disturbed' \in BOOLEAN /\ lost' \in BOOLEAN
  BY NoteSaveEffect DEF BeginRename
<1>5. begun' \in Nat BY <1>0 DEF BeginRename, Begin, TypeOK
<1>6. TypeOK' BY <1>0, <1>3, <1>4, <1>5 DEF BeginRename, TypeOK, To
<1> QED BY <1>1, <1>3, <1>6 DEF BeginRename, Types

LEMMA RenameDoneEffect ==
    ASSUME Types, NEW s \in Slots, RenameDone(s)
    PROVE  /\ ToNone(s) /\ calls[s].kind = "rename" /\ calls[s].phase \in {"written", "refused"}
           /\ wallets' = calls[s].list
           /\ state' = [id |-> calls[s].id, name |-> calls[s].name, unlocked |-> TRUE]
           /\ ~ disturbed' => calls[s].phase = "written" /\ ~ met
           /\ UNCHANGED <<disk, load, used, met, owned, lost, raced>>
           /\ TypeOK'
<1>0. TypeOK BY DEF Types
<1>1. ToNone(s) /\ begun' = begun BY <1>0, FinishEffect DEF RenameDone
<1>2. calls[s].id \in Ids /\ calls[s].name \in Names BY DEF RenameDone, Types, CallOK
<1>3. state' \in Current BY <1>2 DEF RenameDone, Current
<1>4. wallets' \in Seq(Entry) BY <1>0, CallFacts DEF RenameDone
<1>5. NoteAnswer(s) BY DEF RenameDone
<1>6. disturbed' \in BOOLEAN BY <1>5, NoteAnswerEffect
<1>7. TypeOK' BY <1>0, <1>1, <1>3, <1>4, <1>6 DEF RenameDone, TypeOK, ToNone, To
<1> QED BY <1>1, <1>5, <1>7, NoteAnswerEffect DEF RenameDone

(* A step that ends a call and changes no list.                            *)
LEMMA ChangeRefusedEffect ==
    ASSUME Types, NEW s \in Slots, ChangeRefused(s)
    PROVE  /\ ToNone(s) /\ calls[s].kind = "change" /\ calls[s].phase = "refused"
           /\ UNCHANGED <<state, wallets, disk, load, used, met, disturbed, owned, lost, raced>>
           /\ TypeOK'
<1>0. TypeOK BY DEF Types
<1>1. ToNone(s) /\ begun' = begun BY <1>0, FinishEffect DEF notes, ChangeRefused
<1> QED BY <1>0, <1>1 DEF notes, ChangeRefused, TypeOK, ToNone, To

LEMMA UnlockFailsEffect ==
    ASSUME Types, NEW s \in Slots, UnlockFails(s)
    PROVE  /\ ToNone(s) /\ calls[s].kind = "unlock"
           /\ UNCHANGED <<state, wallets, disk, load, used, met, disturbed, owned, lost, raced>>
           /\ TypeOK'
<1>0. TypeOK BY DEF Types
<1>1. ToNone(s) /\ begun' = begun BY <1>0, FinishEffect DEF notes, UnlockFails
<1> QED BY <1>0, <1>1 DEF notes, UnlockFails, TypeOK, ToNone, To

(* What becomes of a call no one waits for any more.                       *)
ToAbandoned(s) ==
    To(s, "abandoned", calls[s].phase, calls[s].id, calls[s].name, calls[s].list)

LEMMA UnsubscribeEffect ==
    ASSUME Types, NEW s \in Slots, Unsubscribe(s)
    PROVE  /\ ToNone(s) \/ (calls[s].phase \in {"saving", "filling"} /\ ToAbandoned(s))
           /\ calls[s].kind \in {"change", "rename"}
           /\ disturbed' = TRUE
           /\ UNCHANGED <<state, wallets, disk, load, used, met, owned, lost, raced>>
           /\ TypeOK'
<1>0. TypeOK BY DEF Types
<1>1. (ToNone(s) \/ (calls[s].phase \in {"saving", "filling"} /\ ToAbandoned(s))) /\ begun' = begun
  <2>1. CASE calls[s].phase \in {"saving", "filling"}
    <3> DEFINE call == [calls[s] EXCEPT !.kind = "abandoned"]
    <3>1. /\ call \in Calls /\ call.kind = "abandoned" /\ call.phase = calls[s].phase
          /\ call.id = calls[s].id /\ call.name = calls[s].name /\ call.list = calls[s].list
      BY <1>0, CallFacts, Constants DEF Calls
    <3>2. calls' = [calls EXCEPT ![s] = call] /\ begun' = begun
      BY <2>1 DEF Unsubscribe, Continue
    <3> HIDE DEF call
    <3> QED BY <1>0, <2>1, <3>1, <3>2, ToOfCall DEF ToAbandoned, To
  <2>2. CASE calls[s].phase \notin {"saving", "filling"} BY <1>0, <2>2, FinishEffect DEF Unsubscribe
  <2> QED BY <2>1, <2>2
<1>2. calls' \in [Slots -> Calls] BY <1>1 DEF ToNone, ToAbandoned, To
<1>3. disturbed' \in BOOLEAN BY DEF Unsubscribe
<1>4. TypeOK' BY <1>0, <1>1, <1>2, <1>3 DEF Unsubscribe, TypeOK
<1> QED BY <1>1, <1>4 DEF Unsubscribe

LEMMA LockEffect ==
    ASSUME Types, Lock
    PROVE  /\ state # None /\ state \in Current /\ state' \in Current
           /\ state'.id = state.id /\ state'.name = state.name
           /\ UNCHANGED <<wallets, disk, load, calls, used, met, disturbed, owned, lost, raced>>
           /\ TypeOK'
<1>0. TypeOK BY DEF Types
<1>1. state \in Current BY <1>0 DEF notes, Lock, TypeOK
<1>2. state' = [state EXCEPT !.unlocked = FALSE] BY DEF notes, Lock
<1>3. state' \in Current /\ state'.id = state.id /\ state'.name = state.name
  BY <1>1, <1>2 DEF Current
<1>4. TypeOK' BY <1>0, <1>3 DEF notes, Lock, TypeOK
<1> QED BY <1>1, <1>3, <1>4 DEF notes, Lock

LEMMA BeginUnlockEffect ==
    ASSUME Types, NEW s \in Slots, BeginUnlock(s)
    PROVE  /\ To(s, "unlock", "deciphering", state.id, state.name, <<>>)
           /\ Free(s) /\ state # None /\ state \in Current
           /\ UNCHANGED <<state, wallets, disk, load, used, met, disturbed, owned, lost, raced>>
           /\ TypeOK'
<1>0. TypeOK BY DEF Types
<1>1. state \in Current /\ state.id \in Ids /\ state.name \in Names
  BY <1>0 DEF notes, BeginUnlock, TypeOK, Current
<1>2. To(s, "unlock", "deciphering", state.id, state.name, <<>>)
  BY <1>0, <1>1, Constants, ToOf DEF notes, BeginUnlock, Begin
<1>3. begun' \in Nat BY <1>0 DEF notes, BeginUnlock, Begin, TypeOK
<1>4. TypeOK' BY <1>0, <1>2, <1>3 DEF notes, BeginUnlock, TypeOK, To
<1> QED BY <1>1, <1>2, <1>4 DEF notes, BeginUnlock, Types

LEMMA UnlockedEffect ==
    ASSUME Types, NEW s \in Slots, Unlocked(s)
    PROVE  /\ ToNone(s) /\ calls[s].kind = "unlock"
           /\ state' = [id |-> calls[s].id, name |-> calls[s].name, unlocked |-> TRUE]
           /\ state' \in Current
           /\ ~ raced' => ~ raced /\ state # None /\ state.id = calls[s].id
                            /\ state.name = calls[s].name
           /\ UNCHANGED <<wallets, disk, load, used, met, disturbed, owned, lost>>
           /\ TypeOK'
<1>0. TypeOK BY DEF Types
<1>1. ToNone(s) /\ begun' = begun BY <1>0, FinishEffect DEF Unlocked
<1>2. calls[s].id \in Ids /\ calls[s].name \in Names BY DEF Unlocked, Types, CallOK
<1>3. state' \in Current BY <1>2 DEF Unlocked, Current
<1>4. raced' = (raced \/ state = None \/ state.id # calls[s].id
                      \/ state.name # calls[s].name)
  BY DEF Unlocked
<1>5. raced' \in BOOLEAN BY <1>4
<1>6. TypeOK' BY <1>0, <1>1, <1>3, <1>5 DEF Unlocked, TypeOK, ToNone, To
<1> QED BY <1>1, <1>3, <1>4, <1>6 DEF Unlocked

(* The file after it is opened, filled or spoiled.                         *)
LEMMA FileEffect ==
    ASSUME TypeOK, NEW list \in Seq(Entry), OpenFile \/ FillFile(list) \/ SpoilFile
    PROVE  /\ disk' \in [form : Forms, list : Seq(Entry)] /\ FileOK(disk')
           /\ OpenFile => disk'.form = "empty"
           /\ FillFile(list) => /\ disk'.list \in {<<>>, list}
                                /\ disk.form = "empty" => disk' = Json(list)
           /\ OpenFile \/ SpoilFile => disk'.list = <<>>
<1>1. \A form \in Forms, l \in Seq(Entry) :
        LET file == [form |-> form, list |-> l]
        IN  file \in [form : Forms, list : Seq(Entry)] /\ file.form = form /\ file.list = l
  OBVIOUS
<1>2. {"empty", "json", "garbage"} \subseteq Forms /\ <<>> \in Seq(Entry) BY Constants DEF Forms
<1>3. CASE OpenFile
  <2>1. disk' = [form |-> "empty", list |-> <<>>] BY <1>3 DEF OpenFile
  <2> QED BY <1>1, <1>2, <1>3, <2>1 DEF FileOK, FillFile, Json
<1>4. CASE SpoilFile
  <2>1. disk' = [form |-> "garbage", list |-> <<>>] BY <1>4 DEF SpoilFile
  <2> QED BY <1>1, <1>2, <2>1 DEF FileOK, FillFile, OpenFile, Json
<1>5. CASE FillFile(list)
  <2>1. \/ disk' = [form |-> "json", list |-> list]
        \/ disk.form # "empty" /\ disk' = [form |-> "garbage", list |-> <<>>]
    BY <1>5 DEF FillFile
  <2>2. CASE disk' = [form |-> "json", list |-> list]
    BY <1>1, <1>2, <2>2 DEF FileOK, OpenFile, SpoilFile, Json
  <2>3. CASE disk.form # "empty" /\ disk' = [form |-> "garbage", list |-> <<>>]
    BY <1>1, <1>2, <2>3 DEF FileOK, OpenFile, SpoilFile, Json
  <2> QED BY <2>1, <2>2, <2>3
<1> QED BY <1>3, <1>4, <1>5

LEMMA OpenEffect ==
    ASSUME Types, NEW s \in Slots, Open(s)
    PROVE  /\ ToPhase(s, "filling") /\ calls[s].phase = "saving"
           /\ FileOK(disk') /\ disk'.form = "empty" /\ disk'.list = <<>>
           /\ UNCHANGED <<state, wallets, load, used, met, disturbed, owned, lost, raced>>
           /\ TypeOK'
<1>0. TypeOK BY DEF Types
<1>1. ToPhase(s, "filling") /\ begun' = begun BY <1>0, Constants, PhaseEffect DEF Open
<1>2. OpenFile BY DEF Open
<1>3. disk' \in [form : Forms, list : Seq(Entry)] BY <1>0, <1>2, Constants, FileEffect
<1>4. TypeOK' BY <1>0, <1>1, <1>3 DEF Open, TypeOK, ToPhase, To, notes
<1> QED BY <1>0, <1>1, <1>2, <1>4, Constants, FileEffect DEF Open, notes

LEMMA AnswerEffect ==
    ASSUME Types, NEW s \in Slots, NEW answer \in {"written", "refused"}, Answer(s, answer)
    PROVE  /\ IF calls[s].kind = "abandoned" THEN ToNone(s) ELSE ToPhase(s, answer)
           /\ begun' = begun /\ calls' \in [Slots -> Calls]
<1>0. TypeOK BY DEF Types
<1>1. CASE calls[s].kind = "abandoned" BY <1>0, <1>1, FinishEffect DEF Answer, ToNone, To
<1>2. CASE calls[s].kind # "abandoned"
  BY <1>0, <1>2, PhaseEffect, Constants DEF Answer, ToPhase, To
<1> QED BY <1>1, <1>2

LEMMA FillEffect ==
    ASSUME Types, NEW s \in Slots, Fill(s)
    PROVE  /\ IF calls[s].kind = "abandoned" THEN ToNone(s) ELSE ToPhase(s, "written")
           /\ calls[s].phase = "filling"
           /\ FileOK(disk') /\ disk'.list \in {<<>>, calls[s].list}
           /\ disk.form = "empty" => disk' = Json(calls[s].list)
           /\ UNCHANGED <<state, wallets, load, used, met, disturbed, owned, lost, raced>>
           /\ TypeOK'
<1>0. TypeOK BY DEF Types
<1>1. FillFile(calls[s].list) /\ Answer(s, "written") BY DEF Fill
<1>2. calls[s].list \in Seq(Entry) BY <1>0, CallFacts
<1>3. disk' \in [form : Forms, list : Seq(Entry)] BY <1>0, <1>1, <1>2, FileEffect
<1>4. TypeOK' BY <1>0, <1>1, <1>3, AnswerEffect DEF Fill, TypeOK, notes
<1> QED BY <1>0, <1>1, <1>2, <1>4, AnswerEffect, FileEffect DEF Fill, notes

LEMMA SaveFailsEffect ==
    ASSUME Types, NEW s \in Slots, SaveFails(s)
    PROVE  /\ IF calls[s].kind = "abandoned" THEN ToNone(s) ELSE ToPhase(s, "refused")
           /\ \/ calls[s].phase = "saving" /\ UNCHANGED <<disk, disturbed>>
              \/ calls[s].phase = "filling" /\ disturbed' = TRUE /\ disk'.list = <<>>
           /\ FileOK(disk')
           /\ UNCHANGED <<state, wallets, load, used, met, owned, lost, raced>>
           /\ TypeOK'
<1>0. TypeOK BY DEF Types
<1>1. Answer(s, "refused") BY DEF SaveFails
<1>2. /\ \/ calls[s].phase = "saving" /\ UNCHANGED <<disk, disturbed>>
         \/ calls[s].phase = "filling" /\ disturbed' = TRUE /\ disk'.list = <<>>
      /\ FileOK(disk') /\ disk' \in [form : Forms, list : Seq(Entry)]
  <2>1. CASE calls[s].phase = "filling"
    BY <1>0, <2>1, Constants, FileEffect DEF SaveFails
  <2>2. CASE calls[s].phase # "filling" BY <2>2 DEF SaveFails, Types, TypeOK
  <2> QED BY <2>1, <2>2
<1>3. disturbed' \in BOOLEAN BY <1>0, <1>2 DEF TypeOK
<1>4. TypeOK' BY <1>0, <1>1, <1>2, <1>3, AnswerEffect DEF SaveFails, TypeOK
<1> QED BY <1>1, <1>2, <1>4, AnswerEffect DEF SaveFails

(* What a step of the load leaves.                                         *)
LoadAt(stage, list) ==
    load' \in [phase : Loads, list : Seq(Entry)] /\ load'.phase = stage /\ load'.list = list

LEMMA LoadAtOf ==
    ASSUME NEW stage \in Loads, NEW list \in Seq(Entry),
           load' = [phase |-> stage, list |-> list]
    PROVE  LoadAt(stage, list)
BY DEF LoadAt

LEMMA LoadConstants ==
    /\ {"reading", "opening", "filling", "read", "failed", "done"} \subseteq Loads
    /\ <<>> \in Seq(Entry)
BY DEF Loads

LEMMA LoadFacts ==
    ASSUME TypeOK
    PROVE  /\ load.phase \in Loads /\ load.list \in Seq(Entry)
           /\ disk.form \in Forms /\ disk.list \in Seq(Entry)
           /\ disk.form = "json" => disk = Json(disk.list)
<1>1. load \in [phase : Loads, list : Seq(Entry)] /\ disk \in [form : Forms, list : Seq(Entry)]
  BY DEF TypeOK
<1> QED BY <1>1 DEF Json

LEMMA ReadEffect ==
    ASSUME Types, Read
    PROVE  /\ load.phase = "reading"
           /\ \/ LoadAt("read", disk.list) /\ disk = Json(disk.list)
              \/ LoadAt("opening", <<>>) /\ disk.list = <<>>
              \/ LoadAt("failed", <<>>) /\ disk.list = <<>>
           /\ UNCHANGED <<state, wallets, disk, calls, used, met, disturbed, owned, lost, raced>>
           /\ TypeOK'
<1>0. TypeOK BY DEF Types
<1>1. \/ LoadAt("read", disk.list) /\ disk = Json(disk.list)
      \/ LoadAt("opening", <<>>) /\ disk.list = <<>>
      \/ LoadAt("failed", <<>>) /\ disk.list = <<>>
  <2> DEFINE stage == IF disk.list # <<>> THEN "read"
                      ELSE IF disk.form \in {"absent", "json"} THEN "opening"
                      ELSE "failed"
  <2>1. load' = [phase |-> stage, list |-> disk.list] BY DEF Read
  <2>2. stage \in Loads BY LoadConstants
  <2>3. disk.list \in Seq(Entry) BY <1>0, LoadFacts
  <2>4. LoadAt(stage, disk.list) BY <2>1, <2>2, <2>3, LoadAtOf
  <2>5. disk.list # <<>> => stage = "read" /\ disk = Json(disk.list)
    BY <1>0, LoadFacts DEF Types, FileOK
  <2>6. disk.list = <<>> => stage \in {"opening", "failed"} OBVIOUS
  <2> HIDE DEF stage
  <2> QED BY <2>4, <2>5, <2>6
<1>2. TypeOK' BY <1>0, <1>1 DEF Read, loadFrame, TypeOK, LoadAt
<1> QED BY <1>1, <1>2 DEF Read, loadFrame

LEMMA OpenEmptyEffect ==
    ASSUME Types, OpenEmpty
    PROVE  /\ load.phase = "opening" /\ LoadAt("filling", <<>>)
           /\ FileOK(disk') /\ disk'.form = "empty" /\ disk'.list = <<>>
           /\ UNCHANGED <<state, wallets, calls, used, met, disturbed, owned, lost, raced>>
           /\ TypeOK'
<1>0. TypeOK BY DEF Types
<1>1. load.phase = "opening" /\ load' = [load EXCEPT !.phase = "filling"] /\ OpenFile
  BY DEF OpenEmpty
<1>2. load.list = <<>> /\ load \in [phase : Loads, list : Seq(Entry)]
  BY <1>1 DEF Types, TypeOK
<1>3. LoadAt("filling", <<>>) BY <1>1, <1>2, LoadConstants DEF LoadAt
<1>4. TypeOK' BY <1>0, <1>1, <1>3, LoadConstants, FileEffect DEF OpenEmpty, loadFrame, TypeOK, LoadAt
<1> QED BY <1>0, <1>1, <1>3, <1>4, LoadConstants, FileEffect DEF OpenEmpty, loadFrame

LEMMA FillEmptyEffect ==
    ASSUME Types, FillEmpty
    PROVE  /\ load.phase = "filling" /\ LoadAt("read", <<>>)
           /\ FileOK(disk') /\ disk'.list = <<>>
           /\ disk.form = "empty" => disk' = Json(<<>>)
           /\ UNCHANGED <<state, wallets, calls, used, met, disturbed, owned, lost, raced>>
           /\ TypeOK'
<1>0. TypeOK BY DEF Types
<1>1. load.phase = "filling" /\ load' = [load EXCEPT !.phase = "read"] /\ FillFile(<<>>)
  BY DEF FillEmpty
<1>2. load.list = <<>> /\ load \in [phase : Loads, list : Seq(Entry)]
  BY <1>1 DEF Types, TypeOK
<1>3. LoadAt("read", <<>>) BY <1>1, <1>2, LoadConstants DEF LoadAt
<1>4. TypeOK' BY <1>0, <1>1, <1>3, LoadConstants, FileEffect DEF FillEmpty, loadFrame, TypeOK, LoadAt
<1> QED BY <1>0, <1>1, <1>3, <1>4, LoadConstants, FileEffect DEF FillEmpty, loadFrame

LEMMA LoadFailsEffect ==
    ASSUME Types, LoadFails
    PROVE  /\ load.phase \in {"reading", "opening", "filling"} /\ LoadAt("failed", <<>>)
           /\ \/ load.phase # "filling" /\ UNCHANGED <<disk, disturbed>>
              \/ load.phase = "filling" /\ disturbed' = TRUE /\ disk'.list = <<>>
           /\ FileOK(disk')
           /\ UNCHANGED <<state, wallets, calls, used, met, owned, lost, raced>>
           /\ TypeOK'
<1>0. TypeOK BY DEF Types
<1>1. LoadAt("failed", <<>>) BY LoadConstants, LoadAtOf DEF LoadFails
<1>2. /\ \/ load.phase # "filling" /\ UNCHANGED <<disk, disturbed>>
         \/ load.phase = "filling" /\ disturbed' = TRUE /\ disk'.list = <<>>
      /\ FileOK(disk') /\ disk' \in [form : Forms, list : Seq(Entry)]
  <2>1. CASE load.phase = "filling"
    BY <1>0, <2>1, Constants, FileEffect DEF LoadFails
  <2>2. CASE load.phase # "filling" BY <2>2 DEF LoadFails, Types, TypeOK
  <2> QED BY <2>1, <2>2
<1>3. disturbed' \in BOOLEAN BY <1>0, <1>2 DEF TypeOK
<1>4. TypeOK' BY <1>0, <1>1, <1>2, <1>3 DEF LoadFails, loadFrame, TypeOK, LoadAt
<1> QED BY <1>1, <1>2, <1>4 DEF LoadFails, loadFrame

LEMMA LoadedEffect ==
    ASSUME Types, WellFormed(load.list), Loaded
    PROVE  /\ load.phase = "read" /\ LoadAt("done", <<>>)
           /\ wallets' = load.list /\ state' = Initial(load.list) /\ disturbed' = met
           /\ UNCHANGED <<disk, calls, used, met, owned, lost, raced>>
           /\ TypeOK'
<1>0. TypeOK BY DEF Types
<1>1. load.list \in Seq(Entry) BY <1>0, LoadFacts
<1>2. state' \in Current \cup {None} BY <1>1, CurrentOfList DEF Loaded
<1>3. LoadAt("done", <<>>) BY LoadConstants, LoadAtOf DEF Loaded
<1>4. TypeOK' BY <1>0, <1>1, <1>2, <1>3 DEF Loaded, loadFrame, TypeOK, LoadAt
<1> QED BY <1>3, <1>4 DEF Loaded, loadFrame

LEMMA ReloadEffect ==
    ASSUME Types, Reload
    PROVE  /\ load.phase = "failed" /\ LoadAt("reading", <<>>)
           /\ ~ met' => \A s \in Slots : ~ Saving(s)
           /\ met' => disturbed'
           /\ ~ disturbed' => ~ disturbed
           /\ UNCHANGED <<state, wallets, disk, calls, used, owned, lost, raced>>
           /\ TypeOK'
<1>0. TypeOK BY DEF Types
<1>1. LoadAt("reading", <<>>) BY LoadConstants, LoadAtOf DEF Reload
<1>2. met' = (\E s \in Slots : Saving(s)) /\ disturbed' = (disturbed \/ met') BY DEF Reload
<1>3. met' \in BOOLEAN /\ disturbed' \in BOOLEAN BY <1>2
<1>4. TypeOK' BY <1>0, <1>1, <1>3 DEF Reload, loadFrame, TypeOK, LoadAt
<1> QED BY <1>1, <1>2, <1>4 DEF Reload, loadFrame

LEMMA QuitEffect ==
    ASSUME Types, Quit
    PROVE  /\ LoadAt("reading", <<>>) /\ wallets' = <<>> /\ state' = None
           /\ calls' = [s \in Slots |-> NoCall]
           /\ met' = FALSE /\ disturbed' = TRUE /\ raced' = FALSE
           /\ ~ lost' => /\ ~ lost
                         /\ load.phase = "done" => ~ disturbed
                         /\ \A s \in Slots : calls[s].phase # "filling"
           /\ UNCHANGED <<disk, used, owned>>
           /\ TypeOK'
<1>0. TypeOK BY DEF Types
<1>1. quits' \in Nat BY <1>0 DEF Quit, TypeOK
<1>2. calls' \in [Slots -> Calls] BY Constants DEF Quit
<1>3. LoadAt("reading", <<>>) BY LoadConstants, LoadAtOf DEF Quit
<1>4. lost' = (lost \/ (load.phase = "done" /\ disturbed)
                    \/ \E s \in Slots : calls[s].phase = "filling")
  BY DEF Quit
<1>5. met' \in BOOLEAN /\ disturbed' \in BOOLEAN /\ raced' \in BOOLEAN BY DEF Quit
<1>6. lost' \in BOOLEAN BY <1>4
<1>7. TypeOK' BY <1>0, <1>1, <1>2, <1>3, <1>5, <1>6, Constants DEF Quit, TypeOK, Importing, LoadAt
<1> QED BY <1>3, <1>4, <1>7 DEF Quit

LEMMA ResetEffect ==
    ASSUME Types, ResetImporting
    PROVE  UNCHANGED <<state, wallets, disk, load, calls, used, met, disturbed, owned, lost, raced>> /\ TypeOK'
BY DEF notes, Types, ResetImporting, TypeOK, Importing

LEMMA StutterEffect ==
    ASSUME Types, UNCHANGED vars
    PROVE  UNCHANGED <<state, wallets, disk, load, calls, used, met, disturbed, owned, lost, raced>> /\ TypeOK'
BY DEF Types, vars, TypeOK

-----------------------------------------------------------------------------
(* Types                                                                   *)

LEMMA StoredFacts ==
    ASSUME NEW list \in StoredLists PROVE list \in Seq(Entry) /\ WellFormed(list)
<1>1. PICK n \in 0 .. 2 : list \in [1 .. n -> Entry] BY DEF StoredLists
<1>2. list \in Seq(Entry) BY <1>1, ListOfLength
<1>3. WellFormed(list) BY DEF StoredLists, WellFormed
<1> QED BY <1>2, <1>3

LEMMA InitFile ==
    ASSUME Init
    PROVE  /\ disk \in [form : Forms, list : Seq(Entry)] /\ FileOK(disk)
           /\ WellFormed(disk.list)
<1>1. /\ <<>> \in Seq(Entry) /\ WellFormed(<<>>)
      /\ {"absent", "json", "garbage"} \subseteq Forms
  BY Constants DEF WellFormed, Forms
<1>2. \/ disk \in [form : {"json"}, list : StoredLists]
      \/ disk \in [form : {"absent", "garbage"}, list : {<<>>}]
  BY DEF Init
<1>3. CASE disk \in [form : {"json"}, list : StoredLists]
  <2>1. disk = [form |-> "json", list |-> disk.list] /\ disk.list \in StoredLists BY <1>3
  <2>2. disk.list \in Seq(Entry) /\ WellFormed(disk.list) BY <2>1, StoredFacts
  <2> QED BY <1>1, <2>1, <2>2 DEF FileOK
<1>4. CASE disk \in [form : {"absent", "garbage"}, list : {<<>>}]
  <2>1. disk.list = <<>> /\ disk.form \in {"absent", "garbage"} BY <1>4
  <2>2. disk \in [form : Forms, list : Seq(Entry)] BY <1>1, <1>4
  <2> QED BY <1>1, <2>1, <2>2 DEF FileOK
<1> QED BY <1>2, <1>3, <1>4

LEMMA InitTypes ==
    ASSUME Init PROVE Types
<1>1. disk \in [form : Forms, list : Seq(Entry)] /\ FileOK(disk) BY InitFile
<1>2. used \in SUBSET Ids /\ owned \in SUBSET Ids BY <1>1, ListFacts DEF Init
<1>3. calls \in [Slots -> Calls] BY Constants DEF Init
<1>4. met \in BOOLEAN /\ disturbed \in BOOLEAN /\ lost \in BOOLEAN /\ raced \in BOOLEAN
  BY DEF Init
<1>5. load \in [phase : Loads, list : Seq(Entry)] /\ load.list = <<>>
  BY LoadConstants DEF Init
<1>6. TypeOK BY <1>1, <1>2, <1>3, <1>4, <1>5, Constants DEF Init, TypeOK, Importing
<1>7. \A s \in Slots : CallOK(calls[s]) BY DEF Init, NoCall, CallOK
<1> QED BY <1>1, <1>5, <1>6, <1>7 DEF Types

(* A call that is as CallOK says, and the others as they were.             *)
LEMMA CallsStay ==
    ASSUME Types, NEW s \in Slots, NEW kind, NEW stage, NEW id, NEW name, NEW list,
           To(s, kind, stage, id, name, list),
           stage = "idle" => kind = "none" /\ list = <<>>,
           kind = "none" => stage = "idle",
           kind # "none" => id \in Ids,
           kind \in {"add", "change", "rename", "unlock"} => name \in Names,
           kind = "unlock" => stage = "deciphering",
           kind = "abandoned" => stage \in {"saving", "filling"}
    PROVE  \A t \in Slots : CallOK(calls'[t])
BY DEF To, Types, CallOK

LEMMA CallsQuiet ==
    ASSUME Types, NEW s \in Slots, ToNone(s)
    PROVE  \A t \in Slots : CallOK(calls'[t])
BY CallsStay DEF ToNone

LEMMA CallsMove ==
    ASSUME Types, NEW s \in Slots, NEW stage, ToPhase(s, stage), stage # "idle",
           calls[s].phase # "idle", calls[s].kind # "unlock",
           calls[s].kind = "abandoned" => stage \in {"saving", "filling"}
    PROVE  \A t \in Slots : CallOK(calls'[t])
<1>1. CallOK(calls[s]) BY DEF Types
<1> QED BY <1>1, CallsStay DEF ToPhase, CallOK

(* The steps of the load, and those that neither load nor call.            *)
LoadStep == Read \/ OpenEmpty \/ FillEmpty \/ LoadFails \/ Loaded \/ Reload

LEMMA LoadStepEffect ==
    ASSUME Types, WellFormed(load.list), LoadStep
    PROVE  /\ UNCHANGED <<calls, used, owned, lost, raced>> /\ TypeOK'
           /\ FileOK(disk') /\ disk'.list \in {<<>>, disk.list}
           /\ wallets' \in {wallets, load.list} /\ load'.list \in {<<>>, disk.list}
           /\ load'.phase # "read" => load'.list = <<>>
           /\ ~ Loaded => UNCHANGED <<wallets, state>>
<1>0. FileOK(disk) BY DEF Types
<1>1. CASE Read BY <1>0, <1>1, ReadEffect DEF LoadAt
<1>2. CASE OpenEmpty BY <1>2, OpenEmptyEffect DEF LoadAt
<1>3. CASE FillEmpty BY <1>3, FillEmptyEffect DEF LoadAt
<1>4. CASE LoadFails BY <1>4, LoadFailsEffect DEF LoadAt
<1>5. CASE Loaded BY <1>0, <1>5, LoadedEffect DEF LoadAt
<1>6. CASE Reload BY <1>0, <1>6, ReloadEffect DEF LoadAt
<1> QED BY <1>1, <1>2, <1>3, <1>4, <1>5, <1>6 DEF LoadStep

LEMMA TypesStep ==
    ASSUME Types, WellFormed(load.list), [Next]_vars PROVE Types'
<1> DEFINE Good == TypeOK' /\ \A t \in Slots : CallOK(calls'[t])
           Still == UNCHANGED <<disk, load>>
<1>0. /\ FileOK(disk) /\ (load.phase # "read" => load.list = <<>>)
      /\ \A s \in Slots : CallOK(calls[s])
  BY DEF Types
<1> SUFFICES /\ Good
             /\ FileOK(disk')
             /\ load'.phase # "read" => load'.list = <<>>
  BY DEF Types
<1>1. CASE LoadStep
  <2>1. /\ calls' = calls /\ TypeOK' /\ FileOK(disk')
        /\ load'.phase # "read" => load'.list = <<>>
    BY <1>1, LoadStepEffect
  <2> QED BY <1>0, <2>1
<1>2. CASE Quit
  <2>1. TypeOK' /\ (\A t \in Slots : calls'[t] = NoCall) /\ disk' = disk /\ load'.list = <<>>
    BY <1>2, QuitEffect DEF LoadAt
  <2>2. CallOK(NoCall) BY DEF CallOK, NoCall
  <2> QED BY <1>0, <2>1, <2>2
<1>3. CASE ResetImporting \/ UNCHANGED vars \/ Lock
  <2>1. UNCHANGED <<calls, disk, load>> /\ TypeOK'
    BY <1>3, ResetEffect, StutterEffect, LockEffect
  <2> QED BY <1>0, <2>1
<1>4. ASSUME NEW s \in Slots, NEW id \in Ids, NEW name \in Names, BeginAdd(s, id, name)
      PROVE  Good /\ Still
  <2>1. TypeOK' /\ UNCHANGED <<disk, load>> BY <1>4, BeginAddEffect
  <2>2. PICK stage \in {"sealing", "deciphering"} : To(s, "add", stage, id, name, <<>>)
    BY <1>4, BeginAddEffect
  <2> QED BY <2>1, <2>2, CallsStay
<1>5. ASSUME NEW s \in Slots, Imported(s) PROVE Good /\ Still
  BY <1>5, ImportedEffect, CallsMove
<1>6. ASSUME NEW s \in Slots, Sealed(s) PROVE Good /\ Still
  BY <1>6, SealedEffect, CallsStay
<1>7. ASSUME NEW s \in Slots, Unsubscribe(s) PROVE Good /\ Still
  <2>1. /\ ToNone(s) \/ (calls[s].phase \in {"saving", "filling"} /\ ToAbandoned(s))
        /\ UNCHANGED <<disk, load>> /\ TypeOK'
    BY <1>7, UnsubscribeEffect
  <2>2. CASE ToNone(s) BY <2>1, <2>2, CallsQuiet
  <2>3. CASE calls[s].phase \in {"saving", "filling"} /\ ToAbandoned(s)
    <3>1. CallOK(calls[s]) /\ calls[s].kind # "none" BY <1>7, UnsubscribeEffect DEF Types
    <3> QED BY <2>1, <2>3, <3>1, CallsStay DEF ToAbandoned, CallOK
  <2> QED BY <2>1, <2>2, <2>3
<1>8. ASSUME NEW s \in Slots, Open(s) \/ Fill(s) \/ SaveFails(s)
      PROVE  Good /\ FileOK(disk') /\ load' = load
  <2>1. calls[s].phase \in {"saving", "filling"} => calls[s].kind # "unlock" BY DEF Types, CallOK
  <2>2. CASE Open(s) BY <2>1, <2>2, OpenEffect, CallsMove
  <2>3. CASE Fill(s) BY <2>1, <2>3, FillEffect, CallsMove, CallsQuiet
  <2>4. CASE SaveFails(s) BY <2>1, <2>4, SaveFailsEffect, CallsMove, CallsQuiet
  <2> QED BY <1>8, <2>2, <2>3, <2>4
<1>9. ASSUME NEW s \in Slots,
             \/ AddFails(s) \/ Added(s) \/ Removed(s) \/ Changed(s) \/ ChangeRefused(s)
             \/ RenameDone(s) \/ Unlocked(s) \/ UnlockFails(s)
      PROVE  Good /\ Still
  <2>1. TypeOK' /\ UNCHANGED <<disk, load>> /\ ToNone(s)
    BY <1>9, AddFailsEffect, AddedEffect, RemovedEffect, ChangedEffect,
       ChangeRefusedEffect, RenameDoneEffect, UnlockedEffect, UnlockFailsEffect
  <2> QED BY <2>1, CallsQuiet
<1>10. ASSUME NEW s \in Slots, NEW id \in Ids, BeginChange(s, id) PROVE Good /\ Still
  BY <1>10, BeginChangeEffect, CallsStay
<1>11. ASSUME NEW s \in Slots, NEW name \in Names, BeginRename(s, name) PROVE Good /\ Still
  BY <1>11, BeginRenameEffect, CallsStay DEF Current
<1>12. ASSUME NEW s \in Slots, BeginRemove(s) \/ BeginUnlock(s) PROVE Good /\ Still
  <2>1. CASE BeginRemove(s) BY <2>1, BeginRemoveEffect, CallsStay DEF Current
  <2>2. CASE BeginUnlock(s) BY <2>2, BeginUnlockEffect, CallsStay DEF Current
  <2> QED BY <1>12, <2>1, <2>2
<1> QED BY <1>0, <1>1, <1>2, <1>3, <1>4, <1>5, <1>6, <1>7, <1>8, <1>9, <1>10, <1>11, <1>12
        DEF Next, LoadStep

-----------------------------------------------------------------------------
(* Fresh: the lists that exist, and the ids on their way into them         *)

(* The lists a wallet can be in; a list not read or not made yet is empty. *)
Lists == {<<>>, wallets, disk.list, load.list} \cup {calls[s].list : s \in Slots}

(* An add between the drawing of its id and the making of its list.        *)
Adding(call) == call.kind = "add" /\ call.phase \in {"deciphering", "sealing"}

Fresh ==
    /\ \A list \in Lists : WellFormed(list) /\ IdsOf(list) \subseteq used
    /\ \A s \in Slots : Adding(calls[s]) =>
          /\ calls[s].id \in used
          /\ \A list \in Lists : calls[s].id \notin IdsOf(list)
          /\ \A t \in Slots \ {s} : Adding(calls[t]) => calls[s].id # calls[t].id

LEMMA ListsTo ==
    ASSUME Types, NEW s \in Slots, NEW kind, NEW stage, NEW id, NEW name, NEW list,
           To(s, kind, stage, id, name, list)
    PROVE  /\ \A l \in Lists' : l \in Lists \/ l \in {wallets', disk'.list, load'.list, list}
           /\ wallets \in Lists /\ disk.list \in Lists /\ load.list \in Lists /\ <<>> \in Lists
           /\ \A t \in Slots : calls[t].list \in Lists
BY DEF Lists, To

(* A step that makes no list but from an earlier one, and begins no add.   *)
LEMMA FreshKept ==
    ASSUME Fresh, used' = used,
           \A new \in Lists' : \E list \in Lists :
               /\ WellFormed(list) => WellFormed(new)
               /\ IdsOf(new) \subseteq IdsOf(list),
           \A s \in Slots : Adding(calls'[s]) =>
               Adding(calls[s]) /\ calls'[s].id = calls[s].id
    PROVE  Fresh'
<1>1. \A list \in Lists' : WellFormed(list) /\ IdsOf(list) \subseteq used' BY DEF Fresh
<1>2. ASSUME NEW s \in Slots, Adding(calls'[s])
      PROVE  /\ calls'[s].id \in used'
             /\ \A list \in Lists' : calls'[s].id \notin IdsOf(list)
             /\ \A t \in Slots \ {s} : Adding(calls'[t]) => calls'[s].id # calls'[t].id
  BY <1>2 DEF Fresh
<1> QED BY <1>1, <1>2 DEF Fresh, Adding

LEMMA InitFresh == ASSUME Init PROVE Fresh
<1>1. WellFormed(disk.list) BY InitFile
<1>2. Lists \subseteq {<<>>, disk.list} BY DEF Init, NoCall, Lists
<1>3. WellFormed(<<>>) /\ IdsOf(<<>>) = {} BY DEF WellFormed, IdsOf
<1>4. \A s \in Slots : ~ Adding(calls[s]) BY DEF Init, NoCall, Adding
<1> QED BY <1>1, <1>2, <1>3, <1>4 DEF Init, Fresh

LEMMA FreshStep ==
    ASSUME Types, Fresh, [Next]_vars PROVE Fresh'
<1>1. CASE LoadStep
  <2>1. WellFormed(load.list) BY DEF Fresh, Lists
  <2>2. /\ calls' = calls /\ used' = used /\ disk'.list \in {<<>>, disk.list}
        /\ wallets' \in {wallets, load.list} /\ load'.list \in {<<>>, disk.list}
    BY <1>1, <2>1, LoadStepEffect
  <2>3. Lists' \subseteq Lists BY <2>2 DEF Lists
  <2> QED BY <2>2, <2>3, FreshKept
<1>2. CASE Quit
  <2>1. /\ wallets' = <<>> /\ disk' = disk /\ used' = used /\ load'.list = <<>>
        /\ calls' = [t \in Slots |-> NoCall]
    BY <1>2, QuitEffect DEF LoadAt
  <2>2. Lists' \subseteq Lists /\ \A t \in Slots : ~ Adding(calls'[t])
    BY <2>1 DEF Lists, NoCall, Adding
  <2> QED BY <2>1, <2>2, FreshKept
<1>3. CASE ResetImporting \/ UNCHANGED vars \/ Lock
  <2>1. UNCHANGED <<wallets, disk, load, calls, used>>
    BY <1>3, ResetEffect, StutterEffect, LockEffect
  <2>2. Lists' = Lists BY <2>1 DEF Lists
  <2> QED BY <2>1, <2>2, FreshKept
<1>4. ASSUME NEW s \in Slots, NEW id \in Ids, NEW name \in Names, BeginAdd(s, id, name)
      PROVE  Fresh'
  <2>1. PICK stage \in {"sealing", "deciphering"} : To(s, "add", stage, id, name, <<>>)
    BY <1>4, BeginAddEffect
  <2>2. /\ UNCHANGED <<wallets, disk, load>> /\ id \notin used /\ used' = used \cup {id}
    BY <1>4, BeginAddEffect
  <2>3. Lists' \subseteq Lists BY <2>1, <2>2, ListsTo
  <2>4. \A list \in Lists : id \notin IdsOf(list) BY <2>2 DEF Fresh
  <2>5. \A t \in Slots : t # s => calls'[t] = calls[t] BY <2>1 DEF To
  <2>6. calls'[s].id = id BY <2>1 DEF To
  <2>7. \A list \in Lists' : WellFormed(list) /\ IdsOf(list) \subseteq used'
    BY <2>2, <2>3 DEF Fresh
  <2>8. ASSUME NEW t \in Slots, Adding(calls'[t])
        PROVE  /\ calls'[t].id \in used'
               /\ \A list \in Lists' : calls'[t].id \notin IdsOf(list)
               /\ \A u \in Slots \ {t} : Adding(calls'[u]) => calls'[t].id # calls'[u].id
    <3>1. \A u \in Slots : u # s /\ Adding(calls'[u]) => calls'[u].id \in used
      BY <2>5 DEF Fresh
    <3>2. CASE t = s BY <2>2, <2>3, <2>4, <2>6, <3>1, <3>2
    <3>3. CASE t # s
      <4>1. /\ calls'[t] = calls[t] /\ calls[t].id \in used
            /\ \A list \in Lists : calls[t].id \notin IdsOf(list)
            /\ \A u \in Slots \ {t} : Adding(calls[u]) => calls[t].id # calls[u].id
        BY <2>5, <2>8, <3>3 DEF Fresh
      <4> QED BY <2>2, <2>3, <2>5, <2>6, <4>1
    <3> QED BY <3>2, <3>3
  <2> QED BY <2>7, <2>8 DEF Fresh, Adding
<1>5. ASSUME NEW s \in Slots, Sealed(s) PROVE Fresh'
  <2> DEFINE new == WithNew(wallets, calls[s].id, calls[s].name)
  <2>1. /\ To(s, "add", "saving", calls[s].id, calls[s].name, new)
        /\ Adding(calls[s]) /\ UNCHANGED <<wallets, disk, load, used>>
        /\ calls[s].id \in Ids /\ calls[s].name \in Names
    BY <1>5, SealedEffect DEF Adding
  <2>2. /\ calls[s].id \in used /\ wallets \in Lists
        /\ calls[s].id \notin IdsOf(wallets) /\ WellFormed(wallets)
        /\ IdsOf(wallets) \subseteq used
    BY <2>1 DEF Fresh, Lists
  <2>3. WellFormed(new) /\ IdsOf(new) = IdsOf(wallets) \cup {calls[s].id}
    BY <2>1, <2>2, WithNewFacts DEF Types, TypeOK
  <2> HIDE DEF new
  <2>4. \A list \in Lists' : list \in Lists \/ list = new BY <2>1, ListsTo
  <2>5. \A list \in Lists' : WellFormed(list) /\ IdsOf(list) \subseteq used'
    BY <2>1, <2>2, <2>3, <2>4 DEF Fresh
  <2>6. ~ Adding(calls'[s]) /\ \A t \in Slots : t # s => calls'[t] = calls[t]
    BY <2>1 DEF To, Adding
  <2>7. ASSUME NEW t \in Slots, Adding(calls'[t])
        PROVE  /\ calls'[t].id \in used'
               /\ \A list \in Lists' : calls'[t].id \notin IdsOf(list)
               /\ \A u \in Slots \ {t} : Adding(calls'[u]) => calls'[t].id # calls'[u].id
    <3>1. /\ t # s /\ calls'[t] = calls[t] /\ calls[t].id \in used
          /\ \A list \in Lists : calls[t].id \notin IdsOf(list)
          /\ \A u \in Slots \ {t} : Adding(calls[u]) => calls[t].id # calls[u].id
      BY <2>6, <2>7 DEF Fresh
    <3>2. calls[t].id \notin IdsOf(new) BY <2>1, <2>2, <2>3, <3>1
    <3> QED BY <2>1, <2>4, <2>6, <3>1, <3>2
  <2> QED BY <2>5, <2>7 DEF Fresh, Adding
<1>6. ASSUME NEW s \in Slots, NEW kind, NEW stage, NEW id, NEW name, NEW list,
             To(s, kind, stage, id, name, list), used' = used,
             kind # "add" \/ stage \notin {"deciphering", "sealing"}
                          \/ (Adding(calls[s]) /\ id = calls[s].id),
             wallets' \in Lists, disk'.list \in Lists, load' = load,
             \E old \in Lists : /\ WellFormed(old) => WellFormed(list)
                                /\ IdsOf(list) \subseteq IdsOf(old)
      PROVE  Fresh'
  <2>1. \A t \in Slots : Adding(calls'[t]) => Adding(calls[t]) /\ calls'[t].id = calls[t].id
    BY <1>6 DEF To, Adding
  <2>2. \A l \in Lists' : l \in Lists \/ l = list BY <1>6, ListsTo DEF Lists
  <2> QED BY <1>6, <2>1, <2>2, FreshKept
<1>7. wallets \in Lists /\ disk.list \in Lists /\ <<>> \in Lists
      /\ \A t \in Slots : calls[t].list \in Lists
  BY DEF Lists
<1>8. ASSUME NEW s \in Slots, NEW stage, ToPhase(s, stage), used' = used,
             stage \notin {"deciphering", "sealing"} \/ Adding(calls[s]),
             wallets' \in Lists, disk'.list \in Lists, load' = load
      PROVE  Fresh'
  BY <1>6, <1>7, <1>8 DEF ToPhase
<1>9. ASSUME NEW s \in Slots, ToNone(s), used' = used, wallets' \in Lists,
             disk'.list \in Lists, load' = load
      PROVE  Fresh'
  BY <1>6, <1>7, <1>9 DEF ToNone
<1>10. ASSUME NEW s \in Slots,
              \/ AddFails(s) \/ Added(s) \/ Removed(s) \/ Changed(s) \/ ChangeRefused(s)
              \/ RenameDone(s) \/ Unlocked(s) \/ UnlockFails(s)
       PROVE  Fresh'
  <2>1. /\ ToNone(s) /\ UNCHANGED <<disk, load, used>>
        /\ wallets' = wallets \/ wallets' = calls[s].list
    BY <1>10, AddFailsEffect, AddedEffect, RemovedEffect, ChangedEffect,
       ChangeRefusedEffect, RenameDoneEffect, UnlockedEffect, UnlockFailsEffect
  <2> QED BY <1>7, <1>9, <2>1
<1>11. ASSUME NEW s \in Slots, Imported(s) \/ Open(s) \/ Fill(s) \/ SaveFails(s) \/ Unsubscribe(s)
       PROVE  Fresh'
  <2>1. CASE Imported(s) BY <1>7, <1>8, <2>1, ImportedEffect DEF Adding
  <2>2. CASE Open(s) BY <1>7, <1>8, <2>2, OpenEffect
  <2>3. CASE Fill(s) BY <1>7, <1>8, <1>9, <2>3, FillEffect
  <2>5. CASE SaveFails(s) BY <1>7, <1>8, <1>9, <2>5, SaveFailsEffect
  <2>4. CASE Unsubscribe(s)
    <3>1. /\ ToNone(s) \/ ToAbandoned(s)
          /\ UNCHANGED <<wallets, disk, load, used>>
      BY <2>4, UnsubscribeEffect
    <3>2. CASE ToNone(s) BY <1>7, <1>9, <3>1, <3>2
    <3>3. CASE ToAbandoned(s) BY <1>6, <1>7, <3>1, <3>3 DEF ToAbandoned
    <3> QED BY <3>1, <3>2, <3>3
  <2> QED BY <1>11, <2>1, <2>2, <2>3, <2>4, <2>5
<1>12. wallets \in Seq(Entry) BY DEF Types, TypeOK
<1>13. ASSUME NEW s \in Slots, BeginRemove(s) PROVE Fresh'
  <2>1. /\ To(s, "remove", "saving", state.id, None, Without(wallets, state.id))
        /\ UNCHANGED <<wallets, disk, load, used>>
    BY <1>13, BeginRemoveEffect
  <2>2. /\ WellFormed(wallets) => WellFormed(Without(wallets, state.id))
        /\ IdsOf(Without(wallets, state.id)) \subseteq IdsOf(wallets)
    BY <1>12, WithoutFacts
  <2> QED BY <1>6, <1>7, <2>1, <2>2
<1>14. ASSUME NEW s \in Slots, NEW id \in Ids, BeginChange(s, id) PROVE Fresh'
  <2>1. /\ To(s, "change", "saving", id, wallets[Position(wallets, id)].name,
              SelectOnly(wallets, id))
        /\ UNCHANGED <<wallets, disk, load, used>>
    BY <1>14, BeginChangeEffect
  <2>2. /\ WellFormed(wallets) => WellFormed(SelectOnly(wallets, id))
        /\ IdsOf(SelectOnly(wallets, id)) = IdsOf(wallets)
    BY <1>12, SelectedOnly
  <2> QED BY <1>6, <1>7, <2>1, <2>2
<1>15. ASSUME NEW s \in Slots, NEW name \in Names, BeginRename(s, name) PROVE Fresh'
  <2>1. /\ To(s, "rename", "saving", state.id, name, Renamed(wallets, state.id, name))
        /\ UNCHANGED <<wallets, disk, load, used>>
    BY <1>15, BeginRenameEffect
  <2>2. /\ WellFormed(wallets) => WellFormed(Renamed(wallets, state.id, name))
        /\ IdsOf(Renamed(wallets, state.id, name)) = IdsOf(wallets)
    BY <1>12, RenamedFacts
  <2> QED BY <1>6, <1>7, <2>1, <2>2
<1>16. ASSUME NEW s \in Slots, BeginUnlock(s) PROVE Fresh'
  <2>1. /\ To(s, "unlock", "deciphering", state.id, state.name, <<>>)
        /\ UNCHANGED <<wallets, disk, load, used>>
    BY <1>16, BeginUnlockEffect
  <2> QED BY <1>6, <1>7, <2>1
<1> QED BY <1>1, <1>2, <1>3, <1>4, <1>5, <1>10, <1>11, <1>13, <1>14, <1>15, <1>16
        DEF Next, LoadStep

-----------------------------------------------------------------------------
(* Carried: the wallet a save will make current is the selected one of its *)
(* list, and a removal leaves none selected; where the list was made for   *)
(* the current wallet, only if no unlock had set another one.              *)

InSave(stage) == stage \in {"saving", "filling", "written", "refused"}

Carries(kind, stage, id, name, list, race) ==
    InSave(stage) =>
       /\ kind \in {"add", "change"} => Has(list, id, name) /\ SelectsOnly(list, id)
       /\ kind = "rename" /\ ~ race => Has(list, id, name) /\ SelectsOnly(list, id)
       /\ kind = "remove" /\ ~ race => \A i \in DOMAIN list : ~ list[i].selected

Carried ==
    /\ \A s \in Slots :
          Carries(calls[s].kind, calls[s].phase, calls[s].id, calls[s].name, calls[s].list, raced)
    /\ CurrentWalletInList

LEMMA InitCarried == ASSUME Init PROVE Carried
BY DEF Init, NoCall, Carried, Carries, InSave, CurrentWalletInList, AgreesWith

LEMMA AgreesHas ==
    ASSUME NEW list, NEW current \in Current
    PROVE  AgreesWith(list, current) <=>
             Has(list, current.id, current.name) /\ SelectsOnly(list, current.id)
BY NoneAssumption DEF AgreesWith, Has, SelectsOnly

LEMMA CarriedTo ==
    ASSUME Carried, NEW s \in Slots, NEW kind, NEW stage, NEW id, NEW name, NEW list,
           To(s, kind, stage, id, name, list), ~ raced' => ~ raced,
           Carries(kind, stage, id, name, list, raced'),
           CurrentWalletInList'
    PROVE  Carried'
<1>1. ASSUME NEW t \in Slots
      PROVE  Carries(calls'[t].kind, calls'[t].phase, calls'[t].id, calls'[t].name,
                     calls'[t].list, raced')
  <2>1. CASE t = s BY <2>1 DEF To
  <2>2. CASE t # s
    <3>1. calls'[t] = calls[t] BY <2>2 DEF To
    <3>2. Carries(calls[t].kind, calls[t].phase, calls[t].id, calls[t].name,
                  calls[t].list, raced)
      BY DEF Carried
    <3> QED BY <3>1, <3>2 DEF Carries
  <2> QED BY <2>1, <2>2
<1> QED BY <1>1 DEF Carried

LEMMA CarriedStep ==
    ASSUME Types, Fresh, Carried, [Next]_vars PROVE Carried'
<1>0. /\ wallets \in Seq(Entry) /\ WellFormed(wallets)
      /\ load.list \in Seq(Entry) /\ WellFormed(load.list)
  BY LoadFacts DEF Types, TypeOK, Fresh, Lists
<1>1. ~ raced => AgreesWith(wallets, state) BY DEF Carried, CurrentWalletInList
<1>2. CASE LoadStep
  <2>1. calls' = calls /\ raced' = raced BY <1>0, <1>2, LoadStepEffect
  <2>2. CurrentWalletInList'
    <3>1. CASE Loaded
      <4>1. wallets' = load.list /\ state' = Initial(load.list) BY <1>0, <3>1, LoadedEffect
      <4> QED BY <1>0, <4>1, CurrentOfList DEF CurrentWalletInList
    <3>2. CASE ~ Loaded
      <4>1. wallets' = wallets /\ state' = state BY <1>0, <1>2, <3>2, LoadStepEffect
      <4> QED BY <1>1, <2>1, <4>1 DEF CurrentWalletInList
    <3> QED BY <3>1, <3>2
  <2> QED BY <2>1, <2>2 DEF Carried, Carries
<1>3. CASE Quit
  <2>1. /\ wallets' = <<>> /\ state' = None /\ \A t \in Slots : calls'[t] = NoCall
    BY <1>3, QuitEffect
  <2>2. CurrentWalletInList' BY <2>1 DEF CurrentWalletInList, AgreesWith
  <2> QED BY <2>1, <2>2 DEF Carried, Carries, InSave, NoCall
<1>4. CASE ResetImporting \/ UNCHANGED vars
  <2>1. UNCHANGED <<wallets, state, calls, raced>> BY <1>4, ResetEffect, StutterEffect
  <2> QED BY <2>1 DEF Carried, Carries, CurrentWalletInList
<1>5. CASE Lock
  <2>1. /\ UNCHANGED <<wallets, calls>> /\ state \in Current /\ state' \in Current
        /\ state'.id = state.id /\ state'.name = state.name /\ raced' = raced
    BY <1>5, LockEffect
  <2>2. CurrentWalletInList'
    BY <1>1, <2>1, AgreesHas DEF CurrentWalletInList
  <2> QED BY <2>1, <2>2 DEF Carried, Carries
<1>6. ASSUME UNCHANGED <<wallets, state>>, ~ raced' => ~ raced PROVE CurrentWalletInList'
  BY <1>1, <1>6 DEF CurrentWalletInList
<1>7. ASSUME NEW s \in Slots, NEW list, NEW current \in Current,
             wallets' = list, state' = current,
             ~ raced' => Has(list, current.id, current.name) /\ SelectsOnly(list, current.id)
      PROVE  CurrentWalletInList'
  BY <1>7, AgreesHas DEF CurrentWalletInList
<1>8. ASSUME NEW s \in Slots, NEW id \in Ids, NEW name \in Names, BeginAdd(s, id, name)
      PROVE  Carried'
  <2>1. PICK stage \in {"sealing", "deciphering"} : To(s, "add", stage, id, name, <<>>)
    BY <1>8, BeginAddEffect
  <2>2. UNCHANGED <<wallets, state, raced>> BY <1>8, BeginAddEffect
  <2> QED BY <1>6, <2>1, <2>2, CarriedTo DEF Carries, InSave
<1>9. ASSUME NEW s \in Slots, Sealed(s) PROVE Carried'
  <2> DEFINE new == WithNew(wallets, calls[s].id, calls[s].name)
  <2>1. /\ To(s, "add", "saving", calls[s].id, calls[s].name, new)
        /\ UNCHANGED <<wallets, state, raced>>
        /\ calls[s].id \in Ids /\ calls[s].name \in Names
    BY <1>9, SealedEffect
  <2>2. SelectsOnly(new, calls[s].id) /\ Has(new, calls[s].id, calls[s].name)
    BY <1>0, <2>1, WithNewFacts
  <2> HIDE DEF new
  <2>3. Carries("add", "saving", calls[s].id, calls[s].name, new, raced')
    BY <2>2 DEF Carries
  <2> QED BY <1>6, <2>1, <2>3, CarriedTo
<1>10. ASSUME NEW s \in Slots, NEW id \in Ids, BeginChange(s, id) PROVE Carried'
  <2> DEFINE new == SelectOnly(wallets, id)
             name == wallets[Position(wallets, id)].name
  <2>1. /\ To(s, "change", "saving", id, name, new)
        /\ UNCHANGED <<wallets, state, raced>> /\ id \in IdsOf(wallets)
    BY <1>10, BeginChangeEffect
  <2>2. SelectsOnly(new, id) /\ Has(new, id, name)
    BY <1>0, <2>1, SelectOnlyFacts, SelectedOnly, PositionFacts DEF Has
  <2> HIDE DEF new, name
  <2>3. Carries("change", "saving", id, name, new, raced') BY <2>2 DEF Carries
  <2> QED BY <1>6, <2>1, <2>3, CarriedTo
<1>11. ASSUME NEW s \in Slots, BeginRemove(s) PROVE Carried'
  <2> DEFINE new == Without(wallets, state.id)
  <2>1. /\ To(s, "remove", "saving", state.id, None, new)
        /\ UNCHANGED <<wallets, state, raced>> /\ state \in Current
    BY <1>11, BeginRemoveEffect
  <2>2. ~ raced => state.id \in IdsOf(wallets) /\ SelectsOnly(wallets, state.id)
    BY <1>1, <2>1, AgreesHas DEF Has, IdsOf
  <2>3. ~ raced => \A i \in DOMAIN new : ~ new[i].selected
    BY <1>0, <2>2, WithoutFacts
  <2> HIDE DEF new
  <2>4. Carries("remove", "saving", state.id, None, new, raced') BY <2>1, <2>3 DEF Carries
  <2> QED BY <1>6, <2>1, <2>4, CarriedTo
<1>12. ASSUME NEW s \in Slots, NEW name \in Names, BeginRename(s, name) PROVE Carried'
  <2> DEFINE new == Renamed(wallets, state.id, name)
  <2>1. /\ To(s, "rename", "saving", state.id, name, new)
        /\ UNCHANGED <<wallets, state, raced>> /\ state \in Current
    BY <1>12, BeginRenameEffect
  <2>2. ~ raced => state.id \in IdsOf(wallets) /\ SelectsOnly(wallets, state.id)
    BY <1>1, <2>1, AgreesHas DEF Has, IdsOf
  <2>3. ~ raced => Has(new, state.id, name) /\ SelectsOnly(new, state.id)
    BY <1>0, <2>2, RenamedFacts
  <2> HIDE DEF new
  <2>4. Carries("rename", "saving", state.id, name, new, raced') BY <2>1, <2>3 DEF Carries
  <2> QED BY <1>6, <2>1, <2>4, CarriedTo
<1>13. ASSUME NEW s \in Slots, BeginUnlock(s) PROVE Carried'
  <2>1. /\ To(s, "unlock", "deciphering", state.id, state.name, <<>>)
        /\ UNCHANGED <<wallets, state, raced>>
    BY <1>13, BeginUnlockEffect
  <2>2. Carries("unlock", "deciphering", state.id, state.name, <<>>, raced')
    BY DEF Carries, InSave
  <2> QED BY <1>6, <2>1, <2>2, CarriedTo
<1>14. ASSUME NEW s \in Slots, NEW stage, ToPhase(s, stage), raced' = raced,
              InSave(stage) => InSave(calls[s].phase), CurrentWalletInList'
       PROVE  Carried'
  <2>1. Carries(calls[s].kind, calls[s].phase, calls[s].id, calls[s].name,
                calls[s].list, raced)
    BY DEF Carried
  <2>2. Carries(calls[s].kind, stage, calls[s].id, calls[s].name, calls[s].list, raced')
    BY <1>14, <2>1 DEF Carries
  <2> QED BY <1>14, <2>2, CarriedTo DEF ToPhase
<1>15. ASSUME NEW s \in Slots, ToNone(s), ~ raced' => ~ raced, CurrentWalletInList'
       PROVE  Carried'
  <2>1. Carries("none", "idle", None, None, <<>>, raced') BY DEF Carries, InSave
  <2> QED BY <1>15, <2>1, CarriedTo DEF ToNone
<1>16. ASSUME NEW s \in Slots, Imported(s) \/ Open(s) \/ Fill(s) \/ SaveFails(s) \/ Unsubscribe(s)
       PROVE  Carried'
  <2>1. CASE Imported(s)
    BY <1>6, <1>14, <2>1, ImportedEffect DEF InSave
  <2>2. CASE Open(s) BY <1>6, <1>14, <2>2, OpenEffect DEF InSave
  <2>3. CASE Fill(s) BY <1>6, <1>14, <1>15, <2>3, FillEffect DEF InSave
  <2>5. CASE SaveFails(s)
    <3>1. /\ IF calls[s].kind = "abandoned" THEN ToNone(s) ELSE ToPhase(s, "refused")
          /\ InSave(calls[s].phase) /\ UNCHANGED <<wallets, state, raced>>
      BY <2>5, SaveFailsEffect DEF InSave
    <3>2. CurrentWalletInList' BY <1>6, <3>1
    <3> QED BY <1>14, <1>15, <3>1, <3>2
  <2>4. CASE Unsubscribe(s)
    <3>1. (ToNone(s) \/ ToAbandoned(s)) /\ UNCHANGED <<wallets, state, raced>>
      BY <2>4, UnsubscribeEffect
    <3>2. CurrentWalletInList' BY <1>6, <3>1
    <3>3. Carries("abandoned", calls[s].phase, calls[s].id, calls[s].name,
                  calls[s].list, raced')
      BY DEF Carries
    <3> QED BY <1>15, <3>1, <3>2, <3>3, CarriedTo DEF ToAbandoned
  <2> QED BY <1>16, <2>1, <2>2, <2>3, <2>4, <2>5
<1>17. ASSUME NEW s \in Slots, AddFails(s) \/ ChangeRefused(s) \/ UnlockFails(s)
       PROVE  Carried'
  <2>1. ToNone(s) /\ UNCHANGED <<wallets, state, raced>>
    BY <1>17, AddFailsEffect, ChangeRefusedEffect, UnlockFailsEffect
  <2> QED BY <1>6, <1>15, <2>1
<1>18. ASSUME NEW s \in Slots, Added(s) \/ Changed(s) \/ RenameDone(s)
       PROVE  Carried'
  <2>1. /\ ToNone(s) /\ wallets' = calls[s].list /\ raced' = raced
        /\ calls[s].kind \in {"add", "change", "rename"} /\ InSave(calls[s].phase)
        /\ \E unlocked \in BOOLEAN :
              state' = [id |-> calls[s].id, name |-> calls[s].name, unlocked |-> unlocked]
    BY <1>18, AddedEffect, ChangedEffect, RenameDoneEffect DEF InSave
  <2>2. calls[s].id \in Ids /\ calls[s].name \in Names BY <2>1 DEF Types, CallOK
  <2>3. state' \in Current /\ state'.id = calls[s].id /\ state'.name = calls[s].name
    BY <2>1, <2>2 DEF Current
  <2>4. Carries(calls[s].kind, calls[s].phase, calls[s].id, calls[s].name,
                calls[s].list, raced)
    BY DEF Carried
  <2>5. ~ raced => Has(calls[s].list, calls[s].id, calls[s].name)
                   /\ SelectsOnly(calls[s].list, calls[s].id)
    BY <2>1, <2>4 DEF Carries
  <2>6. CurrentWalletInList' BY <1>7, <2>1, <2>3, <2>5
  <2> QED BY <1>15, <2>1, <2>6
<1>19. ASSUME NEW s \in Slots, Removed(s) PROVE Carried'
  <2>1. /\ ToNone(s) /\ wallets' = calls[s].list /\ raced' = raced
        /\ calls[s].kind = "remove" /\ InSave(calls[s].phase)
        /\ state' = LastOf(calls[s].list)
    BY <1>19, RemovedEffect DEF InSave
  <2>2. Carries(calls[s].kind, calls[s].phase, calls[s].id, calls[s].name,
                calls[s].list, raced)
    BY DEF Carried
  <2>3. ~ raced => \A i \in DOMAIN calls[s].list : ~ calls[s].list[i].selected
    BY <2>1, <2>2 DEF Carries
  <2>4. calls[s].list \in Seq(Entry) BY CallFacts DEF Types
  <2>5. CurrentWalletInList' BY <2>1, <2>3, <2>4, CurrentOfList DEF CurrentWalletInList
  <2> QED BY <1>15, <2>1, <2>5
<1>20. ASSUME NEW s \in Slots, Unlocked(s) PROVE Carried'
  <2>1. /\ ToNone(s) /\ wallets' = wallets /\ state' \in Current
        /\ state' = [id |-> calls[s].id, name |-> calls[s].name, unlocked |-> TRUE]
        /\ ~ raced' => ~ raced /\ state # None /\ state.id = calls[s].id
                         /\ state.name = calls[s].name
    BY <1>20, UnlockedEffect
  <2>2. state'.id = calls[s].id /\ state'.name = calls[s].name BY <2>1
  <2>3. state \in Current \cup {None} BY DEF Types, TypeOK
  <2>4. CurrentWalletInList'
    BY <1>1, <2>1, <2>2, <2>3, AgreesHas DEF CurrentWalletInList
  <2> QED BY <1>15, <2>1, <2>4
<1> QED BY <1>2, <1>3, <1>4, <1>5, <1>8, <1>9, <1>10, <1>11, <1>12, <1>13, <1>16, <1>17,
           <1>18, <1>19, <1>20 DEF Next, LoadStep

-----------------------------------------------------------------------------
(* OneSave: a save that met no other, and no load, has the file to itself, *)
(* and so has a load that met no save; and while nothing is disturbed, the *)
(* file holds the wallets in memory until it is opened.                    *)

Alone ==
    ~ met =>
       /\ Loading => \A s \in Slots : ~ InSave(calls[s].phase)
       /\ \A s, t \in Slots : InSave(calls[s].phase) /\ InSave(calls[t].phase) => s = t
       /\ \A s \in Slots : calls[s].phase = "filling" => disk.form = "empty"
       /\ \A s \in Slots : calls[s].phase = "written" => disk = Json(calls[s].list)
       /\ load.phase = "filling" => disk.form = "empty"
       /\ load.phase = "read" => disk = Json(load.list)

Noted == met /\ (Loading \/ \E s \in Slots : InSave(calls[s].phase)) => disturbed

InStep ==
    ~ disturbed =>
       /\ \A s \in Slots : calls[s].kind # "abandoned"
       /\ (/\ load.phase \in {"reading", "opening", "failed", "done"}
           /\ \A s \in Slots : calls[s].phase \notin {"filling", "written"})
            => disk = Json(wallets)

OneSave == Alone /\ Noted /\ InStep

LEMMA InitOneSave == ASSUME Init PROVE OneSave
BY DEF Init, OneSave, Alone, Noted, InStep, NoCall, InSave

LEMMA AbandonedSaves ==
    ASSUME Types, NEW s \in Slots, calls[s].kind = "abandoned" PROVE InSave(calls[s].phase)
BY DEF Types, CallOK, InSave

LEMMA LoadingPhases ==
    ASSUME Types
    PROVE  /\ Loading <=> load.phase \in {"reading", "opening", "filling", "read"}
           /\ \A stage, list : LoadAt(stage, list) =>
                (Loading' <=> stage \in {"reading", "opening", "filling", "read"})
<1>1. load.phase \in Loads BY LoadFacts DEF Types
<1>2. \A stage, list : LoadAt(stage, list) => stage \in Loads /\ load'.phase = stage
  BY DEF LoadAt
<1> QED BY <1>1, <1>2 DEF Loading, Loads

(* The load.                                                               *)
LEMMA OneSaveLoad ==
    ASSUME Types, WellFormed(load.list), OneSave, LoadStep PROVE OneSave'
<1>1. calls' = calls BY LoadStepEffect
<1>2. CASE Read
  <2>1. /\ load.phase = "reading" /\ UNCHANGED <<wallets, disk, met, disturbed>>
        /\ \/ LoadAt("read", disk.list) /\ disk = Json(disk.list)
           \/ LoadAt("opening", <<>>) \/ LoadAt("failed", <<>>)
    BY <1>2, ReadEffect
  <2>2. Loading BY <2>1, LoadingPhases
  <2>3. /\ load'.phase \in {"read", "opening", "failed"}
        /\ load'.phase = "read" => disk = Json(load'.list)
    BY <2>1 DEF LoadAt
  <2>4. Alone' BY <1>1, <2>1, <2>2, <2>3 DEF OneSave, Alone
  <2>5. Noted' BY <2>1, <2>2 DEF OneSave, Noted
  <2>6. InStep' BY <1>1, <2>1, <2>3 DEF OneSave, InStep
  <2> QED BY <2>4, <2>5, <2>6 DEF OneSave
<1>3. CASE OpenEmpty
  <2>1. /\ load.phase = "opening" /\ UNCHANGED <<wallets, met, disturbed>>
        /\ load'.phase = "filling" /\ disk'.form = "empty"
    BY <1>3, OpenEmptyEffect DEF LoadAt
  <2>2. Loading BY <2>1, LoadingPhases
  <2>4. Alone' BY <1>1, <2>1, <2>2 DEF OneSave, Alone, InSave
  <2>5. Noted' BY <2>1, <2>2 DEF OneSave, Noted
  <2>6. InStep' BY <1>1, <2>1 DEF OneSave, InStep
  <2> QED BY <2>4, <2>5, <2>6 DEF OneSave
<1>4. CASE FillEmpty
  <2>1. /\ load.phase = "filling" /\ UNCHANGED <<wallets, met, disturbed>>
        /\ load'.phase = "read" /\ load'.list = <<>>
        /\ disk.form = "empty" => disk' = Json(<<>>)
    BY <1>4, FillEmptyEffect DEF LoadAt
  <2>2. Loading BY <2>1, LoadingPhases
  <2>4. Alone' BY <1>1, <2>1, <2>2 DEF OneSave, Alone, InSave
  <2>5. Noted' BY <2>1, <2>2 DEF OneSave, Noted
  <2>6. InStep' BY <1>1, <2>1 DEF OneSave, InStep
  <2> QED BY <2>4, <2>5, <2>6 DEF OneSave
<1>5. CASE LoadFails
  <2>1. /\ load.phase \in {"reading", "opening", "filling"} /\ UNCHANGED <<wallets, met>>
        /\ load'.phase = "failed"
        /\ \/ load.phase # "filling" /\ UNCHANGED <<disk, disturbed>>
           \/ load.phase = "filling" /\ disturbed' = TRUE
    BY <1>5, LoadFailsEffect DEF LoadAt
  <2>2. Loading BY <2>1, LoadingPhases
  <2>4. Alone' BY <1>1, <2>1, <2>2 DEF OneSave, Alone, InSave
  <2>3. met => disturbed BY <2>2 DEF OneSave, Noted
  <2>7. met' => disturbed'
    <3>1. CASE load.phase # "filling"
      <4>1. met' = met /\ disturbed' = disturbed BY <2>1, <3>1
      <4> QED BY <2>3, <4>1
    <3>2. CASE load.phase = "filling" BY <2>1, <3>2
    <3> QED BY <3>1, <3>2
  <2>5. Noted' BY <2>7 DEF Noted
  <2>6. InStep' BY <1>1, <2>1 DEF OneSave, InStep
  <2> QED BY <2>4, <2>5, <2>6 DEF OneSave
<1>6. CASE Loaded
  <2>1. /\ load.phase = "read" /\ UNCHANGED <<disk, met>> /\ disturbed' = met
        /\ load'.phase = "done" /\ wallets' = load.list
    BY <1>6, LoadedEffect DEF LoadAt
  <2>2. Loading BY <2>1, LoadingPhases
  <2>4. Alone' BY <1>1, <2>1, <2>2 DEF OneSave, Alone
  <2>5. Noted' BY <2>1 DEF Noted
  <2>6. InStep' BY <1>1, <2>1, <2>2, AbandonedSaves DEF OneSave, Alone, InStep
  <2> QED BY <2>4, <2>5, <2>6 DEF OneSave
<1>7. CASE Reload
  <2>1. /\ load.phase = "failed" /\ load'.phase = "reading" /\ UNCHANGED <<wallets, disk>>
        /\ ~ met' => \A s \in Slots : ~ InSave(calls[s].phase)
        /\ met' => disturbed'
        /\ ~ disturbed' => ~ disturbed
    BY <1>7, ReloadEffect DEF LoadAt, Saving, InSave
  <2>4. Alone' BY <1>1, <2>1 DEF Alone, InSave
  <2>5. Noted' BY <2>1 DEF Noted
  <2>6. InStep' BY <1>1, <2>1 DEF OneSave, InStep
  <2> QED BY <2>4, <2>5, <2>6 DEF OneSave
<1> QED BY <1>2, <1>3, <1>4, <1>5, <1>6, <1>7 DEF LoadStep

(* A call outside its save stays outside.                                  *)
LEMMA OneSaveOutside ==
    ASSUME Types, OneSave, NEW s \in Slots, NEW kind, NEW stage, NEW id, NEW name, NEW list,
           To(s, kind, stage, id, name, list),
           ~ InSave(calls[s].phase), ~ InSave(stage), kind # "abandoned",
           UNCHANGED <<wallets, disk, load, met, disturbed>>
    PROVE  OneSave'
<1>1. /\ calls'[s].kind # "abandoned" /\ ~ InSave(calls'[s].phase)
      /\ \A t \in Slots : t # s => calls'[t] = calls[t]
  BY DEF To
<1>2. \A t \in Slots : InSave(calls'[t].phase) => calls'[t] = calls[t] BY <1>1
<1>3. \A t \in Slots : InSave(calls[t].phase) => calls'[t] = calls[t] BY <1>1
<1>4. Alone' BY <1>2 DEF OneSave, Alone, Loading, InSave
<1>5. Noted' BY <1>2 DEF OneSave, Noted, Loading
<1>6. InStep' BY <1>1, <1>3 DEF OneSave, InStep, InSave
<1> QED BY <1>4, <1>5, <1>6 DEF OneSave

(* A save begins.                                                          *)
LEMMA OneSaveBegins ==
    ASSUME Types, OneSave, NEW s \in Slots, NEW kind, NEW id, NEW name, NEW list,
           To(s, kind, "saving", id, name, list), kind # "abandoned",
           ~ InSave(calls[s].phase), NoteSave(s), UNCHANGED <<wallets, disk, load>>
    PROVE  OneSave'
<1>1. /\ calls'[s].kind = kind /\ calls'[s].phase = "saving"
      /\ \A t \in Slots : t # s => calls'[t] = calls[t]
  BY DEF To
<1>2. /\ ~ met' => ~ Loading /\ \A t \in Slots : t # s => ~ InSave(calls[t].phase)
      /\ met' => disturbed'
      /\ ~ disturbed' => ~ disturbed
  BY NoteSaveEffect DEF Saving, InSave
<1>3. Alone' BY <1>1, <1>2 DEF Alone, Loading, InSave
<1>4. Noted' BY <1>2 DEF Noted
<1>5. InStep' BY <1>1, <1>2 DEF OneSave, InStep, InSave
<1> QED BY <1>3, <1>4, <1>5 DEF OneSave

(* The file is opened, filled, or neither.                                 *)
LEMMA OneSaveWrites ==
    ASSUME Types, OneSave, NEW s \in Slots, UNCHANGED <<wallets, load, met>>,
           \/ /\ calls[s].phase = "saving" /\ ToPhase(s, "filling")
              /\ disk'.form = "empty" /\ disturbed' = disturbed
           \/ /\ calls[s].phase = "filling" /\ disturbed' = disturbed
              /\ IF calls[s].kind = "abandoned" THEN ToNone(s) ELSE ToPhase(s, "written")
              /\ disk.form = "empty" => disk' = Json(calls[s].list)
           \/ /\ calls[s].phase \in {"saving", "filling"}
              /\ IF calls[s].kind = "abandoned" THEN ToNone(s) ELSE ToPhase(s, "refused")
              /\ \/ calls[s].phase = "saving" /\ UNCHANGED <<disk, disturbed>>
                 \/ disturbed' = TRUE
    PROVE  OneSave'
<1>1. InSave(calls[s].phase) BY DEF InSave
<1>2. /\ \A t \in Slots : t # s => calls'[t] = calls[t]
      /\ calls'[s].phase \in {"filling", "written", "refused", "idle"}
      /\ calls'[s].kind \in {calls[s].kind, "none"}
      /\ InSave(calls'[s].phase) => calls'[s].list = calls[s].list
      /\ calls'[s].phase = "idle" => calls[s].kind = "abandoned"
  BY DEF ToPhase, ToNone, To, InSave
<1>3. ~ met => /\ \A t \in Slots : t # s => ~ InSave(calls[t].phase)
               /\ ~ Loading
  BY <1>1 DEF OneSave, Alone
<1>4. met' = met /\ load' = load /\ (Loading' <=> Loading) BY DEF Loading
<1>5. ~ met => load.phase \notin {"filling", "read"} BY <1>3 DEF Loading
<1>6. ~ met => /\ calls'[s].phase = "filling" => disk'.form = "empty"
               /\ calls'[s].phase = "written" => disk' = Json(calls'[s].list)
  BY <1>2 DEF OneSave, Alone, ToPhase, ToNone, To, InSave
<1>7. Alone' BY <1>2, <1>3, <1>4, <1>5, <1>6 DEF Alone, InSave
<1>8. Noted' BY <1>1, <1>4 DEF OneSave, Noted
<1>9. InStep'
  <2> SUFFICES ASSUME ~ disturbed' PROVE InStep' BY DEF InStep
  <2>1. ~ disturbed BY <1>2
  <2>2. ~ met BY <1>1, <2>1 DEF OneSave, Noted
  <2>3. calls[s].kind # "abandoned" /\ \A t \in Slots : calls'[t].kind # "abandoned"
    BY <1>2, <2>1 DEF OneSave, InStep
  <2>4. CASE calls'[s].phase \in {"filling", "written"} BY <2>3, <2>4 DEF InStep
  <2>5. CASE calls'[s].phase \notin {"filling", "written"}
    <3>1. calls[s].phase = "saving" /\ disk' = disk BY <2>3, <2>5 DEF ToPhase, To
    <3>2. \A t \in Slots : calls[t].phase \notin {"filling", "written"}
      BY <1>3, <2>2, <3>1 DEF InSave
    <3> QED BY <2>1, <2>3, <3>1, <3>2, <1>4 DEF OneSave, InStep
  <2> QED BY <2>4, <2>5
<1> QED BY <1>7, <1>8, <1>9 DEF OneSave

(* The answer sets the list, or leaves it as it was.                       *)
LEMMA OneSaveAnswered ==
    ASSUME Types, OneSave, NEW s \in Slots, ToNone(s), InSave(calls[s].phase),
           UNCHANGED <<disk, load, met>>,
           met => disturbed',
           ~ disturbed' =>
              \/ calls[s].phase = "written" /\ wallets' = calls[s].list
              \/ ~ disturbed /\ calls[s].phase = "refused" /\ wallets' = wallets
    PROVE  OneSave'
<1>1. /\ calls'[s].kind = "none" /\ calls'[s].phase = "idle"
      /\ \A t \in Slots : t # s => calls'[t] = calls[t]
  BY DEF ToNone, To
<1>2. \A t \in Slots : InSave(calls'[t].phase) => calls'[t] = calls[t] BY <1>1 DEF InSave
<1>3. Alone' BY <1>2 DEF OneSave, Alone, Loading, InSave
<1>4. Noted' BY DEF Noted
<1>5. InStep'
  <2> SUFFICES ASSUME ~ disturbed' PROVE InStep' BY DEF InStep
  <2>1. ~ met OBVIOUS
  <2>2. \A t \in Slots : t # s => ~ InSave(calls[t].phase) BY <2>1 DEF OneSave, Alone
  <2>3. \A t \in Slots : ~ InSave(calls'[t].phase) /\ calls'[t].kind # "abandoned"
    BY <1>1, <2>2, AbandonedSaves DEF InSave
  <2>4. disk' = Json(wallets')
    <3>1. CASE calls[s].phase = "written" BY <2>1, <3>1 DEF OneSave, Alone
    <3>2. CASE calls[s].phase = "refused"
      <4>1. \A t \in Slots : calls[t].phase \notin {"filling", "written"}
        BY <2>2, <3>2 DEF InSave
      <4>2. ~ Loading BY <2>1 DEF OneSave, Alone
      <4>3. load.phase \in {"failed", "done"} BY <4>2 DEF Loading
      <4> QED BY <3>2, <4>1, <4>3 DEF OneSave, InStep
    <3> QED BY <3>1, <3>2
  <2> QED BY <2>3, <2>4 DEF InStep
<1> QED BY <1>3, <1>4, <1>5 DEF OneSave

LEMMA OneSaveStep ==
    ASSUME Types, Fresh, OneSave, [Next]_vars PROVE OneSave'
<1>0. WellFormed(load.list) BY DEF Fresh, Lists
<1>1. CASE LoadStep BY <1>0, <1>1, OneSaveLoad
<1>2. CASE Quit
  <2>1. /\ met' = FALSE /\ disturbed' = TRUE /\ load'.phase = "reading"
        /\ \A s \in Slots : calls'[s].phase = "idle"
    BY <1>2, QuitEffect DEF LoadAt, NoCall
  <2> QED BY <2>1 DEF OneSave, Alone, Noted, InStep, InSave
<1>3. CASE ResetImporting \/ UNCHANGED vars \/ Lock
  <2>1. UNCHANGED <<wallets, disk, load, calls, met, disturbed>>
    BY <1>3, ResetEffect, StutterEffect, LockEffect
  <2> QED BY <2>1 DEF OneSave, Alone, Noted, InStep, Loading
<1>8. ASSUME NEW s \in Slots, NEW id \in Ids, NEW name \in Names, BeginAdd(s, id, name)
      PROVE  OneSave'
  <2>1. PICK stage \in {"sealing", "deciphering"} : To(s, "add", stage, id, name, <<>>)
    BY <1>8, BeginAddEffect
  <2>2. UNCHANGED <<wallets, disk, load, met, disturbed>> /\ calls[s].phase = "idle"
    BY <1>8, BeginAddEffect DEF Free
  <2> QED BY <2>1, <2>2, OneSaveOutside DEF InSave
<1>9. ASSUME NEW s \in Slots, Imported(s) \/ AddFails(s) PROVE OneSave'
  <2>1. CASE Imported(s) BY <2>1, OneSaveOutside, ImportedEffect DEF ToPhase, InSave
  <2>2. CASE AddFails(s) BY <2>2, OneSaveOutside, AddFailsEffect DEF ToNone, InSave
  <2> QED BY <1>9, <2>1, <2>2
<1>10. ASSUME NEW s \in Slots, BeginUnlock(s) PROVE OneSave'
  BY <1>10, OneSaveOutside, BeginUnlockEffect DEF InSave, Free
<1>11. ASSUME NEW s \in Slots, Unlocked(s) \/ UnlockFails(s) PROVE OneSave'
  <2>1. /\ ToNone(s) /\ calls[s].kind = "unlock"
        /\ UNCHANGED <<wallets, disk, load, met, disturbed>>
    BY <1>11, UnlockedEffect, UnlockFailsEffect
  <2>2. ~ InSave(calls[s].phase) BY <2>1 DEF Types, CallOK, InSave
  <2> QED BY <2>1, <2>2, OneSaveOutside DEF ToNone, InSave
<1>12. ASSUME NEW s \in Slots, Sealed(s) PROVE OneSave'
  BY <1>12, OneSaveBegins, SealedEffect DEF InSave
<1>13. ASSUME NEW s \in Slots, BeginRemove(s) PROVE OneSave'
  BY <1>13, OneSaveBegins, BeginRemoveEffect DEF Free, InSave
<1>14. ASSUME NEW s \in Slots, NEW id \in Ids, BeginChange(s, id) PROVE OneSave'
  BY <1>14, OneSaveBegins, BeginChangeEffect DEF Free, InSave
<1>15. ASSUME NEW s \in Slots, NEW name \in Names, BeginRename(s, name) PROVE OneSave'
  BY <1>15, OneSaveBegins, BeginRenameEffect DEF Free, InSave
<1>16. ASSUME NEW s \in Slots, Open(s) \/ Fill(s) \/ SaveFails(s) PROVE OneSave'
  <2>1. CASE Open(s) BY <2>1, OneSaveWrites, OpenEffect
  <2>2. CASE Fill(s) BY <2>2, OneSaveWrites, FillEffect
  <2>3. CASE SaveFails(s) BY <2>3, OneSaveWrites, SaveFailsEffect
  <2> QED BY <1>16, <2>1, <2>2, <2>3
<1>17. ASSUME NEW s \in Slots, Unsubscribe(s) PROVE OneSave'
  <2>1. /\ ToNone(s) \/ ToAbandoned(s)
        /\ disturbed' = TRUE /\ UNCHANGED <<disk, load, met>>
    BY <1>17, UnsubscribeEffect
  <2>2. \A t \in Slots : InSave(calls'[t].phase) =>
            calls'[t].phase = calls[t].phase /\ calls'[t].list = calls[t].list
    BY <2>1 DEF ToNone, ToAbandoned, To, InSave
  <2>3. Alone' BY <2>1, <2>2 DEF OneSave, Alone, Loading, InSave
  <2> QED BY <2>1, <2>3 DEF OneSave, Noted, InStep
<1>18. ASSUME NEW s \in Slots,
              Added(s) \/ Removed(s) \/ Changed(s) \/ RenameDone(s) \/ ChangeRefused(s)
       PROVE  OneSave'
  <2>1. CASE Added(s) BY <2>1, OneSaveAnswered, AddedEffect DEF InSave
  <2>2. CASE Removed(s) BY <2>2, OneSaveAnswered, RemovedEffect DEF InSave
  <2>3. CASE Changed(s) BY <2>3, OneSaveAnswered, ChangedEffect DEF InSave
  <2>4. CASE RenameDone(s) BY <2>4, OneSaveAnswered, RenameDoneEffect DEF InSave
  <2>5. CASE ChangeRefused(s)
    <3>1. /\ ToNone(s) /\ calls[s].phase = "refused" /\ InSave(calls[s].phase)
          /\ UNCHANGED <<wallets, disk, load, met, disturbed>>
      BY <2>5, ChangeRefusedEffect DEF InSave
    <3>2. met => disturbed BY <3>1 DEF OneSave, Noted
    <3> QED BY <3>1, <3>2, OneSaveAnswered
  <2> QED BY <1>18, <2>1, <2>2, <2>3, <2>4, <2>5
<1> QED BY <1>1, <1>2, <1>3, <1>8, <1>9, <1>10, <1>11, <1>12, <1>13, <1>14, <1>15, <1>16,
           <1>17, <1>18 DEF Next, LoadStep

-----------------------------------------------------------------------------
(* Kept: while nothing is lost, the user's wallets are where the next step *)
(* takes the list from: the file until it is loaded, and then memory and   *)
(* the one list on its way to the file.                                    *)

KeptAt(stage) ==
    /\ stage \in {"reading", "failed", "read"} => owned \subseteq IdsOf(disk.list)
    /\ stage \in {"opening", "filling"} => owned = {}
    /\ stage = "read" => owned \subseteq IdsOf(load.list)
    /\ stage = "done" => owned \subseteq IdsOf(wallets)
    /\ stage # "done" => \A s \in Slots : ~ InSave(calls[s].phase)

Kept ==
    ~ lost =>
       /\ KeptAt(load.phase)
       /\ \A s, t \in Slots : InSave(calls[s].phase) /\ InSave(calls[t].phase) => s = t
       /\ \A s \in Slots : InSave(calls[s].phase) =>
             /\ owned \subseteq IdsOf(calls[s].list)
             /\ calls[s].kind = "add" => calls[s].id \in IdsOf(calls[s].list)

LEMMA InitKept == ASSUME Init PROVE Kept
<1>1. \A s \in Slots : ~ InSave(calls[s].phase) BY DEF Init, NoCall, InSave
<1>2. load.phase = "reading" /\ owned = IdsOf(disk.list) BY DEF Init
<1> QED BY <1>1, <1>2 DEF Kept, KeptAt

LEMMA EmptyList == IdsOf(<<>>) = {}
BY DEF IdsOf

LEMMA KeptLoad ==
    ASSUME Types, WellFormed(load.list), Kept, LoadStep PROVE Kept'
<1>0. UNCHANGED <<calls, owned, lost>> BY LoadStepEffect
<1> SUFFICES ASSUME ~ lost PROVE KeptAt(load.phase)'
  BY <1>0 DEF Kept
<1>1. KeptAt(load.phase) BY DEF Kept
<1>2. CASE Read
  <2>1. /\ load.phase = "reading" /\ disk' = disk
        /\ \/ load'.phase = "read" /\ load'.list = disk.list
           \/ load'.phase \in {"opening", "failed"} /\ disk.list = <<>>
    BY <1>2, ReadEffect DEF LoadAt
  <2> QED BY <1>0, <1>1, <2>1, EmptyList DEF KeptAt
<1>3. CASE OpenEmpty
  <2>1. load.phase = "opening" /\ load'.phase = "filling" BY <1>3, OpenEmptyEffect DEF LoadAt
  <2> QED BY <1>0, <1>1, <2>1 DEF KeptAt
<1>4. CASE FillEmpty
  <2>1. load.phase = "filling" /\ load'.phase = "read" BY <1>4, FillEmptyEffect DEF LoadAt
  <2> QED BY <1>0, <1>1, <2>1 DEF KeptAt
<1>5. CASE LoadFails
  <2>1. /\ load'.phase = "failed"
        /\ \/ load.phase \in {"opening", "filling"}
           \/ load.phase = "reading" /\ disk' = disk
    BY <1>5, LoadFailsEffect DEF LoadAt
  <2> QED BY <1>0, <1>1, <2>1 DEF KeptAt
<1>6. CASE Loaded
  <2>1. load.phase = "read" /\ load'.phase = "done" /\ wallets' = load.list
    BY <1>6, LoadedEffect DEF LoadAt
  <2> QED BY <1>0, <1>1, <2>1 DEF KeptAt
<1>7. CASE Reload
  <2>1. load.phase = "failed" /\ load'.phase = "reading" /\ disk' = disk
    BY <1>7, ReloadEffect DEF LoadAt
  <2> QED BY <1>0, <1>1, <2>1 DEF KeptAt
<1> QED BY <1>2, <1>3, <1>4, <1>5, <1>6, <1>7 DEF LoadStep

(* A call goes on, or ends, and no list changes but the file.              *)
LEMMA KeptMove ==
    ASSUME Types, Kept, NEW s \in Slots, UNCHANGED <<wallets, load, owned, lost>>,
           \A t \in Slots : t # s => calls'[t] = calls[t],
           \/ ~ InSave(calls'[s].phase)
           \/ /\ InSave(calls[s].phase) /\ UNCHANGED <<calls[s].list, calls[s].id>>
              /\ calls'[s].kind \in {calls[s].kind, "abandoned"},
           disk' = disk \/ InSave(calls[s].phase)
    PROVE  Kept'
<1> SUFFICES ASSUME ~ lost PROVE Kept' BY DEF Kept
<1>1. \A t \in Slots : InSave(calls'[t].phase) =>
        /\ InSave(calls[t].phase) /\ calls'[t].list = calls[t].list
        /\ calls'[t].kind = "add" => calls[t].kind = "add" /\ calls'[t].id = calls[t].id
  OBVIOUS
<1>2. InSave(calls[s].phase) => load.phase = "done" BY DEF Kept, KeptAt
<1>3. KeptAt(load.phase)' BY <1>1, <1>2 DEF Kept, KeptAt
<1> QED BY <1>1, <1>3 DEF Kept

(* A save begins, with a list that leaves out no wallet but a removed one. *)
LEMMA KeptBegins ==
    ASSUME Types, Kept, NEW s \in Slots, NEW kind, NEW id, NEW name, NEW list,
           To(s, kind, "saving", id, name, list), NoteSave(s),
           UNCHANGED <<wallets, disk, load>>,
           owned' \subseteq owned, owned \subseteq IdsOf(wallets) => owned' \subseteq IdsOf(list),
           kind = "add" => id \in IdsOf(list)
    PROVE  Kept'
<1> SUFFICES ASSUME ~ lost' PROVE Kept' BY DEF Kept
<1>1. ~ lost /\ load.phase = "done" /\ \A t \in Slots : t # s => ~ InSave(calls[t].phase)
  BY NoteSaveEffect DEF Saving, InSave
<1>2. owned \subseteq IdsOf(wallets) BY <1>1 DEF Kept, KeptAt
<1>3. /\ calls'[s].kind = kind /\ calls'[s].id = id /\ calls'[s].list = list
      /\ \A t \in Slots : t # s => calls'[t] = calls[t]
  BY DEF To
<1>4. KeptAt(load.phase)' BY <1>1, <1>2 DEF KeptAt
<1> QED BY <1>1, <1>2, <1>3, <1>4 DEF Kept

(* The answer sets the list, which has the wallets of the user.            *)
LEMMA KeptAnswered ==
    ASSUME Types, Kept, NEW s \in Slots, ToNone(s), InSave(calls[s].phase),
           wallets' = calls[s].list, UNCHANGED <<disk, load, lost>>,
           \/ owned' = owned
           \/ calls[s].kind = "add" /\ owned' = owned \cup {calls[s].id}
    PROVE  Kept'
<1> SUFFICES ASSUME ~ lost PROVE Kept' BY DEF Kept
<1>1. load.phase = "done" /\ owned' \subseteq IdsOf(calls[s].list) BY DEF Kept, KeptAt
<1>2. \A t \in Slots : ~ InSave(calls'[t].phase) BY DEF Kept, ToNone, To, InSave
<1>3. KeptAt(load.phase)' BY <1>1, <1>2 DEF KeptAt
<1> QED BY <1>2, <1>3 DEF Kept

LEMMA KeptQuit ==
    ASSUME Types, OneSave, Kept, Quit PROVE Kept'
<1>1. /\ load'.phase = "reading" /\ UNCHANGED <<disk, owned>>
      /\ \A s \in Slots : calls'[s].phase = "idle"
      /\ ~ lost' => /\ ~ lost
                    /\ load.phase = "done" => ~ disturbed
                    /\ \A s \in Slots : calls[s].phase # "filling"
  BY QuitEffect DEF LoadAt, NoCall
<1> SUFFICES ASSUME ~ lost' PROVE owned \subseteq IdsOf(disk.list)
  BY <1>1 DEF Kept, KeptAt, InSave
<1>2. KeptAt(load.phase) BY <1>1 DEF Kept
<1>3. CASE load.phase # "done"
  <2>1. load.phase \in Loads BY LoadFacts DEF Types
  <2> QED BY <1>2, <1>3, <2>1 DEF KeptAt, Loads
<1>4. CASE load.phase = "done"
  <2>1. ~ disturbed BY <1>1, <1>4
  <2>2. CASE \E s \in Slots : calls[s].phase = "written"
    <3>1. PICK s \in Slots : calls[s].phase = "written" BY <2>2
    <3>2. InSave(calls[s].phase) BY <3>1 DEF InSave
    <3>3. ~ met BY <2>1, <3>2 DEF OneSave, Noted
    <3>4. disk = Json(calls[s].list) BY <3>1, <3>3 DEF OneSave, Alone
    <3>5. owned \subseteq IdsOf(calls[s].list) BY <1>1, <3>2 DEF Kept
    <3> QED BY <3>4, <3>5 DEF Json
  <2>3. CASE \A s \in Slots : calls[s].phase # "written"
    <3>1. disk = Json(wallets) BY <1>1, <1>4, <2>1, <2>3 DEF OneSave, InStep
    <3> QED BY <1>2, <1>4, <3>1 DEF KeptAt, Json
  <2> QED BY <2>2, <2>3
<1> QED BY <1>3, <1>4

LEMMA KeptStep ==
    ASSUME Types, Fresh, OneSave, Kept, [Next]_vars PROVE Kept'
<1>0. WellFormed(load.list) /\ wallets \in Seq(Entry) BY DEF Types, TypeOK, Fresh, Lists
<1>1. CASE LoadStep BY <1>0, <1>1, KeptLoad
<1>2. CASE Quit BY <1>2, KeptQuit
<1>3. CASE ResetImporting \/ UNCHANGED vars \/ Lock
  <2>1. UNCHANGED <<wallets, disk, load, calls, owned, lost>>
    BY <1>3, ResetEffect, StutterEffect, LockEffect
  <2> QED BY <2>1 DEF Kept, KeptAt
<1>4. ASSUME NEW s \in Slots, NEW id \in Ids, NEW name \in Names, BeginAdd(s, id, name)
      PROVE  Kept'
  <2>1. PICK stage \in {"sealing", "deciphering"} : To(s, "add", stage, id, name, <<>>)
    BY <1>4, BeginAddEffect
  <2>2. UNCHANGED <<wallets, disk, load, owned, lost>> BY <1>4, BeginAddEffect
  <2> QED BY <2>1, <2>2, KeptMove DEF To, InSave
<1>5. ASSUME NEW s \in Slots,
             Imported(s) \/ AddFails(s) \/ ChangeRefused(s) \/ Unlocked(s) \/ UnlockFails(s)
      PROVE  Kept'
  <2>1. /\ UNCHANGED <<wallets, disk, load, owned, lost>>
        /\ ToNone(s) \/ ToPhase(s, "sealing")
    BY <1>5, ImportedEffect, AddFailsEffect, ChangeRefusedEffect, UnlockedEffect,
       UnlockFailsEffect
  <2> QED BY <2>1, KeptMove DEF ToNone, ToPhase, To, InSave
<1>6. ASSUME NEW s \in Slots, BeginUnlock(s) PROVE Kept'
  BY <1>6, KeptMove, BeginUnlockEffect DEF To, InSave
<1>7. ASSUME NEW s \in Slots, Unsubscribe(s) PROVE Kept'
  <2>1. /\ UNCHANGED <<wallets, disk, load, owned, lost>>
        /\ ToNone(s) \/ ToAbandoned(s)
    BY <1>7, UnsubscribeEffect
  <2> QED BY <2>1, KeptMove DEF ToNone, ToAbandoned, To, InSave
<1>8. ASSUME NEW s \in Slots, Open(s) \/ Fill(s) \/ SaveFails(s) PROVE Kept'
  <2>1. /\ InSave(calls[s].phase) /\ UNCHANGED <<wallets, load, owned, lost>>
        /\ \/ ToNone(s) \/ ToPhase(s, "filling") \/ ToPhase(s, "written")
           \/ ToPhase(s, "refused")
    BY <1>8, OpenEffect, FillEffect, SaveFailsEffect DEF InSave
  <2> QED BY <2>1, KeptMove DEF ToNone, ToPhase, To, InSave
<1>9. ASSUME NEW s \in Slots, Sealed(s) PROVE Kept'
  <2>1. /\ To(s, "add", "saving", calls[s].id, calls[s].name,
              WithNew(wallets, calls[s].id, calls[s].name))
        /\ NoteSave(s) /\ UNCHANGED <<wallets, disk, load, owned>>
        /\ calls[s].id \in Ids /\ calls[s].name \in Names
    BY <1>9, SealedEffect
  <2>2. IdsOf(WithNew(wallets, calls[s].id, calls[s].name)) = IdsOf(wallets) \cup {calls[s].id}
    BY <1>0, <2>1, WithNewFacts
  <2> QED BY <2>1, <2>2, KeptBegins
<1>10. ASSUME NEW s \in Slots, BeginRemove(s) PROVE Kept'
  <2>1. /\ To(s, "remove", "saving", state.id, None, Without(wallets, state.id))
        /\ NoteSave(s) /\ UNCHANGED <<wallets, disk, load>> /\ owned' = owned \ {state.id}
    BY <1>10, BeginRemoveEffect
  <2>2. IdsOf(wallets) \ {state.id} \subseteq IdsOf(Without(wallets, state.id))
    BY <1>0, WithoutFacts
  <2> QED BY <2>1, <2>2, KeptBegins
<1>11. ASSUME NEW s \in Slots, NEW id \in Ids, BeginChange(s, id) PROVE Kept'
  <2>1. /\ To(s, "change", "saving", id, wallets[Position(wallets, id)].name,
              SelectOnly(wallets, id))
        /\ NoteSave(s) /\ UNCHANGED <<wallets, disk, load, owned>>
    BY <1>11, BeginChangeEffect
  <2>2. IdsOf(SelectOnly(wallets, id)) = IdsOf(wallets) BY <1>0, SelectedOnly
  <2> QED BY <2>1, <2>2, KeptBegins
<1>12. ASSUME NEW s \in Slots, NEW name \in Names, BeginRename(s, name) PROVE Kept'
  <2>1. /\ To(s, "rename", "saving", state.id, name, Renamed(wallets, state.id, name))
        /\ NoteSave(s) /\ UNCHANGED <<wallets, disk, load, owned>>
    BY <1>12, BeginRenameEffect
  <2>2. IdsOf(Renamed(wallets, state.id, name)) = IdsOf(wallets) BY <1>0, RenamedFacts
  <2> QED BY <2>1, <2>2, KeptBegins
<1>13. ASSUME NEW s \in Slots, Added(s) \/ Removed(s) \/ Changed(s) \/ RenameDone(s)
       PROVE  Kept'
  <2>1. CASE Added(s) BY <2>1, KeptAnswered, AddedEffect DEF InSave
  <2>2. CASE Removed(s) BY <2>2, KeptAnswered, RemovedEffect DEF InSave
  <2>3. CASE Changed(s) BY <2>3, KeptAnswered, ChangedEffect DEF InSave
  <2>4. CASE RenameDone(s) BY <2>4, KeptAnswered, RenameDoneEffect DEF InSave
  <2> QED BY <1>13, <2>1, <2>2, <2>3, <2>4
<1> QED BY <1>1, <1>2, <1>3, <1>4, <1>5, <1>6, <1>7, <1>8, <1>9, <1>10, <1>11, <1>12, <1>13
        DEF Next, LoadStep

-----------------------------------------------------------------------------
(* Theorems                                                                *)

IInv == Types /\ Fresh /\ Carried /\ OneSave /\ Kept

LEMMA InductiveInvariant == Spec => []IInv
<1>1. Init => IInv BY InitTypes, InitFresh, InitCarried, InitOneSave, InitKept DEF IInv
<1>2. IInv /\ [Next]_vars => IInv'
  <2> SUFFICES ASSUME IInv, [Next]_vars PROVE IInv' OBVIOUS
  <2>1. WellFormed(load.list) BY DEF IInv, Fresh, Lists
  <2> QED BY <2>1, TypesStep, FreshStep, CarriedStep, OneSaveStep, KeptStep DEF IInv
<1> QED BY <1>1, <1>2, PTL DEF Spec

(* The types, of the list a call carries to the disk as well.              *)
THEOREM TypeCorrect == Spec => []TypeOK
<1>1. IInv => TypeOK BY DEF IInv, Types
<1> QED BY <1>1, InductiveInvariant, PTL

(* addKeystoreWallet draws an id before it encrypts and makes its list     *)
(* after, while other calls make theirs: still no list, in memory, on disk *)
(* or on its way there, holds an id twice or selects two wallets.          *)
THEOREM ListsStayWellFormed == Spec => []ListsWellFormed
<1>1. IInv => ListsWellFormed BY DEF IInv, Fresh, Lists, ListsWellFormed
<1> QED BY <1>1, InductiveInvariant, PTL

(* Whatever calls overlap, fail or are abandoned, the current wallet is the *)
(* selected one of the list, or the list is empty, as long as no unlock    *)
(* finished after the wallet it was entered for had been changed.          *)
THEOREM CurrentStaysInList == Spec => []CurrentWalletInList
<1>1. IInv => CurrentWalletInList BY DEF IInv, Carried
<1> QED BY <1>1, InductiveInvariant, PTL

(* wallets.json, which every save empties before it fills it, is the list  *)
(* in memory whenever no save is between its opening and its answer, from  *)
(* the first load or save that goes well and meets no other until one that *)
(* does not, and again from the next that does.                            *)
THEOREM DiskAgrees == Spec => []DiskAgreesUnlessDisturbed
<1>1. IInv => DiskAgreesUnlessDisturbed
  BY DEF IInv, OneSave, InStep, DiskAgreesUnlessDisturbed, Loading, Json
<1> QED BY <1>1, InductiveInvariant, PTL

(* However often the app is restarted, loads fail and saves are refused,   *)
(* the list that is loaded has every wallet of the user: from the file of  *)
(* the first start, or added since, and not removed.                       *)
THEOREM OnlyRemovalForgets == Spec => []ForgottenOnlyByRemoval
<1>1. IInv => ForgottenOnlyByRemoval BY DEF IInv, Kept, KeptAt, ForgottenOnlyByRemoval
<1> QED BY <1>1, InductiveInvariant, PTL

-----------------------------------------------------------------------------
(* The import of the host's wallets                                         *)

ImportPhases == MigrationPhases \ {"off", "begin", "running", "skipping"}
Sourced == ImportPhases \ {"selecting"}

(* While an import runs the sandbox has neither a marker nor, if its store *)
(* was read, wallets; a skip is under way only for a store with wallets.   *)
SandboxInv ==
    /\ phase \in ImportPhases \cup {"skipping"} => ~dest.marker
    /\ phase \in ImportPhases => dest.wallets = {} \/ misread
    /\ phase = "skipping" => dest.wallets # {}

(* The chosen store has wallets, and what it holds was offered.            *)
SourceInv ==
    /\ \A h \in Hosts : hosts[h].wallets \in offers
    /\ phase \in Sourced => hosts[source].wallets # {}

(* The marker is in the staging directory exactly when the code may move   *)
(* the directory; unless a removal was torn, such a directory is complete. *)
StagingInv ==
    /\ ~staging.there => ~staging.marker /\ staging.whole /\ staging.wallets = {}
    /\ phase = "copied" => staging.there
    /\ phase \in {"promoteRemove", "promoteMove", "removing", "moving"}
          => staging.marker
    /\ torn \/ (staging.marker => staging.whole
                                  /\ staging.wallets \in offers \ {{}})
    /\ torn \/ (phase = "copying" => ~staging.marker
                             /\ staging.wallets \subseteq hosts[source].wallets)
    /\ torn \/ (phase = "copied" => staging.whole
                             /\ staging.wallets = hosts[source].wallets)

MigrationInv ==
    /\ MigrationTypeOK
    /\ HalfCopyNeverLive
    /\ NeverRepeats
    /\ SandboxInv
    /\ SourceInv
    /\ StagingInv

-----------------------------------------------------------------------------
(* rankCandidates picks one of the candidates it is given.                 *)
LEMMA NewestIsCandidate ==
    ASSUME MigrationTypeOK, NEW candidates \in SUBSET Hosts, candidates # {}
    PROVE  Newest(candidates) \in candidates
<1> USE DEF MigrationTypeOK, Hosts
<1> DEFINE Best(h) == \A g \in candidates \ {h} :
              \/ hosts[h].mtime > hosts[g].mtime
              \/ hosts[h].mtime = hosts[g].mtime /\ h = Legacy
<1>1. \E h \in candidates : Best(h)
    <2>1. CASE candidates = {Native}
        BY <2>1
    <2>2. CASE candidates = {Legacy}
        BY <2>2
    <2>3. CASE candidates = {Native, Legacy}
        <3>1. hosts[Native].mtime \in Nat /\ hosts[Legacy].mtime \in Nat
            OBVIOUS
        <3>2. CASE hosts[Native].mtime > hosts[Legacy].mtime
            BY <2>3, <3>1, <3>2 DEF Best
        <3>3. CASE hosts[Legacy].mtime >= hosts[Native].mtime
            BY <2>3, <3>1, <3>3 DEF Best
        <3> QED  BY <3>1, <3>2, <3>3
    <2> QED  BY <2>1, <2>2, <2>3
<1> QED  BY <1>1 DEF Newest

LEMMA InitMigrationInv == MigrationInit => MigrationInv
<1> SUFFICES ASSUME MigrationInit  PROVE MigrationInv
    OBVIOUS
<1> USE DEF MigrationInit
<1>1. hosts \in [Hosts -> [wallets : SUBSET Wallets, mtime : Nat]]
    OBVIOUS
<1>2. \A h \in Hosts : hosts[h].wallets \in SUBSET Wallets
    BY <1>1
<1>3. MigrationTypeOK
    <2>1. dest \in Dir
        BY DEF Dir, Absent
    <2>2. offers \in SUBSET SUBSET Wallets
        BY <1>2
    <2> QED  BY <1>1, <2>1, <2>2 DEF MigrationTypeOK, NoStaging, MigrationPhases, Hosts
<1>4. SourceInv
    BY <1>2 DEF SourceInv, Sourced, ImportPhases
<1>5. SandboxInv /\ StagingInv /\ HalfCopyNeverLive /\ NeverRepeats
    BY DEF SandboxInv, StagingInv, HalfCopyNeverLive, NeverRepeats, NoStaging,
           Absent, ImportPhases
<1> QED  BY <1>3, <1>4, <1>5 DEF MigrationInv

LEMMA NextMigrationInv == MigrationInv /\ [MigrationNext]_migrationVars => MigrationInv'
<1> SUFFICES ASSUME MigrationInv, [MigrationNext]_migrationVars  PROVE MigrationInv'
    OBVIOUS
<1> USE DEF MigrationInv, MigrationTypeOK, HalfCopyNeverLive, NeverRepeats, SandboxInv,
            SourceInv, StagingInv, Dir, Absent, NoStaging, MigrationPhases, ImportPhases,
            Sourced, history, bounds, Go, FailTo
<1>1. CASE Start                BY <1>1 DEF Start
<1>2. CASE AlreadyDone          BY <1>2 DEF AlreadyDone
<1>3. CASE SandboxHasWallets    BY <1>3 DEF SandboxHasWallets
<1>4. CASE SandboxEmpty         BY <1>4 DEF SandboxEmpty
<1>5. CASE WriteSkipMarker      BY <1>5 DEF WriteSkipMarker
<1>6. CASE Select
    <2>1. source' \in WithWallets
        BY <1>6, NewestIsCandidate DEF Select, WithWallets
    <2> QED  BY <1>6, <2>1 DEF Select, WithWallets
<1>7. CASE NothingToImport      BY <1>7 DEF NothingToImport
<1>8. CASE Recover              BY <1>8 DEF Recover
<1>9. CASE RemoveDest           BY <1>9 DEF RemoveDest
<1>10. CASE Move                BY <1>10 DEF Move
<1>11. CASE DiscardStaging      BY <1>11 DEF DiscardStaging
<1>12. CASE BeginCopy
    <2>1. PICK part \in SUBSET hosts[source].wallets :
             staging' = [staging EXCEPT !.there = TRUE, !.whole = FALSE,
                                        !.wallets = @ \cup part]
        BY <1>12 DEF BeginCopy
    <2>2. staging' = [wallets |-> staging.wallets \cup part,
                      marker |-> staging.marker, whole |-> FALSE, there |-> TRUE]
        BY <2>1
    <2>3. part \subseteq Wallets /\ staging.wallets \subseteq Wallets
        OBVIOUS
    <2> HIDE <2>1
    <2> QED  BY <1>12, <2>2, <2>3 DEF BeginCopy
<1>13. CASE EndCopy             BY <1>13 DEF EndCopy
<1>14. CASE WriteStagingMarker  BY <1>14 DEF WriteStagingMarker
<1>15. CASE Cleanup             BY <1>15 DEF Cleanup
<1>16. CASE SandboxMisread      BY <1>16 DEF SandboxMisread
<1>17. ASSUME NEW h \in Hosts, HostMisread(h)  PROVE MigrationInv'
    <2>1. CASE WithWallets = {h}
        BY <1>17, <2>1 DEF HostMisread
    <2>2. CASE WithWallets # {h}
        <3>1. h \in WithWallets /\ source' = Newest(WithWallets \ {h})
            BY <1>17, <2>2 DEF HostMisread
        <3>2. WithWallets \ {h} \in SUBSET Hosts /\ WithWallets \ {h} # {}
            BY <2>2, <3>1 DEF WithWallets
        <3>3. source' \in WithWallets \ {h}
            BY <3>1, <3>2, NewestIsCandidate
        <3>4. source' \in Hosts /\ hosts[source'].wallets # {}
            BY <3>3 DEF WithWallets
        <3>5. /\ FailTo("selecting", "recovering") /\ misread'
              /\ UNCHANGED <<dest, staging, hosts, crashes, changes, torn, offers,
                             imports>>
            BY <1>17, <2>2 DEF HostMisread
        <3> QED  BY <3>4, <3>5
    <2> QED  BY <2>1, <2>2
<1>18. CASE TearStaging
    <2>1. PICK part \in SUBSET staging.wallets, left \in {staging.marker, FALSE} :
             staging' = [staging EXCEPT !.wallets = part, !.marker = left,
                                        !.whole = FALSE]
        BY <1>18 DEF TearStaging
    <2>2. staging' = [wallets |-> part, marker |-> left, whole |-> FALSE,
                      there |-> staging.there]
        BY <2>1
    <2>3. part \subseteq Wallets /\ left \in BOOLEAN
        OBVIOUS
    <2> QED  BY <1>18, <2>2, <2>3 DEF TearStaging
<1>19. CASE Fails               BY <1>19 DEF Fails
<1>20. CASE RemovalFails        BY <1>20 DEF RemovalFails
<1>21. CASE Crash               BY <1>21 DEF Crash
<1>22. CASE UserChanges         BY <1>22 DEF UserChanges
<1>23. CASE QuitApp                BY <1>23 DEF QuitApp
<1>24. CASE HostChanges         BY <1>24 DEF HostChanges
<1>25. CASE UNCHANGED migrationVars      BY <1>25 DEF migrationVars
<1> QED  BY <1>1, <1>2, <1>3, <1>4, <1>5, <1>6, <1>7, <1>8, <1>9, <1>10, <1>11,
            <1>12, <1>13, <1>14, <1>15, <1>16, <1>17, <1>18, <1>19, <1>20,
            <1>21, <1>22, <1>23, <1>24, <1>25 DEF MigrationNext, Step, Fault

LEMMA MigrationInvariant == MigrationSpec => []MigrationInv
BY InitMigrationInv, NextMigrationInv, PTL DEF MigrationSpec

(* The import never leaves its steps, nor a directory of another shape.    *)
THEOREM MigrationTypeCorrect == MigrationSpec => []MigrationTypeOK
<1>1. MigrationInv => MigrationTypeOK
    BY DEF MigrationInv
<1> QED  BY <1>1, MigrationInvariant, PTL

(* A half-copied tree never becomes live, unless a removal was torn: for   *)
(* importHostDirAtomically, with any number of crashes and failures.       *)
THEOREM HalfCopySafe == MigrationSpec => []HalfCopyNeverLive
<1>1. MigrationInv => HalfCopyNeverLive
    BY DEF MigrationInv
<1> QED  BY <1>1, MigrationInvariant, PTL

(* migrateHostStorageIntoFlatpak imports at most once, whatever fails.     *)
THEOREM ImportedOnce == MigrationSpec => []NeverRepeats
<1>1. MigrationInv => NeverRepeats
    BY DEF MigrationInv
<1> QED  BY <1>1, MigrationInvariant, PTL

-----------------------------------------------------------------------------
(* What a step may do to the live store, in terms of the promise.          *)
LEMMA StepOfPromise ==
    ASSUME MigrationInv, [MigrationNext]_migrationVars
    PROVE  [Promise!Next]_(Promise!vars)
<1> USE DEF history, bounds, Go, FailTo, Promise!Next, Promise!vars
<1>1. CASE UNCHANGED migrationVars
    BY <1>1 DEF migrationVars
<1>2. CASE WriteSkipMarker
    <2>1. Promise!Skip
        BY <1>2 DEF WriteSkipMarker, MigrationInv, SandboxInv, MigrationTypeOK, Dir,
                    Promise!Skip
    <2> QED  BY <2>1
<1>3. CASE RemoveDest
    <2>1. CASE misread
        BY <1>3, <2>1 DEF RemoveDest, Promise!Distrust
    <2>2. CASE ~misread
        <3>1. phase \in ImportPhases
            BY <1>3 DEF RemoveDest, ImportPhases, MigrationPhases
        <3>2. dest.wallets = {} /\ ~dest.marker
            BY <2>2, <3>1 DEF MigrationInv, SandboxInv
        <3>3. dest.marker = FALSE
            BY <3>2 DEF MigrationInv, MigrationTypeOK, Dir
        <3> QED  BY <1>3, <3>2, <3>3 DEF RemoveDest, Absent
    <2> QED  BY <2>1, <2>2
<1>4. CASE Move
    <2>1. CASE misread \/ torn
        BY <1>4, <2>1 DEF Move, Promise!Distrust
    <2>2. CASE ~misread /\ ~torn
        <3>1. phase \in ImportPhases /\ phase \in {"promoteMove", "moving"}
            BY <1>4 DEF Move, ImportPhases, MigrationPhases
        <3>2. dest.wallets = {} /\ ~dest.marker
            BY <2>2, <3>1 DEF MigrationInv, SandboxInv
        <3>3. staging.marker = TRUE /\ staging.wallets \in offers \ {{}}
            BY <2>2, <3>1 DEF MigrationInv, StagingInv, MigrationTypeOK
        <3>4. Promise!Import
            BY <1>4, <3>2, <3>3 DEF Move, Promise!Import
        <3> QED  BY <3>4
    <2> QED  BY <2>1, <2>2
<1>5. CASE UserChanges
    <2>1. Promise!UserChanges
        BY <1>5 DEF UserChanges, Promise!UserChanges, MigrationInv, MigrationTypeOK, Dir
    <2> QED  BY <2>1
<1>6. CASE HostChanges
    <2>1. Promise!HostChanges
        BY <1>6 DEF HostChanges, Promise!HostChanges
    <2> QED  BY <2>1
<1>7. CASE Start \/ AlreadyDone \/ SandboxHasWallets \/ SandboxEmpty \/ Select
           \/ NothingToImport \/ Recover \/ DiscardStaging \/ BeginCopy \/ EndCopy
           \/ WriteStagingMarker \/ Cleanup \/ Fails \/ Crash \/ QuitApp
    <2>1. UNCHANGED <<dest, misread, torn, offers>>
        BY <1>7 DEF Start, AlreadyDone, SandboxHasWallets, SandboxEmpty, Select,
                    NothingToImport, Recover, DiscardStaging, BeginCopy, EndCopy,
                    WriteStagingMarker, Cleanup, Fails, Crash, QuitApp
    <2> QED  BY <2>1
<1>8. CASE SandboxMisread \/ (\E h \in Hosts : HostMisread(h)) \/ TearStaging
           \/ RemovalFails
    <2>1. misread' \/ torn'
        BY <1>8 DEF SandboxMisread, HostMisread, TearStaging, RemovalFails
    <2> QED  BY <2>1 DEF Promise!Distrust
<1> QED  BY <1>1, <1>2, <1>3, <1>4, <1>5, <1>6, <1>7, <1>8 DEF MigrationNext, Step, Fault

(* The import of storageMigration.ts, one action per file operation with   *)
(* crashes and failures between any two, implements the one-step import of *)
(* OneTimeImport: at once, at most once, only into an empty store.         *)
THEOREM Refinement == MigrationSpec => ImplementsPromise
<1>1. MigrationInit => Promise!Init
    <2> SUFFICES ASSUME MigrationInit  PROVE Promise!Init
        OBVIOUS
    <2>1. dest.wallets \in SUBSET Wallets /\ dest.marker = FALSE
        BY DEF MigrationInit, Absent
    <2>2. offers \in SUBSET SUBSET Wallets
        BY InitMigrationInv DEF MigrationInv, MigrationTypeOK
    <2> QED  BY <2>1, <2>2 DEF MigrationInit, Promise!Init
<1> QED  BY <1>1, StepOfPromise, MigrationInvariant, PTL
         DEF MigrationSpec, ImplementsPromise, Promise!Spec

(* No wallet of the sandbox is taken away by the import, unless its store  *)
(* was misread: RemoveDest and Move only ever replace an empty store.      *)
THEOREM OverwritesNothing == MigrationSpec => NeverOverwrites
<1>1. MigrationInv /\ [MigrationNext]_migrationVars =>
        [dest.wallets \subseteq dest'.wallets \/ UserChanges \/ misread]_migrationVars
    <2> SUFFICES ASSUME MigrationInv, MigrationNext, ~UserChanges, ~misread
                 PROVE  dest.wallets \subseteq dest'.wallets
        OBVIOUS
    <2> USE DEF history, bounds, Go, FailTo
    <2>1. CASE RemoveDest \/ Move
        <3>1. phase \in ImportPhases
            BY <2>1 DEF RemoveDest, Move, ImportPhases, MigrationPhases
        <3> QED  BY <3>1 DEF MigrationInv, SandboxInv
    <2>2. CASE WriteSkipMarker
        BY <2>2 DEF WriteSkipMarker, MigrationInv, MigrationTypeOK, Dir
    <2>3. CASE Start \/ AlreadyDone \/ SandboxHasWallets \/ SandboxEmpty \/ Select
               \/ NothingToImport \/ Recover \/ DiscardStaging \/ BeginCopy
               \/ EndCopy \/ WriteStagingMarker \/ Cleanup \/ Fault \/ QuitApp
               \/ HostChanges
        BY <2>3 DEF Start, AlreadyDone, SandboxHasWallets, SandboxEmpty, Select,
                NothingToImport, Recover, DiscardStaging, BeginCopy, EndCopy,
                WriteStagingMarker, Cleanup, Fault, SandboxMisread, HostMisread,
                TearStaging, Fails, RemovalFails, Crash, QuitApp, HostChanges
    <2> QED  BY <2>1, <2>2, <2>3 DEF MigrationNext, Step
<1> QED  BY <1>1, MigrationInvariant, PTL DEF MigrationSpec, NeverOverwrites

(* A store that has the marker is the user's alone: no step of a later     *)
(* start, no failure and no crash replaces it or takes the marker away.    *)
THEOREM MarkerCloses == MigrationSpec => MarkedIsLeftAlone
<1>1. MigrationInv /\ [MigrationNext]_migrationVars =>
        [dest.marker => dest'.marker
                        /\ (dest'.wallets = dest.wallets \/ UserChanges)]_migrationVars
    <2> SUFFICES ASSUME MigrationInv, MigrationNext, dest.marker
                 PROVE  dest'.marker /\ (dest'.wallets = dest.wallets \/ UserChanges)
        OBVIOUS
    <2> USE DEF history, bounds, Go, FailTo
    <2>1. CASE RemoveDest \/ Move \/ WriteSkipMarker
        <3>1. phase \in ImportPhases \cup {"skipping"}
            BY <2>1 DEF RemoveDest, Move, WriteSkipMarker, ImportPhases, MigrationPhases
        <3> QED  BY <3>1 DEF MigrationInv, SandboxInv
    <2>2. CASE UserChanges
        BY <2>2 DEF UserChanges, MigrationInv, MigrationTypeOK, Dir
    <2>3. CASE Start \/ AlreadyDone \/ SandboxHasWallets \/ SandboxEmpty \/ Select
               \/ NothingToImport \/ Recover \/ DiscardStaging \/ BeginCopy
               \/ EndCopy \/ WriteStagingMarker \/ Cleanup \/ Fault \/ QuitApp
               \/ HostChanges
        BY <2>3 DEF Start, AlreadyDone, SandboxHasWallets, SandboxEmpty, Select,
                NothingToImport, Recover, DiscardStaging, BeginCopy, EndCopy,
                WriteStagingMarker, Cleanup, Fault, SandboxMisread, HostMisread,
                TearStaging, Fails, RemovalFails, Crash, QuitApp, HostChanges
    <2> QED  BY <2>1, <2>2, <2>3 DEF MigrationNext, Step
<1> QED  BY <1>1, MigrationInvariant, PTL DEF MigrationSpec, MarkedIsLeftAlone

-----------------------------------------------------------------------------
(* What a fresh import moves: the chosen store is the newest that could be *)
(* read, and the finished copy holds that store's wallets.                 *)
FreshInv ==
    /\ phase \in Sourced => source = Newest(WithWallets) \/ misread
    /\ phase \in {"removing", "moving"} =>
          staging.wallets = hosts[source].wallets \/ torn

LEMMA FreshInvariant == MigrationSpec => []FreshInv
<1>1. MigrationInit => FreshInv
    BY DEF MigrationInit, FreshInv, Sourced, ImportPhases
<1>2. MigrationInv /\ FreshInv /\ [MigrationNext]_migrationVars => FreshInv'
    <2> SUFFICES ASSUME MigrationInv, FreshInv, [MigrationNext]_migrationVars  PROVE FreshInv'
        OBVIOUS
    <2> DEFINE newest == Newest(WithWallets)
    <2>0. hosts' = hosts => newest' = newest
        BY DEF Newest, WithWallets
    <2>1. newest = Newest(WithWallets) /\ newest' = Newest(WithWallets)'
        OBVIOUS
    <2> HIDE DEF newest
    <2> USE <2>0, <2>1
        DEF FreshInv, Sourced, ImportPhases, MigrationPhases, Go, FailTo, history, bounds
    <2>2. phase \notin Sourced /\ hosts' = hosts =>
             \/ phase' \notin Sourced
             \/ phase' = "recovering" /\ (source' = newest' \/ misread')
        <3>1. ASSUME phase \notin Sourced, phase' \in Sourced, hosts' = hosts
              PROVE  phase' = "recovering" /\ (source' = newest' \/ misread')
            <4> USE <3>1
            <4>1. CASE Select
                BY <4>1 DEF Select
            <4>2. CASE \E h \in Hosts : HostMisread(h)
                BY <4>2 DEF HostMisread
            <4>3. CASE UNCHANGED migrationVars
                BY <4>3 DEF migrationVars
            <4>4. phase \in {"off", "begin", "running", "skipping", "selecting"}
                BY DEF MigrationInv, MigrationTypeOK
            <4> QED
                BY <4>1, <4>2, <4>3, <4>4
                   DEF MigrationNext, Step, Fault, Start, AlreadyDone, SandboxHasWallets,
                       SandboxEmpty, SandboxMisread, WriteSkipMarker,
                       NothingToImport, Recover, RemoveDest, Move, DiscardStaging,
                       BeginCopy, EndCopy, WriteStagingMarker, Cleanup,
                       TearStaging, Fails, RemovalFails, Crash, UserChanges, QuitApp,
                       HostChanges
        <3> QED  BY <3>1
    <2>3. CASE phase \notin Sourced
        <3>1. CASE hosts' = hosts
            BY <2>2, <2>3, <3>1
        <3>2. CASE hosts' # hosts
            BY <2>3, <3>2
               DEF MigrationNext, Step, Fault, Start, AlreadyDone, SandboxHasWallets,
                   SandboxEmpty, SandboxMisread, HostMisread, WriteSkipMarker,
                   Select, NothingToImport, Recover, RemoveDest, Move,
                   DiscardStaging, BeginCopy, EndCopy, WriteStagingMarker, Cleanup,
                   TearStaging, Fails, RemovalFails, Crash, UserChanges, QuitApp,
                   HostChanges, migrationVars
        <3> QED  BY <3>1, <3>2
    <2>4. CASE phase \in Sourced
        <3> USE <2>4
        <3>1. hosts' = hosts /\ source' = source /\ (misread => misread')
              /\ (torn => torn')
            BY DEF MigrationNext, Step, Fault, Start, AlreadyDone, SandboxHasWallets,
                   SandboxEmpty, SandboxMisread, HostMisread, WriteSkipMarker,
                   Select, NothingToImport, Recover, RemoveDest, Move,
                   DiscardStaging, BeginCopy, EndCopy, WriteStagingMarker, Cleanup,
                   TearStaging, Fails, RemovalFails, Crash, UserChanges, QuitApp,
                   HostChanges, migrationVars
        <3>2. ASSUME phase' \in {"removing", "moving"}
              PROVE  staging'.wallets = hosts'[source'].wallets \/ torn'
            <4>1. CASE WriteStagingMarker
                BY <3>1, <4>1
                   DEF WriteStagingMarker, MigrationInv, StagingInv, MigrationTypeOK
            <4>2. CASE RemoveDest \/ UNCHANGED migrationVars
                BY <3>1, <3>2, <4>2 DEF RemoveDest, migrationVars
            <4> QED
                BY <3>2, <4>1, <4>2
                   DEF MigrationNext, Step, Fault, Start, AlreadyDone, SandboxHasWallets,
                       SandboxEmpty, SandboxMisread, HostMisread, WriteSkipMarker,
                       Select, NothingToImport, Recover, Move, DiscardStaging,
                       BeginCopy, EndCopy, Cleanup, TearStaging, Fails,
                       RemovalFails, Crash, UserChanges, QuitApp, HostChanges
        <3> QED  BY <3>1, <3>2
    <2> QED  BY <2>3, <2>4
<1> QED  BY <1>1, <1>2, MigrationInvariant, PTL DEF MigrationSpec

(* FreshImportIsNewest: when importHostDirAtomically moves a finished copy *)
(* into place, it holds the wallets of the newest store of the host and    *)
(* none of an earlier, interrupted import.                                 *)
THEOREM FreshIsNewest == MigrationSpec => FreshImportIsNewest
<1>1. FreshInv /\ [MigrationNext]_migrationVars =>
        [phase = "moving" /\ Move =>
            \/ dest'.wallets = hosts[Newest(WithWallets)].wallets
            \/ misread \/ torn]_migrationVars
    <2> SUFFICES ASSUME FreshInv, phase = "moving", Move, ~misread, ~torn
                 PROVE  dest'.wallets = hosts[Newest(WithWallets)].wallets
        OBVIOUS
    <2>1. source = Newest(WithWallets) /\ staging.wallets = hosts[source].wallets
        BY DEF FreshInv, Sourced, ImportPhases, MigrationPhases
    <2>2. dest'.wallets = staging.wallets
        BY DEF Move
    <2> QED  BY <2>1, <2>2
<1> QED  BY <1>1, FreshInvariant, PTL DEF MigrationSpec, FreshImportIsNewest

=================================================================================
