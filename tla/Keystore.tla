------------------------------- MODULE Keystore -------------------------------
(***************************************************************************)
(* The keystore service of the renderer (services/wallet/keystore.ts): the *)
(* wallet list and the current wallet in memory, wallets.json on disk, and *)
(* the calls in flight between them.                                       *)
(*                                                                         *)
(* A call is split where the code awaits: it decrypts or encrypts a        *)
(* keystore, sends the whole new list to the main process, and updates     *)
(* memory when the reply arrives.  What a call reads before an await is    *)
(* kept in its slot and used after it, as the closure does.  An encrypted  *)
(* keystore is determined by the wallet's id, so an entry of the list is   *)
(* id, name and selected; the phrase in memory is the flag unlocked.       *)
(***************************************************************************)
EXTENDS Naturals, Sequences

CONSTANTS
    Ids,        \* keystore ids generateKeystoreId may draw
    Names,      \* wallet names
    None,       \* O.none
    Slots,      \* bound: calls in flight at once
    MaxCalls,   \* bound: calls begun
    MaxQuits    \* bound: restarts of the app

ASSUME BoundsAssumption == MaxCalls \in Nat /\ MaxQuits \in Nat

VARIABLES
    state,      \* keystoreState: None or the current wallet
    wallets,    \* keystoreWallets
    importing,  \* importingKeystoreState
    lastOpened, \* lastOpenedWallet last sent to the common storage
    disk,       \* wallets.json
    load,       \* keystoreWalletsPersistent$
    calls,      \* the calls in flight
    used,       \* ids drawn so far
    begun,      \* calls begun so far
    quits,      \* restarts so far
    met,        \* history: the save or load begun last overlapped another
    disturbed,  \* history: memory and file may differ: the list has not been
                \* loaded, a save overlapped, failed unnoticed or half way, or
                \* was abandoned, and no save has gone well since
    owned,      \* history: the wallets stored at first, those added and not
                \* those removed
    lost,       \* history: a save overlapped another, began without a loaded
                \* list, or was cut short or left unrepaired by a quit
    raced       \* history: an unlock finished after the wallet it was
                \* entered for had ceased to be the current one

vars == <<state, wallets, importing, lastOpened, disk, load, calls, used,
          begun, quits, met, disturbed, owned, lost, raced>>

notes == <<met, disturbed, owned, lost, raced>>

Entry == [id : Ids, name : Names, selected : BOOLEAN]
Current == [id : Ids, name : Names, unlocked : BOOLEAN]

ASSUME NoneAssumption == None \notin Ids \cup Current

Kinds == {"none", "add", "remove", "change", "rename", "unlock", "abandoned"}
Phases == {"idle", "deciphering", "sealing", "saving", "filling", "written",
           "refused"}
Forms == {"absent", "empty", "json", "garbage"}
Loads == {"reading", "opening", "filling", "read", "failed", "done"}
Importing == {"initial", "pending", "success", "failure"}

NoCall == [kind |-> "none", phase |-> "idle", id |-> None, name |-> None,
           list |-> <<>>]
Calls == [kind : Kinds, phase : Phases, id : Ids \cup {None},
          name : Names \cup {None}, list : Seq(Entry)]

TypeOK ==
    /\ state \in Current \cup {None}
    /\ wallets \in Seq(Entry)
    /\ importing \in Importing
    /\ lastOpened \in Ids \cup {None}
    /\ disk \in [form : Forms, list : Seq(Entry)]
    /\ load \in [phase : Loads, list : Seq(Entry)]
    /\ calls \in [Slots -> Calls]
    /\ used \in SUBSET Ids
    /\ begun \in Nat
    /\ quits \in Nat
    /\ owned \in SUBSET Ids
    /\ met \in BOOLEAN /\ disturbed \in BOOLEAN /\ lost \in BOOLEAN
    /\ raced \in BOOLEAN

-----------------------------------------------------------------------------
(* Lists of wallets                                                        *)

IdsOf(list) == {list[i].id : i \in DOMAIN list}

SelectOnly(list, id) ==
    [i \in DOMAIN list |-> [list[i] EXCEPT !.selected = list[i].id = id]]

Renamed(list, id, name) ==
    [i \in DOMAIN list |->
        IF list[i].id = id THEN [list[i] EXCEPT !.name = name] ELSE list[i]]

\* Mutants of WithNew: the earlier selection is kept; the earlier wallets are
\* lost.
WithNewBeside(list, id, name) ==
    Append(list, [id |-> id, name |-> name, selected |-> TRUE])

WithNewAlone(list, id, name) ==
    <<[id |-> id, name |-> name, selected |-> TRUE]>>

WithNew(list, id, name) ==
    Append(SelectOnly(list, None), [id |-> id, name |-> name, selected |-> TRUE])

\* A.filter(({ id }) => id !== keystoreId); ids are unique in a list.
Position(list, id) == CHOOSE i \in DOMAIN list : list[i].id = id

Without(list, id) ==
    IF id \notin IdsOf(list) THEN list
    ELSE [i \in 1 .. (Len(list) - 1) |->
             IF i < Position(list, id) THEN list[i] ELSE list[i + 1]]

Locked(entry) == [id |-> entry.id, name |-> entry.name, unlocked |-> FALSE]

LastOf(list) == IF list = <<>> THEN None ELSE Locked(list[Len(list)])

\* getInitialKeystoreData: the first selected wallet, else the first one.
Initial(list) ==
    LET Selected == {i \in DOMAIN list : list[i].selected}
    IN  IF list = <<>> THEN None
        ELSE IF Selected = {} THEN Locked(list[1])
        ELSE Locked(list[CHOOSE i \in Selected : \A j \in Selected : i <= j])

-----------------------------------------------------------------------------
Free(s) == calls[s].phase = "idle"

Begin(s, call) ==
    /\ begun < MaxCalls
    /\ begun' = begun + 1
    /\ calls' = [calls EXCEPT ![s] = call]
Continue(s, call) == calls' = [calls EXCEPT ![s] = call] /\ UNCHANGED begun
Finish(s) == calls' = [calls EXCEPT ![s] = NoCall] /\ UNCHANGED begun

Saving(s) == calls[s].phase \in {"saving", "filling", "written", "refused"}
Loading == load.phase \notin {"failed", "done"}

\* A save that starts before another one, or the load, is over works on a
\* stale list; one that starts after a failed load on no list at all.
NoteSave(s) ==
    /\ met' = (Loading \/ \E t \in Slots \ {s} : Saving(t))
    /\ disturbed' = (disturbed \/ met')
    /\ lost' = (lost \/ met' \/ load.phase # "done")

\* A save of its own that went well leaves file and memory the same.
NoteAnswer(s) == disturbed' = (calls[s].phase = "refused" \/ met)

\* fs.outputJSON opens the file, which empties it, and then fills it; what
\* another save has filled in meanwhile can be longer.
OpenFile == disk' = [form |-> "empty", list |-> <<>>]
FillFile(list) ==
    \/ disk' = [form |-> "json", list |-> list]
    \/ disk.form # "empty" /\ disk' = [form |-> "garbage", list |-> <<>>]
SpoilFile == disk' = [form |-> "garbage", list |-> <<>>]

\* What an earlier run of the app left: at most one wallet is selected, and
\* none after a removal.
StoredLists ==
    {list \in UNION {[1 .. n -> Entry] : n \in 0 .. 2} :
        \A i, j \in DOMAIN list :
           i # j => /\ list[i].id # list[j].id
                    /\ ~(list[i].selected /\ list[j].selected)}

Init ==
    /\ disk \in [form : {"json"}, list : StoredLists] \cup
                [form : {"absent", "garbage"}, list : {<<>>}]
    /\ used = IdsOf(disk.list)
    /\ state = None
    /\ wallets = <<>>
    /\ importing = "initial"
    /\ lastOpened = None
    /\ load = [phase |-> "reading", list |-> <<>>]
    /\ calls = [s \in Slots |-> NoCall]
    /\ begun = 0
    /\ quits = 0
    /\ met = FALSE
    /\ disturbed = TRUE
    /\ owned = IdsOf(disk.list)
    /\ lost = FALSE
    /\ raced = FALSE

-----------------------------------------------------------------------------
(* The load: initKeystoreWallets of the main process and the subscription  *)
(* to keystoreWalletsPersistent$.  The migration of a keystore of before   *)
(* the list is left out: there is none.                                    *)

loadFrame == <<importing, lastOpened, calls, used, begun, quits, owned, lost, raced>>

Read ==
    /\ load.phase = "reading"
    /\ load' = [phase |-> IF disk.list # <<>> THEN "read"
                          ELSE IF disk.form \in {"absent", "json"} THEN "opening"
                          ELSE "failed",
                list |-> disk.list]
    /\ UNCHANGED <<loadFrame, state, wallets, disk, met, disturbed>>

\* An empty list is saved.
OpenEmpty ==
    /\ load.phase = "opening"
    /\ load' = [load EXCEPT !.phase = "filling"]
    /\ OpenFile
    /\ UNCHANGED <<loadFrame, state, wallets, met, disturbed>>

FillEmpty ==
    /\ load.phase = "filling"
    /\ load' = [load EXCEPT !.phase = "read"]
    /\ FillFile(<<>>)
    /\ UNCHANGED <<loadFrame, state, wallets, met, disturbed>>

LoadFails ==
    /\ load.phase \in {"reading", "opening", "filling"}
    /\ load' = [phase |-> "failed", list |-> <<>>]
    /\ IF load.phase = "filling" THEN SpoilFile /\ disturbed' = TRUE
       ELSE UNCHANGED <<disk, disturbed>>
    /\ UNCHANGED <<loadFrame, state, wallets, met>>

Loaded ==
    /\ load.phase = "read"
    /\ load' = [phase |-> "done", list |-> <<>>]
    /\ wallets' = load.list
    /\ state' = Initial(load.list)
    /\ disturbed' = met
    /\ UNCHANGED <<loadFrame, disk, met>>

\* reloadPersistentKeystoreWallets, the retry of the alert of AppView; until
\* then nothing keeps the user from adding a wallet to the empty list.
Reload ==
    /\ load.phase = "failed"
    /\ load' = [phase |-> "reading", list |-> <<>>]
    /\ met' = (\E s \in Slots : Saving(s))
    /\ disturbed' = (disturbed \/ met')
    /\ UNCHANGED <<loadFrame, state, wallets, disk>>

-----------------------------------------------------------------------------
(* addKeystoreWallet and importKeystore                                    *)

BeginAdd(s, id, name) ==
    /\ Free(s) /\ id \notin used
    /\ used' = used \cup {id}
    /\ importing' = "pending"
    /\ \E phase \in {"sealing", "deciphering"} :
          Begin(s, [NoCall EXCEPT !.kind = "add", !.phase = phase,
                                  !.id = id, !.name = name])
    /\ UNCHANGED <<state, wallets, lastOpened, disk, load, quits, notes>>

\* importKeystore decrypted the file: it goes on as addKeystoreWallet does.
Imported(s) ==
    /\ calls[s].kind = "add" /\ calls[s].phase = "deciphering"
    /\ importing' = "pending"
    /\ Continue(s, [calls[s] EXCEPT !.phase = "sealing"])
    /\ UNCHANGED <<state, wallets, lastOpened, disk, load, used, quits, notes>>

AddFails(s) ==
    /\ calls[s].kind = "add" /\ calls[s].phase \in {"deciphering", "sealing"}
    /\ importing' = "failure"
    /\ Finish(s)
    /\ UNCHANGED <<state, wallets, lastOpened, disk, load, used, quits, notes>>

\* The list is read after the await, so it is the list of this moment.
Sealed(s) ==
    /\ calls[s].kind = "add" /\ calls[s].phase = "sealing"
    /\ Continue(s, [calls[s] EXCEPT !.phase = "saving",
                    !.list = WithNew(wallets, calls[s].id, calls[s].name)])
    /\ NoteSave(s)
    /\ UNCHANGED <<state, wallets, importing, lastOpened, disk, load, used,
                   quits, owned, raced>>

\* The reply is not looked at: a refused save counts as a saved one.
Added(s) ==
    /\ calls[s].kind = "add" /\ calls[s].phase \in {"written", "refused"}
    /\ wallets' = calls[s].list
    /\ state' = [id |-> calls[s].id, name |-> calls[s].name, unlocked |-> TRUE]
    /\ importing' = "success"
    /\ lastOpened' = calls[s].id
    /\ owned' = owned \cup {calls[s].id}
    /\ NoteAnswer(s)
    /\ Finish(s)
    /\ UNCHANGED <<disk, load, used, quits, met, lost, raced>>

ResetImporting ==
    /\ importing # "initial"
    /\ importing' = "initial"
    /\ UNCHANGED <<state, wallets, lastOpened, disk, load, calls, used, begun,
                   quits, notes>>

-----------------------------------------------------------------------------
(* removeKeystoreWallet, changeKeystoreWallet and renameKeystoreWallet     *)

BeginRemove(s) ==
    /\ Free(s) /\ state # None
    /\ Begin(s, [kind |-> "remove", phase |-> "saving", id |-> state.id,
                 name |-> None, list |-> Without(wallets, state.id)])
    /\ owned' = owned \ {state.id}
    /\ NoteSave(s)
    /\ UNCHANGED <<state, wallets, importing, lastOpened, disk, load, used,
                   quits, raced>>

\* Mutant of Removed: the next wallet is taken from the list before the removal.
RemovedFromOldList(s) ==
    /\ calls[s].kind = "remove" /\ calls[s].phase \in {"written", "refused"}
    /\ wallets' = calls[s].list
    /\ state' = LastOf(wallets)
    /\ NoteAnswer(s)
    /\ Finish(s)
    /\ UNCHANGED <<importing, lastOpened, disk, load, used, quits, met, owned,
                   lost, raced>>

Removed(s) ==
    /\ calls[s].kind = "remove" /\ calls[s].phase \in {"written", "refused"}
    /\ wallets' = calls[s].list
    /\ state' = LastOf(calls[s].list)
    /\ NoteAnswer(s)
    /\ Finish(s)
    /\ UNCHANGED <<importing, lastOpened, disk, load, used, quits, met, owned,
                   lost, raced>>

BeginChange(s, id) ==
    /\ Free(s) /\ id \in IdsOf(wallets)
    /\ Begin(s, [kind |-> "change", phase |-> "saving", id |-> id,
                 name |-> wallets[Position(wallets, id)].name,
                 list |-> SelectOnly(wallets, id)])
    /\ NoteSave(s)
    /\ UNCHANGED <<state, wallets, importing, lastOpened, disk, load, used,
                   quits, owned, raced>>

Changed(s) ==
    /\ calls[s].kind = "change" /\ calls[s].phase = "written"
    /\ wallets' = calls[s].list
    /\ state' = [id |-> calls[s].id, name |-> calls[s].name, unlocked |-> FALSE]
    /\ lastOpened' = calls[s].id
    /\ NoteAnswer(s)
    /\ Finish(s)
    /\ UNCHANGED <<importing, disk, load, used, begun, quits, met, owned, lost,
                   raced>>

\* Mutant of ChangeRefused: both branches of the fold update memory.
ChangeAnyway(s) ==
    /\ calls[s].kind = "change" /\ calls[s].phase = "refused"
    /\ wallets' = calls[s].list
    /\ state' = [id |-> calls[s].id, name |-> calls[s].name, unlocked |-> FALSE]
    /\ Finish(s)
    /\ UNCHANGED <<importing, lastOpened, disk, load, used, quits, notes>>

\* E.fold: a refused save is reported and memory stays as it is.
ChangeRefused(s) ==
    /\ calls[s].kind = "change" /\ calls[s].phase = "refused"
    /\ Finish(s)
    /\ UNCHANGED <<state, wallets, importing, lastOpened, disk, load, used,
                   quits, notes>>

\* Only the unlocked wallet can be renamed.
BeginRename(s, name) ==
    /\ Free(s) /\ state # None /\ state.unlocked
    /\ Begin(s, [kind |-> "rename", phase |-> "saving", id |-> state.id,
                 name |-> name, list |-> Renamed(wallets, state.id, name)])
    /\ NoteSave(s)
    /\ UNCHANGED <<state, wallets, importing, lastOpened, disk, load, used,
                   quits, owned, raced>>

\* map(() => RD.success(true)) after catchError: any reply is a success.
RenameDone(s) ==
    /\ calls[s].kind = "rename" /\ calls[s].phase \in {"written", "refused"}
    /\ wallets' = calls[s].list
    /\ state' = [id |-> calls[s].id, name |-> calls[s].name, unlocked |-> TRUE]
    /\ NoteAnswer(s)
    /\ Finish(s)
    /\ UNCHANGED <<importing, lastOpened, disk, load, used, quits, met, owned,
                   lost, raced>>

(***************************************************************************)
(* changeKeystoreWallet and renameKeystoreWallet are observables of a      *)
(* view: when the view goes away or subscribes again, the reply is not     *)
(* acted on any more, but the request is on its way.                       *)
(***************************************************************************)
Unsubscribe(s) ==
    /\ calls[s].kind \in {"change", "rename"}
    /\ disturbed' = TRUE
    /\ IF calls[s].phase \in {"saving", "filling"}
       THEN Continue(s, [calls[s] EXCEPT !.kind = "abandoned"])
       ELSE Finish(s)
    /\ UNCHANGED <<state, wallets, importing, lastOpened, disk, load, used,
                   quits, met, owned, lost, raced>>

-----------------------------------------------------------------------------
(* lock and unlock                                                         *)

Lock ==
    /\ state # None
    /\ state' = [state EXCEPT !.unlocked = FALSE]
    /\ UNCHANGED <<wallets, importing, lastOpened, disk, load, calls, used,
                   begun, quits, notes>>

BeginUnlock(s) ==
    /\ Free(s) /\ state # None /\ state.id \in IdsOf(wallets)
    /\ Begin(s, [kind |-> "unlock", phase |-> "deciphering", id |-> state.id,
                 name |-> state.name, list |-> <<>>])
    /\ UNCHANGED <<state, wallets, importing, lastOpened, disk, load, used,
                   quits, notes>>

\* The phrase is deciphered: the wallet of the start becomes the current one.
Unlocked(s) ==
    LET call == calls[s] IN
    /\ call.kind = "unlock"
    /\ state' = [id |-> call.id, name |-> call.name, unlocked |-> TRUE]
    /\ raced' = (raced \/ state = None \/ state.id # call.id
                       \/ state.name # call.name)
    /\ Finish(s)
    /\ UNCHANGED <<wallets, importing, lastOpened, disk, load, used, quits,
                   met, disturbed, owned, lost>>

UnlockFails(s) ==
    /\ calls[s].kind = "unlock"
    /\ Finish(s)
    /\ UNCHANGED <<state, wallets, importing, lastOpened, disk, load, used,
                   quits, notes>>

-----------------------------------------------------------------------------
(* The main process writes wallets.json; the app is closed and restarted.  *)

Open(s) ==
    /\ calls[s].phase = "saving"
    /\ OpenFile
    /\ Continue(s, [calls[s] EXCEPT !.phase = "filling"])
    /\ UNCHANGED <<state, wallets, importing, lastOpened, load, used, quits,
                   notes>>

\* The answer goes nowhere when its caller has gone.
Answer(s, answer) ==
    IF calls[s].kind = "abandoned" THEN Finish(s)
    ELSE Continue(s, [calls[s] EXCEPT !.phase = answer])

Fill(s) ==
    /\ calls[s].phase = "filling"
    /\ FillFile(calls[s].list)
    /\ Answer(s, "written")
    /\ UNCHANGED <<state, wallets, importing, lastOpened, load, used, quits,
                   notes>>

\* The file cannot be opened, or not be filled once it is empty.
SaveFails(s) ==
    /\ calls[s].phase \in {"saving", "filling"}
    /\ IF calls[s].phase = "filling" THEN SpoilFile /\ disturbed' = TRUE
       ELSE UNCHANGED <<disk, disturbed>>
    /\ Answer(s, "refused")
    /\ UNCHANGED <<state, wallets, importing, lastOpened, load, used, quits,
                   met, owned, lost, raced>>

\* The app ends at any point; what it did to the file stays.
Quit ==
    /\ quits < MaxQuits
    /\ quits' = quits + 1
    /\ state' = None
    /\ wallets' = <<>>
    /\ importing' = "initial"
    /\ load' = [phase |-> "reading", list |-> <<>>]
    /\ calls' = [s \in Slots |-> NoCall]
    /\ met' = FALSE
    /\ disturbed' = TRUE
    /\ lost' = (lost \/ (load.phase = "done" /\ disturbed)
                    \/ \E s \in Slots : calls[s].phase = "filling")
    /\ raced' = FALSE
    /\ UNCHANGED <<lastOpened, disk, used, begun, owned>>

Next ==
    \/ Read \/ OpenEmpty \/ FillEmpty \/ LoadFails \/ Loaded \/ Reload
    \/ ResetImporting \/ Lock \/ Quit
    \/ \E s \in Slots :
          \/ \E id \in Ids, name \in Names : BeginAdd(s, id, name)
          \/ Imported(s) \/ AddFails(s) \/ Sealed(s) \/ Added(s)
          \/ BeginRemove(s) \/ Removed(s)
          \/ \E id \in Ids : BeginChange(s, id)
          \/ Changed(s) \/ ChangeRefused(s)
          \/ \E name \in Names : BeginRename(s, name)
          \/ RenameDone(s) \/ Unsubscribe(s)
          \/ BeginUnlock(s) \/ Unlocked(s) \/ UnlockFails(s)
          \/ Open(s) \/ Fill(s) \/ SaveFails(s)

Spec == Init /\ [][Next]_vars

-----------------------------------------------------------------------------
WellFormed(list) ==
    \A i, j \in DOMAIN list :
       i # j => /\ list[i].id # list[j].id
                /\ ~(list[i].selected /\ list[j].selected)

(* However saves overlap, fail or are abandoned, no list (in memory, on    *)
(* disk, on its way to the disk) holds an id twice, which would let one    *)
(* keystore override another, or selects two wallets.                      *)
ListsWellFormed ==
    /\ WellFormed(wallets)
    /\ WellFormed(disk.list)
    /\ \A s \in Slots : WellFormed(calls[s].list)

AgreesWith(list, current) ==
    IF current = None THEN list = <<>>
    ELSE /\ \E i \in DOMAIN list : /\ list[i].id = current.id
                                   /\ list[i].name = current.name
         /\ \A i \in DOMAIN list : list[i].selected => list[i].id = current.id

(* The current wallet is one of the list, under its name there, no other   *)
(* wallet is the selected one, and there is none only when the list is     *)
(* empty: whatever saves overlap or fail, as long as no unlock finishes    *)
(* after the wallet it was entered for was switched, removed or renamed.   *)
CurrentWalletInList == ~raced => AgreesWith(wallets, state)

(* wallets.json holds what the user sees, but for the save under way: also *)
(* after a load that failed, or a save that failed, spoiled the file, met  *)
(* another or lost its caller, once a later save of its own has gone well. *)
DiskAgreesUnlessDisturbed ==
    (/\ ~ disturbed /\ ~ Loading
     /\ \A s \in Slots : calls[s].phase \notin {"filling", "written", "refused"})
       => disk = [form |-> "json", list |-> wallets]

(* The user's wallets, over restarts, failed loads and refused saves too,  *)
(* are in the list that is loaded, until they are removed.  What can lose  *)
(* them is what lost names: a save that overlaps another, one that begins  *)
(* while no list is loaded, and a quit in the middle of a save or before a *)
(* save that went wrong is followed by one that goes well.                 *)
ForgottenOnlyByRemoval ==
    ~ lost /\ load.phase = "done" => owned \subseteq IdsOf(wallets)

(* What keystore.ts:49, "State of selected keystore wallet", would promise: *)
(* the current wallet is the one marked as selected in the list, if one is. *)
(* It does not hold: an unlock that ends after a switch sets the wallet it  *)
(* began with, which is why CurrentWalletInList has its condition.          *)
StateIsOfSelectedWallet ==
    state # None =>
       \A i \in DOMAIN wallets : wallets[i].selected => wallets[i].id = state.id
=============================================================================
