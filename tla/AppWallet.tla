------------------------------- MODULE AppWallet -------------------------------
(***************************************************************************)
(* The renderer's wallet orchestration: the modes of the app               *)
(* (services/wallet/appWallet.ts) and the Vultisig vaults it switches to   *)
(* (services/wallet/vaultManager.ts), composed with the state the keystore *)
(* service emits (module Keystore has that service in full).               *)
(*                                                                         *)
(* A call is the sequence of steps it has left.  Steps named in Awaits     *)
(* wait for a reply of the main process; JavaScript runs the others, one   *)
(* after the other, before it handles anything else: running is the call   *)
(* whose run is under way.  Writes of observableState notify their         *)
(* subscribers synchronously, so the subscriptions of appWallet.ts are     *)
(* part of the step that writes.                                           *)
(*                                                                         *)
(* The last opened wallet is read from the renderer's copy of the common   *)
(* storage and saved by a request nobody waits for (storage/common.ts);    *)
(* the file it ends in is emptied before it is written (module FileStore   *)
(* has that store in full).                                                *)
(*                                                                         *)
(* A vault's addresses are represented by the vault they belong to.        *)
(***************************************************************************)
EXTENDS Naturals, Sequences

CONSTANTS
    Vaults,      \* ids of Vultisig vaults
    Encrypted,   \* the vaults with a storage password
    Keystores,   \* ids of keystore wallets
    None,        \* O.none, null, undefined
    Slots,       \* bound: calls in flight at once
    Stores,      \* bound: vaults the SDK may have at first
    MaxCalls,    \* bound: calls begun and switches made
    MaxSaves     \* bound: saves in flight when the user acts

ASSUME VaultsAssumption == Encrypted \subseteq Vaults
ASSUME IdsAssumption ==
    None \notin Vaults \cup Keystores /\ Vaults \cap Keystores = {}
ASSUME SlotsAssumption == None \notin Slots
ASSUME BoundsAssumption ==
    Stores \subseteq SUBSET Vaults /\ MaxCalls \in Nat /\ MaxSaves \in Nat

VARIABLES
    app,           \* appWalletState
    vultisig,      \* vultisigState
    keystore,      \* keystoreState
    transitioning, \* _modeTransitioning
    saved,         \* lastOpenedWallet in the file of the common storage
    cached,        \* lastOpenedWallet in the renderer's copy, getStorageState
    loading,       \* what the first request of the copy may answer, {} later
    saves,         \* saves in flight, in the order they were sent
    stored,        \* vaults the SDK of the main process has
    opened,        \* vaults whose password the SDK has accepted
    calls,         \* steps left of each call in flight
    running,       \* the call that runs, or None
    begun,         \* calls begun and switches made so far
    raced,         \* history: an unlock finished after its vault ceased to be
                   \* the active one, or overlapped with a lock
    missed,        \* history: a keystore was unlocked during a switch of mode
    late,          \* history: a vault was saved while the app was elsewhere
    slipped        \* history: the save sent last was refused, or ended before
                   \* one sent earlier

store == <<saved, cached, loading, saves, slipped>>

vars == <<app, vultisig, keystore, transitioning, store, stored, opened, calls,
          running, begun, raced, missed, late>>

Phases == {"VaultSelection", "VaultCreation", "Verification", "VaultLocked",
           "Active"}
Transient == {"VaultCreation", "Verification"}

VaultState == [phase : Phases, vaults : SUBSET Vaults,
               active : Vaults \cup {None}, addresses : Vaults \cup {None}]
InitialVault == [phase |-> "VaultSelection", vaults |-> {}, active |-> None,
                 addresses |-> None]

KeystoreState == [id : Keystores, unlocked : BOOLEAN] \cup {None}
Unlocked(k) == k # None /\ k.unlocked
LockedKeystore(k) == [id |-> k, unlocked |-> FALSE]

KeystoreApp(k) == [mode |-> "keystore", keystore |-> k, vault |-> InitialVault]
VaultApp(v) == [mode |-> "vultisig", keystore |-> None, vault |-> v]
LedgerApp == [mode |-> "ledger", keystore |-> None, vault |-> InitialVault]

Awaits == {"change", "decipher", "add", "remove", "init", "load", "addresses",
           "sdkUnlock", "unlocked", "sdkLock", "created", "verify", "delete"}
Runs == {"startup", "restoreLast", "switch", "switchSafely", "restore", "entered",
         "select", "activate", "setActive", "unlock"}
Step == [do : Awaits \cup Runs, id : Vaults \cup Keystores \cup {None}]
Do(step) == [do |-> step, id |-> None]
DoFor(step, id) == [do |-> step, id |-> id]

\* lastOpenedWallet, as it is read: a vault, or a keystore or none.
Wallets == Vaults \cup {None}
Saves == [wallet : Wallets, met : BOOLEAN]

StoreTypeOK ==
    /\ saved \in Wallets /\ cached \in Wallets
    /\ loading \in SUBSET Wallets
    /\ saves \in Seq(Saves)
    /\ slipped \in BOOLEAN

TypeOK ==
    /\ StoreTypeOK
    /\ app \in [mode : {"keystore", "vultisig", "ledger"},
                keystore : KeystoreState, vault : VaultState]
    /\ vultisig \in VaultState
    /\ keystore \in KeystoreState
    /\ transitioning \in BOOLEAN
    /\ stored \in SUBSET Vaults
    /\ opened \in SUBSET Vaults
    /\ calls \in [Slots -> Seq(Step)]
    /\ running \in Slots \cup {None}
    /\ begun \in Nat
    /\ raced \in BOOLEAN /\ missed \in BOOLEAN /\ late \in BOOLEAN

Init ==
    /\ app = KeystoreApp(None)
    /\ vultisig = InitialVault
    /\ keystore = None
    /\ transitioning = FALSE
    /\ saved \in Wallets
    /\ cached = None /\ loading = {saved}
    /\ saves = <<>>
    /\ stored \in Stores
    /\ opened = {}
    /\ calls = [s \in Slots |-> <<>>]
    /\ running = None
    /\ begun = 0
    /\ raced = FALSE /\ missed = FALSE /\ late = FALSE
    /\ slipped = FALSE

\* Where enterStandaloneMode returns, in a call within it; no call is.
Position(s) == {i \in DOMAIN calls[s] : calls[s][i].do = "entered"}
Resting == \A s \in Slots : Position(s) = {}

Underway(steps) ==
    \E t \in Slots : \E i \in DOMAIN calls[t] : calls[t][i].do \in steps

-----------------------------------------------------------------------------
(* The last opened wallet in the common storage (storage/common.ts)        *)

\* Two saves in flight at a time can spoil what either writes.
Met(list) == [i \in DOMAIN list |->
                 [list[i] EXCEPT !.met = @ \/ Len(list) > 1]]

\* modifyStorage, once for each of these wallets: nobody awaits the answers.
Send(wallets) ==
    /\ saves' = Met(saves \o [i \in DOMAIN wallets |->
                                 [wallet |-> wallets[i], met |-> FALSE]])
    /\ slipped' = (slipped /\ wallets = <<>>)
    /\ UNCHANGED <<saved, cached, loading>>

Others(i) == [j \in 1 .. (Len(saves) - 1) |->
                 IF j < i THEN saves[j] ELSE saves[j + 1]]

\* The file is written, and the answer brings the renderer's copy up to date;
\* or the save is refused, before or after it has emptied the file, which then
\* reads as the default.  Answers come in the order of the writes.
SaveEnds ==
    /\ running = None
    /\ \E i \in DOMAIN saves, done \in BOOLEAN :
          /\ saved' \in IF done
                        THEN {saves[i].wallet} \cup (IF saves[i].met THEN {None} ELSE {})
                        ELSE {saved, None}
          /\ cached' = IF done THEN saves[i].wallet ELSE cached
          /\ saves' = Others(i)
          /\ slipped' = (slipped \/ (i = Len(saves) /\ (~done \/ i > 1)))
    /\ loading' = IF loading = {} THEN {} ELSE loading \cup {saved'}
    /\ UNCHANGED <<app, vultisig, keystore, transitioning, stored, opened, calls,
                   running, begun, raced, missed, late>>

\* The initial load of the copy: nothing of this module waits for it.  It may
\* fail, or read a file that is being written.
StorageLoads ==
    /\ running = None /\ loading # {}
    /\ cached' \in loading \cup {None}
    /\ loading' = {}
    /\ UNCHANGED <<app, vultisig, keystore, transitioning, saved, saves, slipped,
                   stored, opened, calls, running, begun, raced, missed, late>>

-----------------------------------------------------------------------------
(* The subscriptions of appWallet.ts                                       *)

\* Mutant of Propagated: a locked vault is taken for a transient phase.
Propagated_NotLocked(v) ==
    IF app.mode = "vultisig" /\ v.phase \notin Transient \cup {"VaultLocked"}
    THEN VaultApp(v) ELSE app

\* vultisigSub: transient phases are not propagated.
Propagated(v) ==
    IF app.mode = "vultisig" /\ v.phase \notin Transient THEN VaultApp(v) ELSE app

SetVultisig(v) == vultisig' = v /\ app' = Propagated(v)

\* vaultManager.exitStandaloneMode, which also clears lastOpenedWallet.
Exited == [InitialVault EXCEPT !.vaults = vultisig.vaults]

\* keystoreSub: keystoreState has become k; then, if the operation does so,
\* the keystore service saves it as the last opened wallet.
Emit(k, save) ==
    /\ keystore' = k
    /\ missed' = (missed \/ (Unlocked(k) /\ ~Resting))
    /\ IF transitioning \/ (app.mode # "keystore" /\ k = None)
       THEN UNCHANGED <<app, vultisig>>
       ELSE /\ app' = KeystoreApp(k)
            /\ vultisig' = IF app.mode = "keystore" THEN vultisig ELSE Exited
    /\ Send((IF ~transitioning /\ app.mode # "keystore" /\ k # None
             THEN <<None>> ELSE <<>>)
            \o (IF save THEN <<None>> ELSE <<>>))

-----------------------------------------------------------------------------
(* Running a call                                                          *)

MayRun(s) == running \in {s, None}
At(s, step) == calls[s] # <<>> /\ Head(calls[s]).do = step /\ MayRun(s)

\* Go on with these steps: run on unless the first of them waits.
Become(s, steps) ==
    /\ calls' = [calls EXCEPT ![s] = steps]
    /\ running' = IF steps = <<>> \/ Head(steps).do \in Awaits THEN None ELSE s
Pop(s) == Become(s, Tail(calls[s])) /\ UNCHANGED begun
Push(s, steps) == Become(s, steps \o Tail(calls[s])) /\ UNCHANGED begun
Arg(s) == Head(calls[s]).id

Started == begun > 0

\* The user, a timer or the start of the app acts; the bounds are that the
\* storage is loaded before the user does, and does not lag far behind.
Act ==
    /\ running = None
    /\ begun < MaxCalls /\ Len(saves) < MaxSaves
    /\ Started => loading = {}
    /\ begun' = begun + 1

\* A call takes the first free slot.
Begin(s, steps) ==
    /\ calls[s] = <<>> /\ s = CHOOSE t \in Slots : calls[t] = <<>>
    /\ Act
    /\ Become(s, steps)

\* Mutant of Throw: nothing catches an exception.
Throw_Uncaught(s) == Become(s, <<>>) /\ UNCHANGED begun

\* An exception: enterStandaloneMode catches it, no other call does.
Throw(s) ==
    /\ Become(s, IF Position(s) = {} THEN <<>>
                 ELSE SubSeq(calls[s], CHOOSE i \in Position(s) : TRUE,
                             Len(calls[s])))
    /\ UNCHANGED begun

IsLocked ==
    CASE app.mode = "vultisig" -> app.vault.phase = "VaultLocked"
      [] app.mode = "ledger" -> FALSE
      [] OTHER -> ~Unlocked(app.keystore)

-----------------------------------------------------------------------------
(* The keystore service emits: at the start, and when one of its calls     *)
(* ends (awaits of module Keystore's calls, without the wallet list).      *)
(* A rename of the unlocked wallet emits what an unlock does: "decipher"   *)
(* stands for both.                                                        *)

Startup(s) ==
    /\ ~Started
    /\ \E k \in Keystores \cup {None} :
          Emit(IF k = None THEN None ELSE LockedKeystore(k), FALSE)
    /\ Begin(s, <<Do("restoreLast")>>)
    /\ UNCHANGED <<transitioning, stored, opened, raced, late>>

KeystoreCall(s) ==
    /\ Started
    /\ \/ \E k \in Keystores :
             \/ Begin(s, <<DoFor("change", k)>>)
             \/ Begin(s, <<DoFor("add", k)>>)
       \/ /\ keystore # None /\ app.mode = "keystore"
          /\ \/ Begin(s, <<DoFor("decipher", keystore.id)>>)
             \/ Begin(s, <<DoFor("remove", keystore.id)>>)
    /\ UNCHANGED <<app, vultisig, keystore, transitioning, store, stored, opened,
                   raced, missed, late>>

KeystoreEmits(s) ==
    /\ \/ At(s, "change") /\ Emit(LockedKeystore(Arg(s)), TRUE)
       \/ At(s, "add") /\ Emit([id |-> Arg(s), unlocked |-> TRUE], TRUE)
       \/ At(s, "decipher") /\ Emit([id |-> Arg(s), unlocked |-> TRUE], FALSE)
       \/ /\ At(s, "remove")
          /\ \E k \in (Keystores \ {Arg(s)}) \cup {None} :
                Emit(IF k = None THEN None ELSE LockedKeystore(k), FALSE)
    /\ Pop(s)
    /\ UNCHANGED <<transitioning, stored, opened, raced, late>>

\* A refused save or a wrong password.
KeystoreFails(s) ==
    /\ \E step \in {"change", "add", "decipher", "remove"} : At(s, step)
    /\ Throw(s)
    /\ UNCHANGED <<app, vultisig, keystore, transitioning, store, stored, opened,
                   raced, missed, late>>

LockKeystore ==
    /\ running = None /\ app.mode = "keystore" /\ keystore # None
    /\ Emit([keystore EXCEPT !.unlocked = FALSE], FALSE)
    /\ UNCHANGED <<transitioning, stored, opened, calls, running, begun, raced, late>>

-----------------------------------------------------------------------------
(* appWallet.ts: switching between the modes                               *)

\* Mutant of ExitToKeystore: the last opened wallet is not cleared.
ExitToKeystore_KeepsSaved ==
    /\ vultisig' = Exited
    /\ app' = KeystoreApp(keystore)
    /\ UNCHANGED store

ExitToKeystore ==
    /\ vultisig' = Exited
    /\ app' = KeystoreApp(keystore)
    /\ Send(<<None>>)

SwitchToKeystore ==
    /\ Started /\ Act
    /\ ExitToKeystore
    /\ UNCHANGED <<keystore, transitioning, stored, opened, calls, running, raced,
                   missed, late>>

SwitchToLedger ==
    /\ Started /\ Act /\ IsLocked
    /\ app' = LedgerApp
    /\ UNCHANGED <<vultisig, keystore, transitioning, store, stored, opened, calls,
                   running, raced, missed, late>>

\* restoreLastOpenedWallet
RestoreLast(s) ==
    /\ At(s, "restoreLast")
    /\ IF cached \in Vaults
       THEN Push(s, <<Do("switchSafely")>>) /\ UNCHANGED <<app, vultisig, store>>
       ELSE Pop(s) /\ ExitToKeystore
    /\ UNCHANGED <<keystore, transitioning, stored, opened, raced, missed, late>>

LeaveLedger(s) ==
    /\ app.mode = "ledger"
    /\ Begin(s, <<Do("restoreLast")>>)
    /\ UNCHANGED <<app, vultisig, keystore, transitioning, store, stored, opened,
                   raced, missed, late>>

\* switchToVultisigMode: nothing to do, or refused without autoLock.
SwitchEndsAtOnce(s) ==
    /\ \E step \in {"switch", "switchSafely"} : At(s, step)
    /\ \/ app.mode = "vultisig" /\ UNCHANGED transitioning
       \/ /\ app.mode # "vultisig"
          /\ Unlocked(keystore) /\ At(s, "switchSafely")
          /\ transitioning' = FALSE
    /\ Pop(s)
    /\ UNCHANGED <<app, vultisig, keystore, store, stored, opened, raced, missed,
                   late>>

\* Mutant of Switch: autoLock does not lock the keystore.
Switch_KeepsUnlocked(s) ==
    /\ At(s, "switch")
    /\ app.mode # "vultisig"
    /\ transitioning' = TRUE
    /\ Push(s, <<Do("entered")>>)
    /\ UNCHANGED <<app, vultisig, keystore, store, stored, opened, raced, missed,
                   late>>

\* switchToVultisigMode up to the first await of enterStandaloneMode.
Switch(s) ==
    /\ \E step \in {"switch", "switchSafely"} : At(s, step)
    /\ app.mode # "vultisig"
    /\ At(s, "switch") \/ ~Unlocked(keystore)
    /\ transitioning' = TRUE
    /\ keystore' = IF Unlocked(keystore) THEN LockedKeystore(keystore.id)
                   ELSE keystore
    /\ IF vultisig.phase = "Active" /\ vultisig.active # None
       THEN Push(s, <<Do("entered")>>) /\ UNCHANGED vultisig
       ELSE /\ vultisig' = [vultisig EXCEPT !.phase = "VaultSelection"]
            /\ Push(s, <<Do("init")>>
                       \o (IF vultisig.vaults = {} THEN <<Do("load")>> ELSE <<>>)
                       \o <<Do("restore"), Do("entered")>>)
    /\ UNCHANGED <<app, store, stored, opened, raced, missed, late>>

Restore(s) ==
    /\ At(s, "restore")
    /\ IF cached \in vultisig.vaults
       THEN Push(s, <<DoFor("select", cached)>>) /\ UNCHANGED store
       ELSE /\ Pop(s)
            /\ IF cached \in Vaults THEN Send(<<None>>) ELSE UNCHANGED store
    /\ UNCHANGED <<app, vultisig, keystore, transitioning, stored, opened, raced,
                   missed, late>>

Entered(s) ==
    /\ At(s, "entered")
    /\ app' = VaultApp(vultisig)
    /\ transitioning' = FALSE
    /\ Pop(s)
    /\ UNCHANGED <<vultisig, keystore, store, stored, opened, raced, missed, late>>

-----------------------------------------------------------------------------
(* vaultManager.ts                                                         *)

VaultCall(s) ==
    /\ Started
    /\ \/ \E v \in vultisig.vaults :
             \/ Begin(s, <<Do("switch"), DoFor("select", v)>>)
             \/ Begin(s, <<DoFor("delete", v)>>)
       \/ Begin(s, <<Do("switch")>>)
       \/ Begin(s, <<Do("init"), Do("load")>>)
       \/ /\ app.mode = "vultisig" /\ vultisig.phase = "VaultLocked"
          /\ Begin(s, <<Do("unlock")>>)
    /\ UNCHANGED <<app, vultisig, keystore, transitioning, store, stored, opened,
                   raced, missed, late>>

\* An imported vault, or one created in a secure ceremony, is in the SDK.
Import(s, v) ==
    /\ Started
    /\ \/ Begin(s, <<Do("switch"), Do("load"), DoFor("activate", v)>>)
       \/ v \notin stored /\ Begin(s, <<DoFor("setActive", v), Do("switch")>>)
    /\ stored' = stored \cup {v}
    /\ opened' = opened \cup {v}
    /\ UNCHANGED <<app, vultisig, keystore, transitioning, store, raced, missed,
                   late>>

Ready(s) ==
    /\ At(s, "init")
    /\ Pop(s)
    /\ UNCHANGED <<app, vultisig, keystore, transitioning, store, stored, opened,
                   raced, missed, late>>

\* The reply of listVaults; a failure is caught by loadVaults.
Loaded(s) ==
    /\ At(s, "load")
    /\ \/ SetVultisig([vultisig EXCEPT !.vaults = stored])
       \/ UNCHANGED <<vultisig, app>>
    /\ Pop(s)
    /\ UNCHANGED <<keystore, transitioning, store, stored, opened, raced, missed,
                   late>>

SelectUnknown(s) ==
    /\ At(s, "select") \/ At(s, "activate")
    /\ Arg(s) \notin vultisig.vaults
    /\ Pop(s)
    /\ UNCHANGED <<app, vultisig, keystore, transitioning, store, stored, opened,
                   raced, missed, late>>

SelectLocked(s) ==
    /\ At(s, "select") /\ Arg(s) \in vultisig.vaults \cap Encrypted
    /\ SetVultisig([vultisig EXCEPT !.phase = "VaultLocked", !.active = Arg(s),
                                    !.addresses = None])
    /\ Pop(s)
    /\ UNCHANGED <<keystore, transitioning, store, stored, opened, raced, missed,
                   late>>

\* Mutant of SelectOpen: the password of an encrypted vault is not asked for.
SelectOpen_NoPassword(s) ==
    /\ At(s, "select") \/ At(s, "activate")
    /\ Arg(s) \in vultisig.vaults
    /\ Push(s, <<DoFor("addresses", Arg(s))>>)
    /\ UNCHANGED <<app, vultisig, keystore, transitioning, store, stored, opened,
                   raced, missed, late>>

SelectOpen(s) ==
    /\ \/ At(s, "select") /\ Arg(s) \in vultisig.vaults \ Encrypted
       \/ At(s, "activate") /\ Arg(s) \in vultisig.vaults
    /\ Push(s, <<DoFor("addresses", Arg(s))>>)
    /\ UNCHANGED <<app, vultisig, keystore, transitioning, store, stored, opened,
                   raced, missed, late>>

\* Mutant of Activate: the vault that is active now is kept.
Activate_KeepsVault(v) ==
    /\ SetVultisig([vultisig EXCEPT !.phase = "Active", !.addresses = v])
    /\ Send(<<v>>)

Activate(v) ==
    /\ SetVultisig([vultisig EXCEPT !.phase = "Active", !.active = v,
                                    !.addresses = v])
    /\ Send(<<v>>)

Elsewhere == app.mode # "vultisig" /\ ~transitioning

Selected(s) ==
    /\ At(s, "addresses")
    /\ Activate(Arg(s))
    /\ late' = (late \/ Elsewhere)
    /\ Pop(s)
    /\ UNCHANGED <<keystore, transitioning, stored, opened, raced, missed>>

SelectFails(s) ==
    /\ At(s, "addresses")
    /\ Send(<<None>>)
    /\ Pop(s)
    /\ UNCHANGED <<app, vultisig, keystore, transitioning, stored, opened, raced,
                   missed, late>>

SetActive(s) ==
    /\ At(s, "setActive")
    /\ Activate(Arg(s))
    /\ Pop(s)
    /\ UNCHANGED <<keystore, transitioning, stored, opened, raced, missed, late>>

\* unlockVault reads the active vault, then awaits the SDK.
Unlock(s) ==
    /\ At(s, "unlock")
    /\ IF vultisig.active = None THEN Throw(s)
       ELSE Push(s, (IF vultisig.active \in Encrypted
                     THEN <<DoFor("sdkUnlock", vultisig.active)>> ELSE <<>>)
                    \o <<DoFor("unlocked", vultisig.active)>>)
    /\ UNCHANGED <<app, vultisig, keystore, transitioning, store, stored, opened,
                   raced, missed, late>>

PasswordAccepted(s) ==
    /\ At(s, "sdkUnlock")
    /\ opened' = opened \cup {Arg(s)}
    /\ Pop(s)
    /\ UNCHANGED <<app, vultisig, keystore, transitioning, store, stored, raced,
                   missed, late>>

VaultUnlocked(s) ==
    /\ At(s, "unlocked")
    /\ SetVultisig([vultisig EXCEPT !.phase = "Active", !.addresses = Arg(s)])
    /\ Send(<<Arg(s)>>)
    /\ raced' = (raced \/ vultisig.active # Arg(s))
    /\ late' = (late \/ Elsewhere)
    /\ Pop(s)
    /\ UNCHANGED <<keystore, transitioning, stored, opened, missed>>

\* A rejected init, password, getAddresses or deleteVault.  The message it
\* leaves in the state is left out: app shows the rest of it already.
VaultCallFails(s) ==
    /\ \E step \in {"init", "sdkUnlock", "unlocked", "delete"} : At(s, step)
    /\ Throw(s)
    /\ UNCHANGED <<app, vultisig, keystore, transitioning, store, stored, opened,
                   raced, missed, late>>

\* The header locks only what is not locked (HeaderComponent.tsx:221).
LockVault(s) ==
    /\ app.mode = "vultisig" /\ ~IsLocked /\ vultisig.active # None
    /\ SetVultisig([vultisig EXCEPT !.phase = "VaultLocked", !.addresses = None])
    /\ Begin(s, <<DoFor("sdkLock", vultisig.active)>>)
    /\ UNCHANGED <<keystore, transitioning, store, stored, opened, raced, missed,
                   late>>

VaultLocked(s) ==
    /\ At(s, "sdkLock")
    /\ opened' \in {opened, opened \ {Arg(s)}}
    /\ raced' = (raced \/ Underway({"unlocked", "activate", "addresses"}))
    /\ Pop(s)
    /\ UNCHANGED <<app, vultisig, keystore, transitioning, store, stored, missed,
                   late>>

\* createFastVault, from the screens of a locked or empty app.
CreateVault(s, v) ==
    /\ Started /\ IsLocked /\ v \notin stored
    /\ Begin(s, <<DoFor("created", v)>>)
    /\ SetVultisig([vultisig EXCEPT !.phase = "VaultCreation", !.active = None,
                                    !.addresses = None])
    /\ UNCHANGED <<keystore, transitioning, store, stored, opened, raced, missed,
                   late>>

Created(s) ==
    /\ At(s, "created")
    /\ \/ /\ SetVultisig([vultisig EXCEPT !.phase = "Verification"])
          /\ Push(s, <<DoFor("verify", Arg(s))>>)
       \/ /\ SetVultisig([vultisig EXCEPT !.phase = "VaultSelection"])
          /\ Throw(s)
    /\ UNCHANGED <<keystore, transitioning, store, stored, opened, raced, missed,
                   late>>

\* verifyVault, or the user gives up.
Verified(s) ==
    /\ At(s, "verify")
    /\ \/ /\ stored' = stored \cup {Arg(s)}
          /\ opened' = opened \cup {Arg(s)}
          /\ Push(s, <<Do("load"), DoFor("activate", Arg(s))>>)
       \/ Throw(s) /\ UNCHANGED <<stored, opened>>
    /\ UNCHANGED <<app, vultisig, keystore, transitioning, store, raced, missed,
                   late>>

Deleted(s) ==
    /\ At(s, "delete")
    /\ stored' = stored \ {Arg(s)}
    /\ IF vultisig.active = Arg(s)
       THEN SetVultisig(Exited) /\ Send(<<None>>)
       ELSE UNCHANGED <<vultisig, app, store>>
    /\ Push(s, <<Do("load")>>)
    /\ UNCHANGED <<keystore, transitioning, opened, raced, missed, late>>

-----------------------------------------------------------------------------
StepOf(s) ==
    \/ KeystoreEmits(s) \/ KeystoreFails(s) \/ RestoreLast(s)
    \/ SwitchEndsAtOnce(s) \/ Switch(s) \/ Restore(s) \/ Entered(s) \/ Ready(s)
    \/ Loaded(s) \/ SelectUnknown(s) \/ SelectLocked(s) \/ SelectOpen(s)
    \/ Selected(s) \/ SelectFails(s) \/ SetActive(s) \/ Unlock(s)
    \/ PasswordAccepted(s) \/ VaultUnlocked(s) \/ VaultCallFails(s)
    \/ VaultLocked(s) \/ Created(s) \/ Verified(s) \/ Deleted(s)

Next ==
    \/ LockKeystore \/ SwitchToKeystore \/ SwitchToLedger
    \/ SaveEnds \/ StorageLoads
    \/ \E s \in Slots :
          \/ Startup(s) \/ KeystoreCall(s) \/ LeaveLedger(s) \/ VaultCall(s)
          \/ LockVault(s) \/ StepOf(s)
          \/ \E v \in Vaults : Import(s, v) \/ CreateVault(s, v)

Spec == Init /\ [][Next]_vars

\* Every request to the main process is answered.
FairSpec == Spec /\ \A s \in Slots : WF_vars(StepOf(s))

-----------------------------------------------------------------------------
(* Whatever calls overlap, the addresses shown and spent from are those of *)
(* the active vault, unless an unlock ended after its vault had ceased to  *)
(* be the active one.                                                      *)
AddressesUnlessRaced ==
    ~raced /\ vultisig.phase = "Active" => /\ vultisig.active # None
                                          /\ vultisig.addresses = vultisig.active

(* The app shows the state of the mode it is in: no emission of a service  *)
(* is lost, but for the transient creation phases, once no switch is under *)
(* way.                                                                    *)
AppMirrorsService ==
    /\ app.mode = "vultisig" => app.vault = vultisig \/ vultisig.phase \in Transient
    /\ app.mode = "keystore" /\ Resting => app.keystore = keystore

(* appWallet.ts:250 "Prevent switching to vultisig-only mode if keystore   *)
(* is unlocked": no phrase stays in memory behind another mode, unless an  *)
(* unlock ended during a switch.                                           *)
OneUnlockedUnlessMissed ==
    Resting /\ ~missed /\ app.mode # "keystore" => ~Unlocked(keystore)

(* appWallet.ts:413 "Restore last opened wallet from storage": while the   *)
(* app shows a keystore wallet, no call runs and no save is in flight, the *)
(* next start does not restore a vault, however saves overlapped, failed   *)
(* or cut the file short before: unless a vault was activated after the    *)
(* user had left, or the save sent last was refused or overtook another.   *)
SavedFollowsMode ==
    (/\ Resting /\ Started /\ running = None /\ saves = <<>>
     /\ ~late /\ ~slipped /\ app.mode = "keystore")
       => saved \notin Vaults

(* An encrypted vault becomes active only while the SDK has its password,  *)
(* unless an unlock overlapped with a selection or a lock.                 *)
ActiveWasOpened ==
    [][vultisig'.phase = "Active" /\ vultisig.phase # "Active" /\ ~raced' =>
          vultisig'.active \in opened' \cup (Vaults \ Encrypted)]_vars

(* A switch always ends, and with it the suppression of the keystore's     *)
(* emissions.                                                              *)
TransitionEnds == transitioning ~> ~transitioning

(* What vaultManager.ts:469, "Unlock the active vault with password",      *)
(* would promise: the addresses of the active phase are those of the       *)
(* active vault.  It does not hold when they arrive after the user went on *)
(* to another vault, which is why AddressesUnlessRaced has its condition.  *)
AddressesAreOfActiveVault ==
    vultisig.phase = "Active" => vultisig.addresses = vultisig.active
=============================================================================
