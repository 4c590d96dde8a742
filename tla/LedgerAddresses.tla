---------------------------- MODULE LedgerAddresses ----------------------------
(***************************************************************************)
(* The Ledger addresses of the keystores: the list the renderer keeps      *)
(* (services/wallet/ledger.ts), ledgers.json of the main process           *)
(* (main/api/ledger/storage.ts), and the keystores the addresses belong to.*)
(*                                                                         *)
(* Every change of the list sends the whole list to the main process and   *)
(* looks at no answer.  The list is a set here: its order matters only to  *)
(* a lookup that names no derivation, which is not modelled.  The network  *)
(* is part of the chain.                                                   *)
(***************************************************************************)
EXTENDS Naturals

CONSTANTS
    Keystores,    \* keystore ids
    Chains,
    BTC,          \* BTCChain
    Modes,        \* HD modes, "default" and "p2wpkh" among them
    Offered,      \* the chains and modes the settings offer to add
    Accounts,     \* which account and index the user types
    None,
    Slots,        \* bound: saves in flight at once
    MaxChanges,   \* bound: changes by the user
    MaxFailures,  \* bound: file operations that fail
    MaxQuits      \* bound: restarts of the app

ASSUME ChainsAssumption ==
    /\ BTC \in Chains
    /\ {"default", "p2wpkh"} \subseteq Modes
    /\ Offered \subseteq [chain : Chains, mode : Modes]
    /\ [chain |-> BTC, mode |-> "default"] \notin Offered
    /\ None \notin Keystores
ASSUME BoundsAssumption ==
    MaxChanges \in Nat /\ MaxFailures \in Nat /\ MaxQuits \in Nat

VARIABLES
    wallets,    \* keystoreWallets$
    onDisk,     \* the keystores of wallets.json
    removing,   \* the keystore removeKeystoreWallet awaits the save for
    settings,   \* the keystore whose settings are on the screen
    asked,      \* the address those settings wait for
    addresses,  \* ledgerAddresses
    load,       \* persistentLedgerAddresses$
    file,       \* ledgers.json
    saves,      \* the saves in flight
    changes,    \* changes by the user so far
    failures,   \* file operations that failed so far
    quits,      \* restarts so far
    intent,     \* history: the stored list with every change applied
    disturbed,  \* history: a save met another one or the load, failed, was cut
                \* short, or was made although nothing had been loaded
    straggled   \* history: an address came after its keystore had gone, or the
                \* app ended between the removal and its answer

walletVars == <<wallets, onDisk, removing>>
viewVars == <<settings, asked>>
bounds == <<changes, failures, quits>>
vars == <<walletVars, viewVars, addresses, load, file, saves, bounds, intent,
          disturbed, straggled>>

Entry == [keystore : Keystores, chain : Chains, mode : Modes, account : Accounts]
Forms == {"absent", "empty", "json", "garbage"}
Phases == {"idle", "opening", "filling"}
Loads == {"reading", "read", "failed", "done"}

NoSave == [phase |-> "idle", list |-> {}]

TypeOK ==
    /\ wallets \subseteq Keystores
    /\ onDisk \subseteq Keystores
    /\ removing \in Keystores \cup {None}
    /\ settings \in Keystores \cup {None}
    /\ asked \in Entry \cup {None}
    /\ addresses \subseteq Entry
    /\ load \in [phase : Loads, list : SUBSET Entry]
    /\ file \in [form : Forms, list : SUBSET Entry]
    /\ saves \in [Slots -> [phase : Phases, list : SUBSET Entry]]
    /\ changes \in Nat /\ failures \in Nat /\ quits \in Nat
    /\ intent \subseteq Entry
    /\ disturbed \in BOOLEAN /\ straggled \in BOOLEAN

-----------------------------------------------------------------------------
\* Mutant of NormalizeHDMode: addresses stored by earlier versions count as
\* another derivation.
NormalizeNothing(chain, mode) == mode

\* normalizeHDMode.
NormalizeHDMode(chain, mode) ==
    IF chain = BTC /\ mode = "default" THEN "p2wpkh" ELSE mode

\* sameLedgerEntry.
SameLedgerEntry(a, b) ==
    /\ a.keystore = b.keystore
    /\ a.chain = b.chain
    /\ NormalizeHDMode(a.chain, a.mode) = NormalizeHDMode(b.chain, b.mode)

\* What two entries of a list must not agree in.
Derivation(e) ==
    <<e.keystore, e.chain,
      IF e.chain = BTC /\ e.mode = "default" THEN "p2wpkh" ELSE e.mode>>

EachOnce(list) == \A a, b \in list : Derivation(a) = Derivation(b) => a = b

Idle(s) == saves[s].phase = "idle"
AllIdle == \A s \in Slots : Idle(s)

\* Any list an earlier run left, of this version or of one that stored the
\* only derivation of Bitcoin as "default"; or none, or a file cut short.
Init ==
    /\ wallets = {}
    /\ onDisk \in SUBSET Keystores
    /\ removing = None
    /\ settings = None
    /\ asked = None
    /\ addresses = {}
    /\ load = [phase |-> "reading", list |-> {}]
    /\ file \in [form : {"absent", "garbage"}, list : {{}}] \cup
                [form : {"json"},
                 list : {list \in SUBSET Entry :
                            /\ EachOnce(list)
                            /\ \A e \in list : e.keystore \in onDisk}]
    /\ saves = [s \in Slots |-> NoSave]
    /\ changes = 0 /\ failures = 0 /\ quits = 0
    /\ intent = file.list
    /\ disturbed = FALSE
    /\ straggled = FALSE

-----------------------------------------------------------------------------
(* The service                                                             *)

\* Mutant of SaveLedgerAddresses: only the renderer's list changes.
SaveNothing(list) ==
    /\ addresses' = list
    /\ UNCHANGED <<saves, disturbed>>

\* saveLedgerAddresses: the list is set and sent.
SaveLedgerAddresses(list) ==
    /\ addresses' = list
    /\ \E s \in Slots :
        /\ Idle(s)
        /\ saves' = [saves EXCEPT ![s] = [phase |-> "opening", list |-> list]]
    /\ disturbed' = (disturbed \/ ~ AllIdle \/ load.phase # "done")

\* _addLedgerAddress.
Added(list, entry) == {e \in list : ~ SameLedgerEntry(e, entry)} \cup {entry}

\* removeLedgerAddress; without a mode every derivation of the chain goes.
Removed(list, keystore, chain, mode) ==
    {e \in list : ~ /\ e.keystore = keystore
                    /\ e.chain = chain
                    /\ \/ mode = None
                       \/ NormalizeHDMode(chain, e.mode) = NormalizeHDMode(chain, mode)}

\* Mutant of OfOthers: the difference is taken the other way round.
OfOne(list, keystore) == {e \in list : e.keystore = keystore}

\* The filter of the subscription to removedKeystoreId$.
OfOthers(list, keystore) == {e \in list : e.keystore # keystore}

Changes ==
    /\ changes < MaxChanges
    /\ changes' = changes + 1
    /\ UNCHANGED <<failures, quits>>

-----------------------------------------------------------------------------
(* The settings of a keystore                                              *)

OpenSettings(k) ==
    /\ k \in wallets
    /\ settings = None
    /\ settings' = k
    /\ UNCHANGED <<walletVars, asked, addresses, load, file, saves, bounds,
                   intent, disturbed, straggled>>

\* Leaving the screen unsubscribes from addLedgerAddress$.
CloseSettings ==
    /\ settings # None
    /\ settings' = None
    /\ asked' = None
    /\ UNCHANGED <<walletVars, addresses, load, file, saves, bounds, intent,
                   disturbed, straggled>>

\* addLedgerAddress$ asks the device; a request made before is forgotten.
AddLedgerAddress(way, account) ==
    /\ settings # None
    /\ Changes
    /\ asked' = [keystore |-> settings, chain |-> way.chain, mode |-> way.mode,
                 account |-> account]
    /\ UNCHANGED <<walletVars, settings, addresses, load, file, saves, intent,
                   disturbed, straggled>>

DeviceAnswers ==
    /\ asked # None
    /\ asked' = None
    /\ SaveLedgerAddresses(Added(addresses, asked))
    /\ intent' = Added(intent, asked)
    /\ straggled' = (straggled \/ asked.keystore \notin wallets)
    /\ UNCHANGED <<walletVars, settings, load, file, bounds>>

\* The device refuses, or RxOp.timeout gives up: a later answer finds nobody.
DeviceFails ==
    /\ asked # None
    /\ asked' = None
    /\ UNCHANGED <<walletVars, settings, addresses, load, file, saves, bounds,
                   intent, disturbed, straggled>>

\* An address on the screen is removed.
RemoveLedgerAddress(entry) ==
    /\ entry.keystore = settings
    /\ Changes
    /\ \E mode \in {None, entry.mode} :
        /\ SaveLedgerAddresses(Removed(addresses, settings, entry.chain, mode))
        /\ intent' = Removed(intent, settings, entry.chain, mode)
    /\ UNCHANGED <<walletVars, viewVars, load, file, straggled>>

-----------------------------------------------------------------------------
(* Keystores                                                               *)

LoadWallets ==
    /\ wallets = {}
    /\ wallets' = onDisk
    /\ UNCHANGED <<onDisk, removing, viewVars, addresses, load, file, saves,
                   bounds, intent, disturbed, straggled>>

\* removeKeystoreWallet has its list saved and waits for the answer.
RemoveKeystoreWallet ==
    /\ settings \in wallets
    /\ removing = None
    /\ Changes
    /\ removing' = settings
    /\ onDisk' = onDisk \ {settings}
    /\ UNCHANGED <<wallets, viewVars, addresses, load, file, saves, intent,
                   disturbed, straggled>>

\* The answer: keystoreWallets$ emits, and the comparison with what it emitted
\* before names the removed keystore.
KeystoreRemoved ==
    /\ removing # None
    /\ wallets' = wallets \ {removing}
    /\ removing' = None
    /\ SaveLedgerAddresses(OfOthers(addresses, removing))
    /\ intent' = OfOthers(intent, removing)
    /\ UNCHANGED <<onDisk, viewVars, load, file, bounds, straggled>>

-----------------------------------------------------------------------------
(* The main process                                                        *)

fileFrame == <<walletVars, viewVars, addresses, changes, quits, intent, straggled>>

\* getAddresses.
Read ==
    /\ load.phase = "reading"
    /\ load' = CASE file.form = "json" -> [phase |-> "read", list |-> file.list]
                 [] file.form = "absent" -> [phase |-> "read", list |-> {}]
                 [] OTHER -> [phase |-> "failed", list |-> {}]
    /\ UNCHANGED <<fileFrame, file, saves, failures, disturbed>>

\* saveAddresses opens the file, which empties it, and then fills it.
Open(s) ==
    /\ saves[s].phase = "opening"
    /\ file' = [form |-> "empty", list |-> {}]
    /\ saves' = [saves EXCEPT ![s].phase = "filling"]
    /\ UNCHANGED <<fileFrame, load, failures, disturbed>>

\* What another save has filled in meanwhile can be longer.
Fill(s) ==
    /\ saves[s].phase = "filling"
    /\ \/ file' = [form |-> "json", list |-> saves[s].list]
       \/ file.form # "empty" /\ file' = [form |-> "garbage", list |-> {}]
    /\ saves' = [saves EXCEPT ![s] = NoSave]
    /\ UNCHANGED <<fileFrame, load, failures, disturbed>>

ReadFails ==
    /\ load.phase = "reading"
    /\ load' = [phase |-> "failed", list |-> {}]
    /\ UNCHANGED <<file, saves, disturbed>>

\* Nobody looks at the failure of a save.
SaveFails(s) ==
    /\ \/ saves[s].phase = "opening" /\ UNCHANGED file
       \/ saves[s].phase = "filling" /\ file' = [form |-> "garbage", list |-> {}]
    /\ saves' = [saves EXCEPT ![s] = NoSave]
    /\ disturbed' = TRUE
    /\ UNCHANGED load

Fails ==
    /\ failures < MaxFailures
    /\ failures' = failures + 1
    /\ ReadFails \/ \E s \in Slots : SaveFails(s)
    /\ UNCHANGED fileFrame

\* The subscription to persistentLedgerAddresses$.
Loaded ==
    /\ load.phase = "read"
    /\ load' = [phase |-> "done", list |-> {}]
    /\ addresses' = load.list
    /\ UNCHANGED <<walletVars, viewVars, file, saves, bounds, intent, disturbed,
                   straggled>>

\* The alert of AppView offers to load again.
ReloadPersistentLedgerAddresses ==
    /\ load.phase = "failed"
    /\ load' = [phase |-> "reading", list |-> {}]
    /\ UNCHANGED <<walletVars, viewVars, addresses, file, saves, bounds, intent,
                   disturbed, straggled>>

\* The app ends, at any point, and starts again.
Quit ==
    /\ quits < MaxQuits
    /\ quits' = quits + 1
    /\ wallets' = {}
    /\ removing' = None
    /\ settings' = None
    /\ asked' = None
    /\ addresses' = {}
    /\ load' = [phase |-> "reading", list |-> {}]
    /\ saves' = [s \in Slots |-> NoSave]
    /\ disturbed' = (disturbed \/ ~ AllIdle)
    /\ straggled' = (straggled \/ removing # None)
    /\ UNCHANGED <<onDisk, file, changes, failures, intent>>

UserChanges ==
    \/ \E way \in Offered, account \in Accounts : AddLedgerAddress(way, account)
    \/ \E entry \in addresses : RemoveLedgerAddress(entry)
    \/ RemoveKeystoreWallet

Next ==
    \/ \E k \in Keystores : OpenSettings(k)
    \/ CloseSettings
    \/ UserChanges
    \/ DeviceAnswers
    \/ DeviceFails
    \/ LoadWallets
    \/ KeystoreRemoved
    \/ Read
    \/ \E s \in Slots : Open(s) \/ Fill(s)
    \/ Fails
    \/ Loaded
    \/ ReloadPersistentLedgerAddresses
    \/ Quit

Spec == Init /\ [][Next]_vars

-----------------------------------------------------------------------------
\* A keystore has one address for each chain and derivation, whatever order
\* additions, removals, loads and saves come in, although what an earlier
\* version stored names Bitcoin's derivation otherwise.
OnePerDerivation == EachOnce(addresses)

\* Once everything is written, the list and the file are what the user made of
\* the stored list, over restarts too, unless a save met another one or the
\* load, failed or was cut short.
KeptAsAsked ==
    (load.phase = "done" /\ AllIdle /\ ~ disturbed) =>
        addresses = intent /\ file.list = intent

\* No address outlives its keystore, but for one that comes when the keystore
\* has just gone, or whose keystore was removed as the app ended.
NoOrphans ==
    (~ disturbed /\ ~ straggled) =>
        \A e \in addresses : e.keystore \in onDisk \cup {removing}

===============================================================================
