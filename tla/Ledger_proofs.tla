----------------------------- MODULE Ledger_proofs -----------------------------
(***************************************************************************)
(* The app and its Ledger devices: the safety properties of the standalone *)
(* mode (module StandaloneLedger) for any chains, paths and number of      *)
(* detections at once, and of the addresses added to keystores (module     *)
(* LedgerAddresses) for any keystores, chains, accounts, saves in flight,  *)
(* failures and restarts.                                                  *)
(***************************************************************************)
EXTENDS StandaloneLedger, LedgerAddresses, TLAPS

-----------------------------------------------------------------------------
(* The standalone mode                                                     *)

(* A detection that was not cancelled still asks for what is selected.     *)
WantedAsksForSelected ==
    \A s \in Loops : detections[s] # Undefined /\ ~detections[s].cancelled =>
       detections[s].chain = selected /\ detections[s].path = path

(* With no chain connected there is no address.                            *)
AddressNeedsChain == address # Undefined => connected # Undefined

LedgerInv ==
    /\ LedgerTypeOK
    /\ WantedAsksForSelected
    /\ AddressNeedsChain
    /\ AddressOfConnected
    /\ FoundIsSelected

-----------------------------------------------------------------------------
LEMMA InitLedgerInv == LedgerInit => LedgerInv
<1> SUFFICES ASSUME LedgerInit PROVE LedgerInv OBVIOUS
<1> USE DEF LedgerInit
<1>1. LedgerTypeOK
  <2>1. starts \in 0 .. MaxStarts BY TriesAssumption
  <2>2. detections \in [Loops -> Detection \cup {Undefined}] OBVIOUS
  <2>3. stale \in BOOLEAN /\ picked \in BOOLEAN OBVIOUS
  <2> QED BY <2>1, <2>2, <2>3 DEF LedgerTypeOK
<1>2. WantedAsksForSelected BY DEF WantedAsksForSelected
<1>3. AddressNeedsChain /\ AddressOfConnected /\ FoundIsSelected
  BY DEF AddressNeedsChain, AddressOfConnected, FoundIsSelected
<1> QED BY <1>1, <1>2, <1>3 DEF LedgerInv

LEMMA CancelledOfType ==
    ASSUME LedgerTypeOK
    PROVE  /\ Cancelled \in [Loops -> Detection \cup {Undefined}]
           /\ \A s \in Loops : Cancelled[s] # Undefined => Cancelled[s].cancelled
<1> USE DEF LedgerTypeOK, Detection, Cancelled
<1>1. ASSUME NEW s \in Loops
      PROVE  /\ Cancelled[s] \in Detection \cup {Undefined}
             /\ Cancelled[s] # Undefined => Cancelled[s].cancelled
  <2>1. CASE detections[s] = Undefined BY <2>1
  <2>2. CASE detections[s] # Undefined
    <3>1. detections[s] \in Detection BY <2>2
    <3>2. Cancelled[s] = [detections[s] EXCEPT !.cancelled = TRUE] BY <2>2
    <3> QED BY <3>1, <3>2
  <2> QED BY <2>1, <2>2
<1> QED BY <1>1

LEMMA NextLedgerInv == LedgerInv /\ [LedgerNext]_standaloneVars => LedgerInv'
<1> SUFFICES ASSUME LedgerInv, [LedgerNext]_standaloneVars PROVE LedgerInv'
  OBVIOUS
<1> USE DeviceChainsAssumption, PathsAssumption, TriesAssumption
    DEF LedgerInv, WantedAsksForSelected, AddressNeedsChain, AddressOfConnected,
        FoundIsSelected, ledgerState
<1>0. /\ Cancelled \in [Loops -> Detection \cup {Undefined}]
      /\ \A s \in Loops : Cancelled[s] # Undefined => Cancelled[s].cancelled
  BY CancelledOfType
<1>1. CASE ResetToChainSelection
  BY <1>0, <1>1 DEF ResetToChainSelection, LedgerTypeOK
<1>2. CASE EnterOrExit
  BY <1>0, <1>2 DEF EnterOrExit, LedgerTypeOK
<1>3. ASSUME NEW c \in DeviceChains, SetSelectedChain(c) PROVE LedgerInv'
  <2>1. LedgerTypeOK' BY <1>3 DEF SetSelectedChain, LedgerTypeOK
  <2> QED BY <2>1, <1>3 DEF SetSelectedChain
<1>4. ASSUME NEW s \in Loops, NEW c \in DeviceChains, NEW p \in Paths,
             StartDetection(s, c, p)
      PROVE  LedgerInv'
  <2>1. address = Undefined /\ address' = Undefined /\ connected' = connected
    BY <1>4 DEF StartDetection
  <2>2. Begun(c, p) \in Detection BY DEF Begun, Detection
  <2>3. detections' = [Cancelled EXCEPT ![s] = Begun(c, p)]
    BY <1>4 DEF StartDetection
  <2>4. LedgerTypeOK'
    <3>1. detections' \in [Loops -> Detection \cup {Undefined}]
      BY <1>0, <2>2, <2>3
    <3>2. starts' \in 0 .. MaxStarts BY <1>4 DEF StartDetection, LedgerTypeOK
    <3>3. /\ phase' = "detecting" /\ selected' = c /\ path' = p
          /\ picked' = FALSE /\ UNCHANGED <<connected, address, stale>>
      BY <1>4 DEF StartDetection
    <3>4. stale' \in BOOLEAN /\ picked' \in BOOLEAN BY <3>3 DEF LedgerTypeOK
    <3> QED BY <3>1, <3>2, <3>3, <3>4 DEF LedgerTypeOK
  <2>5. WantedAsksForSelected'
    <3> SUFFICES ASSUME NEW t \in Loops, detections'[t] # Undefined,
                        ~detections'[t].cancelled
                 PROVE  detections'[t].chain = selected' /\ detections'[t].path = path'
      OBVIOUS
    <3>1. t = s BY <1>0, <2>3
    <3>2. detections'[t] = Begun(c, p) BY <1>0, <2>3, <3>1
    <3> QED BY <3>2, <1>4 DEF StartDetection, Begun
  <2> QED BY <2>1, <2>4, <2>5
<1>5. ASSUME NEW s \in Loops, Found(s) PROVE LedgerInv'
  <2>1. detections[s] \in Detection BY <1>5 DEF Found, Asking, LedgerTypeOK
  <2>2. /\ connected' = detections[s].chain /\ picked' = FALSE
        /\ address' = [chain |-> detections[s].chain, path |-> detections[s].path]
        /\ phase' = "completed" /\ UNCHANGED <<selected, path, starts>>
        /\ stale' = (stale \/ detections[s].cancelled)
        /\ detections' = [detections EXCEPT ![s] = Undefined]
    BY <1>5 DEF Found, Ends
  <2>3. /\ address' \in Address /\ connected' \in DeviceChains /\ stale' \in BOOLEAN
    BY <2>1, <2>2 DEF Detection, Address, LedgerTypeOK
  <2>4. LedgerTypeOK' BY <2>2, <2>3 DEF LedgerTypeOK
  <2>5. WantedAsksForSelected' BY <2>2 DEF LedgerTypeOK
  <2>6. FoundIsSelected' BY <1>5, <2>1, <2>2 DEF Found, Asking, Detection
  <2> QED BY <2>2, <2>3, <2>4, <2>5, <2>6
<1>6. ASSUME NEW s \in Loops, TryAgain(s) PROVE LedgerInv'
  <2>1. detections[s] \in Detection /\ detections[s].tries + 1 < MaxTries
    BY <1>6 DEF TryAgain, Asking, LedgerTypeOK
  <2>2. /\ detections' = [detections EXCEPT ![s] = detections'[s]]
        /\ detections'[s] = [detections[s] EXCEPT !.doing = "sleeping",
                                                  !.tries = detections[s].tries + 1]
        /\ UNCHANGED <<ledgerState, starts, stale, picked>>
    BY <1>6 DEF TryAgain, LedgerTypeOK
  <2>3. detections'[s] \in Detection
    <3>1. detections[s].tries + 1 \in 0 .. MaxTries - 1 BY <2>1 DEF Detection
    <3> QED BY <2>1, <2>2, <3>1 DEF Detection
  <2>4. LedgerTypeOK' BY <2>2, <2>3 DEF LedgerTypeOK
  <2>5. WantedAsksForSelected'
    BY <1>6, <2>1, <2>2 DEF LedgerTypeOK, Detection, TryAgain, Asking
  <2> QED BY <2>2, <2>4, <2>5
<1>7. ASSUME NEW s \in Loops, Wake(s) PROVE LedgerInv'
  <2>1. detections[s] \in Detection BY <1>7 DEF Wake, LedgerTypeOK
  <2>2. /\ detections' = [detections EXCEPT ![s] = detections'[s]]
        /\ detections'[s] = [detections[s] EXCEPT !.doing = "asking",
                                !.path = IF path = Undefined THEN Default ELSE path]
        /\ UNCHANGED <<ledgerState, starts, stale, picked>>
    BY <1>7 DEF Wake, LedgerTypeOK
  <2>3. detections'[s] \in Detection BY <2>1, <2>2 DEF Detection, LedgerTypeOK
  <2>4. LedgerTypeOK' BY <2>2, <2>3 DEF LedgerTypeOK
  <2>5. WantedAsksForSelected'
    BY <1>7, <2>1, <2>2 DEF LedgerTypeOK, Detection, Wake
  <2> QED BY <2>2, <2>4, <2>5
<1>8. ASSUME NEW s \in Loops, GiveUp(s) PROVE LedgerInv'
  <2>1. detections' = [detections EXCEPT ![s] = Undefined] BY <1>8 DEF GiveUp, Ends
  <2>2. detections[s] \in Detection BY <1>8 DEF GiveUp, Asking, LedgerTypeOK
  <2>3. LedgerTypeOK' BY <1>8, <2>1, <2>2 DEF GiveUp, LedgerTypeOK, Detection
  <2>4. WantedAsksForSelected' BY <1>8, <2>1 DEF GiveUp, LedgerTypeOK
  <2> QED BY <1>8, <2>3, <2>4 DEF GiveUp
<1>9. CASE UNCHANGED standaloneVars
  BY <1>9 DEF standaloneVars, LedgerTypeOK
<1> QED BY <1>1, <1>2, <1>3, <1>4, <1>5, <1>6, <1>7, <1>8, <1>9
        DEF LedgerNext, DetectionStep

LEMMA LedgerInvariant == LedgerSpec => []LedgerInv
<1>1. LedgerInit => LedgerInv BY InitLedgerInv
<1>2. LedgerInv /\ [LedgerNext]_standaloneVars => LedgerInv' BY NextLedgerInv
<1> QED BY <1>1, <1>2, PTL DEF LedgerSpec

(* The state of standaloneLedger.ts stays one its type allows, and no      *)
(* detection asks more than maxRetries times.                              *)
THEOREM LedgerTypeCorrect == LedgerSpec => []LedgerTypeOK
<1>1. LedgerInv => LedgerTypeOK BY DEF LedgerInv
<1> QED BY <1>1, LedgerInvariant, PTL

(* What a detection finds is the chain and the path the user chose last,   *)
(* unless it was cancelled or overtaken, or a swap has chosen the chain    *)
(* (standaloneLedger.ts:132).                                              *)
THEOREM FoundSafe == LedgerSpec => []FoundIsSelected
<1>1. LedgerInv => FoundIsSelected BY DEF LedgerInv
<1> QED BY <1>1, LedgerInvariant, PTL

(* No address outlives the connection it belongs to                        *)
(* (standaloneLedger.ts:170, 347, 362, 369).                               *)
THEOREM AddressSafe == LedgerSpec => []AddressOfConnected
<1>1. LedgerInv => AddressOfConnected BY DEF LedgerInv
<1> QED BY <1>1, LedgerInvariant, PTL

-----------------------------------------------------------------------------
(* The addresses of keystores.  Three invariants, each inductive with the  *)
(* types: lists are EachOnce wherever they are on their way (Once); while  *)
(* nothing has disturbed them, the list, the file, the save and the load   *)
(* agree with what the user made of the stored list (Kept); and that list  *)
(* is of keystores that are still there (Owned).                           *)

(* No list in any place has two entries of one derivation.                 *)
Once ==
    /\ EachOnce(addresses)
    /\ EachOnce(load.list)
    /\ EachOnce(file.list)
    /\ \A s \in Slots : EachOnce(saves[s].list)

(* The one save in flight carries the list, and the file waits for it.     *)
OneSave ==
    \A s \in Slots : ~ Idle(s) =>
        /\ \A t \in Slots : ~ Idle(t) => s = t
        /\ saves[s].list = intent
        /\ load.phase = "done"
        /\ saves[s].phase = "filling" => file.form = "empty"

(* The places in which the list is, once it is there.                      *)
Agree ==
    /\ AllIdle => file.list = intent
    /\ load.phase = "read" => load.list = intent
    /\ addresses = IF load.phase = "done" THEN intent ELSE {}

NoListUnlessJson == file.form # "json" => file.list = {}

Kept == NoListUnlessJson /\ (~ disturbed => OneSave /\ Agree)

(* A keystore that is shown, or has an address, is there or being removed. *)
Owned ==
    /\ wallets \subseteq onDisk \cup {removing}
    /\ ~ straggled => \A e \in intent : e.keystore \in onDisk \cup {removing}

-----------------------------------------------------------------------------
(* Lists                                                                   *)

LEMMA EachOnceOfPart ==
    ASSUME NEW list, EachOnce(list), NEW part \in SUBSET list
    PROVE  EachOnce(part)
BY DEF EachOnce

LEMMA EachOnceOfAdded ==
    ASSUME NEW list, EachOnce(list), NEW entry
    PROVE  EachOnce(Added(list, entry))
<1>1. \A a : a \in Added(list, entry) =>
               a = entry \/ (a \in list /\ ~ SameLedgerEntry(a, entry))
  BY DEF Added
<1>2. \A a : Derivation(a) = Derivation(entry) => SameLedgerEntry(a, entry)
  BY DEF Derivation, SameLedgerEntry, NormalizeHDMode
<1> QED BY <1>1, <1>2 DEF EachOnce

LEMMA ListsOfEntries ==
    ASSUME NEW list \in SUBSET Entry
    PROVE  /\ \A entry \in Entry : Added(list, entry) \in SUBSET Entry
           /\ \A k, chain, mode : Removed(list, k, chain, mode) \in SUBSET list
           /\ \A k : OfOthers(list, k) \in SUBSET list
BY DEF Added, Removed, OfOthers

-----------------------------------------------------------------------------
(* Types                                                                   *)

SavedType == /\ addresses' \in SUBSET Entry
             /\ saves' \in [Slots -> [phase : Phases, list : SUBSET Entry]]
             /\ disturbed' \in BOOLEAN

LEMMA SaveOfType ==
    ASSUME TypeOK, NEW list \in SUBSET Entry, SaveLedgerAddresses(list)
    PROVE  SavedType
<1>1. PICK s \in Slots : saves' = [saves EXCEPT ![s] = [phase |-> "opening", list |-> list]]
  BY DEF SaveLedgerAddresses
<1>2. saves' \in [Slots -> [phase : Phases, list : SUBSET Entry]]
  BY <1>1 DEF TypeOK, Phases
<1>3. disturbed' = (disturbed \/ ~ AllIdle \/ load.phase # "done") /\ addresses' = list
  BY DEF SaveLedgerAddresses
<1> QED BY <1>2, <1>3 DEF SavedType

LEMMA InitTypeOK == Init => TypeOK
<1> SUFFICES ASSUME Init PROVE TypeOK OBVIOUS
<1>1. /\ file \in [form : Forms, list : SUBSET Entry]
      /\ load \in [phase : Loads, list : SUBSET Entry]
      /\ saves \in [Slots -> [phase : Phases, list : SUBSET Entry]]
  BY DEF Init, Forms, Loads, Phases, NoSave
<1>2. /\ wallets \subseteq Keystores /\ onDisk \subseteq Keystores
      /\ removing \in Keystores \cup {None} /\ settings \in Keystores \cup {None}
      /\ asked \in Entry \cup {None} /\ addresses \subseteq Entry
      /\ changes \in Nat /\ failures \in Nat /\ quits \in Nat
  BY DEF Init
<1>3. intent \subseteq Entry BY <1>1 DEF Init
<1>4. disturbed \in BOOLEAN /\ straggled \in BOOLEAN BY DEF Init
<1> QED BY <1>1, <1>2, <1>3, <1>4 DEF TypeOK

LEMMA NextTypeOK == TypeOK /\ [Next]_vars => TypeOK'
<1> SUFFICES ASSUME TypeOK, [Next]_vars PROVE TypeOK' OBVIOUS
<1> USE DEF walletVars, viewVars, bounds, fileFrame
<1>1. ASSUME NEW k \in Keystores, OpenSettings(k) PROVE TypeOK'
  BY <1>1 DEF OpenSettings, TypeOK
<1>2. CASE CloseSettings BY <1>2 DEF CloseSettings, TypeOK
<1>3. ASSUME NEW way \in Offered, NEW account \in Accounts,
             AddLedgerAddress(way, account)
      PROVE  TypeOK'
  <2>1. way.chain \in Chains /\ way.mode \in Modes BY ChainsAssumption
  <2>2. asked' \in Entry
    BY <1>3, <2>1 DEF AddLedgerAddress, TypeOK, Entry
  <2>3. changes' \in Nat BY <1>3 DEF AddLedgerAddress, Changes, TypeOK
  <2> QED BY <1>3, <2>2, <2>3 DEF AddLedgerAddress, Changes, TypeOK
<1>4. ASSUME NEW entry \in addresses, RemoveLedgerAddress(entry) PROVE TypeOK'
  <2>1. PICK mode \in {None, entry.mode} :
            /\ SaveLedgerAddresses(Removed(addresses, settings, entry.chain, mode))
            /\ intent' = Removed(intent, settings, entry.chain, mode)
    BY <1>4 DEF RemoveLedgerAddress
  <2>2. addresses \in SUBSET Entry /\ intent \in SUBSET Entry BY DEF TypeOK
  <2>3. intent' \in SUBSET Entry BY <2>1, <2>2, ListsOfEntries
  <2>4. Removed(addresses, settings, entry.chain, mode) \in SUBSET Entry
    BY <2>2, ListsOfEntries
  <2>5. SavedType BY <2>1, <2>4, SaveOfType
  <2>6. changes' \in Nat /\ UNCHANGED <<walletVars, viewVars, load, file, straggled,
                                        failures, quits>>
    BY <1>4 DEF RemoveLedgerAddress, Changes, TypeOK
  <2> QED BY <2>3, <2>5, <2>6 DEF SavedType, TypeOK
<1>5. CASE RemoveKeystoreWallet
  <2>1. changes' \in Nat BY <1>5 DEF RemoveKeystoreWallet, Changes, TypeOK
  <2>2. removing' \in Keystores /\ onDisk' \subseteq Keystores
    BY <1>5 DEF RemoveKeystoreWallet, TypeOK
  <2> QED BY <1>5, <2>1, <2>2 DEF RemoveKeystoreWallet, Changes, TypeOK
<1>6. CASE DeviceAnswers
  <2>1. asked \in Entry /\ addresses \in SUBSET Entry /\ intent \in SUBSET Entry
    BY <1>6 DEF DeviceAnswers, TypeOK
  <2>2. Added(addresses, asked) \in SUBSET Entry /\ Added(intent, asked) \in SUBSET Entry
    BY <2>1, ListsOfEntries
  <2>3. SavedType BY <1>6, <2>2, SaveOfType DEF DeviceAnswers
  <2>4. /\ intent' = Added(intent, asked) /\ asked' = None
        /\ UNCHANGED <<walletVars, settings, load, file, bounds>>
        /\ straggled' = (straggled \/ asked.keystore \notin wallets)
    BY <1>6 DEF DeviceAnswers
  <2>5. straggled' \in BOOLEAN BY <2>4
  <2> QED BY <2>2, <2>3, <2>4, <2>5 DEF SavedType, TypeOK
<1>7. CASE DeviceFails BY <1>7 DEF DeviceFails, TypeOK
<1>8. CASE LoadWallets BY <1>8 DEF LoadWallets, TypeOK
<1>9. CASE KeystoreRemoved
  <2>1. addresses \in SUBSET Entry /\ intent \in SUBSET Entry BY DEF TypeOK
  <2>2. /\ OfOthers(addresses, removing) \in SUBSET Entry
        /\ OfOthers(intent, removing) \in SUBSET Entry
    BY <2>1, ListsOfEntries
  <2>3. SavedType BY <1>9, <2>2, SaveOfType DEF KeystoreRemoved
  <2>4. /\ intent' = OfOthers(intent, removing)
        /\ wallets' = wallets \ {removing} /\ removing' = None
        /\ UNCHANGED <<onDisk, viewVars, load, file, bounds, straggled>>
    BY <1>9 DEF KeystoreRemoved
  <2> QED BY <2>2, <2>3, <2>4 DEF SavedType, TypeOK
<1>10. CASE Read
  <2>1. load' \in [phase : Loads, list : SUBSET Entry]
    BY <1>10 DEF Read, TypeOK, Loads, Forms
  <2> QED BY <1>10, <2>1 DEF Read, TypeOK
<1>11. ASSUME NEW s \in Slots, Open(s) PROVE TypeOK'
  <2>1. file' \in [form : Forms, list : SUBSET Entry] BY <1>11 DEF Open, Forms
  <2>2. saves' \in [Slots -> [phase : Phases, list : SUBSET Entry]]
    <3>1. [saves[s] EXCEPT !.phase = "filling"] \in [phase : Phases, list : SUBSET Entry]
      BY DEF TypeOK, Phases
    <3> QED BY <1>11, <3>1 DEF Open, TypeOK
  <2> QED BY <1>11, <2>1, <2>2 DEF Open, TypeOK
<1>12. ASSUME NEW s \in Slots, Fill(s) PROVE TypeOK'
  <2>1. file' \in [form : Forms, list : SUBSET Entry] BY <1>12 DEF Fill, TypeOK, Forms
  <2>2. saves' \in [Slots -> [phase : Phases, list : SUBSET Entry]]
    BY <1>12 DEF Fill, TypeOK, NoSave, Phases
  <2> QED BY <1>12, <2>1, <2>2 DEF Fill, TypeOK
<1>13. CASE Fails
  <2>1. failures' \in Nat /\ UNCHANGED fileFrame BY <1>13 DEF Fails, TypeOK
  <2>2. CASE ReadFails
    <3>1. load' \in [phase : Loads, list : SUBSET Entry] BY <2>2 DEF ReadFails, Loads
    <3> QED BY <2>1, <2>2, <3>1 DEF ReadFails, TypeOK
  <2>3. ASSUME NEW s \in Slots, SaveFails(s) PROVE TypeOK'
    <3>1. file' \in [form : Forms, list : SUBSET Entry]
      BY <2>3 DEF SaveFails, TypeOK, Forms
    <3>2. saves' \in [Slots -> [phase : Phases, list : SUBSET Entry]]
      BY <2>3 DEF SaveFails, TypeOK, NoSave, Phases
    <3>3. disturbed' \in BOOLEAN BY <2>3 DEF SaveFails
    <3> QED BY <2>1, <2>3, <3>1, <3>2, <3>3 DEF SaveFails, TypeOK
  <2> QED BY <1>13, <2>2, <2>3 DEF Fails
<1>14. CASE Loaded
  <2>1. load' \in [phase : Loads, list : SUBSET Entry] BY <1>14 DEF Loaded, Loads
  <2>2. addresses' \in SUBSET Entry BY <1>14 DEF Loaded, TypeOK
  <2> QED BY <1>14, <2>1, <2>2 DEF Loaded, TypeOK
<1>15. CASE ReloadPersistentLedgerAddresses
  <2>1. load' \in [phase : Loads, list : SUBSET Entry]
    BY <1>15 DEF ReloadPersistentLedgerAddresses, Loads
  <2> QED BY <1>15, <2>1 DEF ReloadPersistentLedgerAddresses, TypeOK
<1>16. CASE Quit
  <2>1. load' \in [phase : Loads, list : SUBSET Entry] BY <1>16 DEF Quit, Loads
  <2>2. saves' \in [Slots -> [phase : Phases, list : SUBSET Entry]]
    BY <1>16 DEF Quit, NoSave, Phases
  <2>3. disturbed' = (disturbed \/ ~ AllIdle) /\ straggled' = (straggled \/ removing # None)
    BY <1>16 DEF Quit
  <2>4. disturbed' \in BOOLEAN /\ straggled' \in BOOLEAN BY <2>3
  <2>5. /\ wallets' = {} /\ removing' = None /\ settings' = None /\ asked' = None
        /\ addresses' = {} /\ quits' = quits + 1
        /\ UNCHANGED <<onDisk, file, changes, failures, intent>>
    BY <1>16 DEF Quit
  <2> QED BY <2>1, <2>2, <2>4, <2>5 DEF TypeOK
<1>17. CASE UNCHANGED vars BY <1>17 DEF vars, TypeOK
<1> QED
  BY <1>1, <1>2, <1>3, <1>4, <1>5, <1>6, <1>7, <1>8, <1>9, <1>10, <1>11, <1>12,
     <1>13, <1>14, <1>15, <1>16, <1>17 DEF Next, UserChanges

LEMMA TypeAlways == Spec => []TypeOK
BY InitTypeOK, NextTypeOK, PTL DEF Spec

-----------------------------------------------------------------------------
(* One address for each derivation                                         *)

LEMMA SaveKeepsOnce ==
    ASSUME TypeOK, Once, NEW list, EachOnce(list), SaveLedgerAddresses(list),
           UNCHANGED <<load, file>>
    PROVE  Once'
<1>1. PICK s \in Slots : saves' = [saves EXCEPT ![s] = [phase |-> "opening", list |-> list]]
  BY DEF SaveLedgerAddresses
<1>2. addresses' = list BY DEF SaveLedgerAddresses
<1>3. \A t \in Slots : saves'[t].list = saves[t].list \/ saves'[t].list = list
  BY <1>1 DEF TypeOK
<1> QED BY <1>2, <1>3 DEF Once

LEMMA InitOnce == Init => Once
<1> SUFFICES ASSUME Init PROVE Once OBVIOUS
<1>1. EachOnce({}) BY DEF EachOnce
<1>2. EachOnce(file.list) BY <1>1 DEF Init
<1> QED BY <1>1, <1>2 DEF Init, Once, NoSave

LEMMA NextOnce == TypeOK /\ Once /\ [Next]_vars => Once'
<1> SUFFICES ASSUME TypeOK, Once, [Next]_vars PROVE Once' OBVIOUS
<1> USE DEF walletVars, viewVars, bounds, fileFrame
<1>0. EachOnce({}) /\ NoSave.list = {} BY DEF EachOnce, NoSave
<1>a. addresses \in SUBSET Entry BY DEF TypeOK
<1>1. ASSUME NEW entry \in addresses, RemoveLedgerAddress(entry) PROVE Once'
  <2>1. PICK mode \in {None, entry.mode} :
            SaveLedgerAddresses(Removed(addresses, settings, entry.chain, mode))
    BY <1>1 DEF RemoveLedgerAddress
  <2>2. EachOnce(Removed(addresses, settings, entry.chain, mode))
    BY <1>a, ListsOfEntries, EachOnceOfPart DEF Once
  <2> QED BY <1>1, <2>1, <2>2, SaveKeepsOnce DEF RemoveLedgerAddress
<1>2. CASE DeviceAnswers
  <2>1. EachOnce(Added(addresses, asked)) BY EachOnceOfAdded DEF Once
  <2> QED BY <1>2, <2>1, SaveKeepsOnce DEF DeviceAnswers
<1>3. CASE KeystoreRemoved
  <2>1. EachOnce(OfOthers(addresses, removing))
    BY <1>a, ListsOfEntries, EachOnceOfPart DEF Once
  <2> QED BY <1>3, <2>1, SaveKeepsOnce DEF KeystoreRemoved
<1>4. CASE Read BY <1>0, <1>4 DEF Read, Once
<1>5. ASSUME NEW s \in Slots, Open(s) PROVE Once'
  <2>1. \A t \in Slots : saves'[t].list = saves[t].list BY <1>5 DEF Open, TypeOK
  <2> QED BY <1>0, <1>5, <2>1 DEF Open, Once
<1>6. ASSUME NEW s \in Slots, Fill(s) PROVE Once'
  <2>1. \A t \in Slots : saves'[t] = saves[t] \/ saves'[t] = NoSave
    BY <1>6 DEF Fill, TypeOK
  <2>2. file'.list = saves[s].list \/ file'.list = {} BY <1>6 DEF Fill
  <2> QED BY <1>0, <1>6, <2>1, <2>2 DEF Fill, Once
<1>7. CASE Fails
  <2>1. CASE ReadFails BY <1>0, <1>7, <2>1 DEF Fails, ReadFails, Once
  <2>2. ASSUME NEW s \in Slots, SaveFails(s) PROVE Once'
    <3>1. \A t \in Slots : saves'[t] = saves[t] \/ saves'[t] = NoSave
      BY <2>2 DEF SaveFails, TypeOK
    <3>2. file' = file \/ file'.list = {} BY <2>2 DEF SaveFails
    <3> QED BY <1>0, <1>7, <2>2, <3>1, <3>2 DEF Fails, SaveFails, Once
  <2> QED BY <1>7, <2>1, <2>2 DEF Fails
<1>8. CASE Loaded BY <1>0, <1>8 DEF Loaded, Once
<1>9. CASE ReloadPersistentLedgerAddresses
  BY <1>0, <1>9 DEF ReloadPersistentLedgerAddresses, Once
<1>10. CASE Quit BY <1>0, <1>10 DEF Quit, Once
<1>11. CASE UNCHANGED <<addresses, load, file, saves>> BY <1>11 DEF Once
<1>12. ASSUME NEW k \in Keystores, OpenSettings(k) PROVE Once'
  BY <1>11, <1>12 DEF OpenSettings
<1>13. ASSUME NEW way \in Offered, NEW account \in Accounts,
              AddLedgerAddress(way, account)
       PROVE  Once'
  BY <1>11, <1>13 DEF AddLedgerAddress
<1>14. CASE CloseSettings \/ DeviceFails \/ LoadWallets \/ RemoveKeystoreWallet
  BY <1>11, <1>14 DEF CloseSettings, DeviceFails, LoadWallets, RemoveKeystoreWallet
<1>15. CASE UNCHANGED vars BY <1>11, <1>15 DEF vars
<1> QED
  BY <1>1, <1>2, <1>3, <1>4, <1>5, <1>6, <1>7, <1>8, <1>9, <1>10, <1>12, <1>13,
     <1>14, <1>15 DEF Next, UserChanges

-----------------------------------------------------------------------------
(* What the user made of the stored list                                   *)

LEMMA SaveKeepsKept ==
    ASSUME TypeOK, Kept, NEW list, SaveLedgerAddresses(list),
           ~ disturbed /\ load.phase = "done" => intent' = list,
           UNCHANGED <<load, file>>
    PROVE  Kept'
<1>1. PICK s \in Slots :
          Idle(s) /\ saves' = [saves EXCEPT ![s] = [phase |-> "opening", list |-> list]]
  BY DEF SaveLedgerAddresses
<1>2. addresses' = list /\ disturbed' = (disturbed \/ ~ AllIdle \/ load.phase # "done")
  BY DEF SaveLedgerAddresses
<1>3. NoListUnlessJson' BY DEF Kept, NoListUnlessJson
<1>4. ASSUME ~ disturbed' PROVE OneSave' /\ Agree'
  <2>1. AllIdle /\ load.phase = "done" /\ intent' = list BY <1>2, <1>4
  <2>2. saves'[s] = [phase |-> "opening", list |-> list] BY <1>1 DEF TypeOK
  <2>3. \A t \in Slots : t # s => saves'[t].phase = "idle"
    BY <1>1, <2>1 DEF TypeOK, AllIdle, Idle
  <2>4. OneSave' BY <2>1, <2>2, <2>3 DEF OneSave, Idle
  <2>5. ~ AllIdle' BY <2>2 DEF AllIdle, Idle
  <2> QED BY <1>2, <2>1, <2>4, <2>5 DEF Agree
<1> QED BY <1>3, <1>4 DEF Kept

LEMMA InitKept == Init => Kept
<1> SUFFICES ASSUME Init PROVE Kept OBVIOUS
<1>1. NoListUnlessJson BY DEF Init, NoListUnlessJson
<1>2. \A s \in Slots : Idle(s) BY DEF Init, NoSave, Idle
<1> QED BY <1>1, <1>2 DEF Init, Kept, OneSave, Agree

LEMMA NextKept == TypeOK /\ Kept /\ [Next]_vars => Kept'
<1> SUFFICES ASSUME TypeOK, Kept, [Next]_vars PROVE Kept' OBVIOUS
<1> USE DEF walletVars, viewVars, bounds, fileFrame
<1>1. ASSUME NEW entry \in addresses, RemoveLedgerAddress(entry) PROVE Kept'
  <2>1. PICK mode \in {None, entry.mode} :
            /\ SaveLedgerAddresses(Removed(addresses, settings, entry.chain, mode))
            /\ intent' = Removed(intent, settings, entry.chain, mode)
    BY <1>1 DEF RemoveLedgerAddress
  <2>2. ~ disturbed /\ load.phase = "done" => addresses = intent BY DEF Kept, Agree
  <2> QED BY <1>1, <2>1, <2>2, SaveKeepsKept DEF RemoveLedgerAddress
<1>2. CASE DeviceAnswers
  <2>1. ~ disturbed /\ load.phase = "done" => addresses = intent BY DEF Kept, Agree
  <2> QED BY <1>2, <2>1, SaveKeepsKept DEF DeviceAnswers
<1>3. CASE KeystoreRemoved
  <2>1. ~ disturbed /\ load.phase = "done" => addresses = intent BY DEF Kept, Agree
  <2> QED BY <1>3, <2>1, SaveKeepsKept DEF KeystoreRemoved
<1>4. CASE Read
  <2>1. /\ load.phase = "reading"
        /\ UNCHANGED <<addresses, intent, file, saves, disturbed>>
        /\ load'.phase # "done"
        /\ load'.phase = "read" => load'.list = IF file.form = "json" THEN file.list ELSE {}
    BY <1>4 DEF Read
  <2>2. NoListUnlessJson' BY <2>1 DEF Kept, NoListUnlessJson
  <2>3. ASSUME ~ disturbed' PROVE OneSave' /\ Agree'
    <3>1. OneSave /\ Agree BY <2>1, <2>3 DEF Kept
    <3>2. AllIdle BY <2>1, <3>1 DEF OneSave, AllIdle
    <3>3. OneSave' BY <2>1, <3>2 DEF OneSave, AllIdle, Idle
    <3>4. load'.phase = "read" => load'.list = intent
      BY <2>1, <3>1, <3>2 DEF Agree, Kept, NoListUnlessJson
    <3>5. AllIdle' => file'.list = intent' BY <2>1, <3>1, <3>2 DEF Agree
    <3> QED BY <2>1, <3>1, <3>3, <3>4, <3>5 DEF Agree
  <2> QED BY <2>2, <2>3 DEF Kept
<1>5. ASSUME NEW s \in Slots, Open(s) PROVE Kept'
  <2>1. /\ saves[s].phase = "opening"
        /\ file' = [form |-> "empty", list |-> {}]
        /\ UNCHANGED <<addresses, intent, load, disturbed>>
        /\ saves'[s].phase = "filling" /\ saves'[s].list = saves[s].list
        /\ \A t \in Slots : t # s => saves'[t] = saves[t]
    BY <1>5 DEF Open, TypeOK
  <2>2. NoListUnlessJson' BY <2>1 DEF NoListUnlessJson
  <2>3. ASSUME ~ disturbed' PROVE OneSave' /\ Agree'
    <3>1. OneSave /\ Agree BY <2>1, <2>3 DEF Kept
    <3>2. \A t \in Slots : Idle(t)' <=> Idle(t) BY <2>1 DEF Idle
    <3>3. OneSave' BY <2>1, <3>1, <3>2 DEF OneSave
    <3>4. ~ AllIdle' BY <2>1 DEF AllIdle, Idle
    <3> QED BY <2>1, <3>1, <3>3, <3>4 DEF Agree
  <2> QED BY <2>2, <2>3 DEF Kept
<1>6. ASSUME NEW s \in Slots, Fill(s) PROVE Kept'
  <2>1. /\ saves[s].phase = "filling"
        /\ file' = [form |-> "json", list |-> saves[s].list] \/
           (file.form # "empty" /\ file' = [form |-> "garbage", list |-> {}])
        /\ UNCHANGED <<addresses, intent, load, disturbed>>
        /\ saves'[s] = NoSave
        /\ \A t \in Slots : t # s => saves'[t] = saves[t]
    BY <1>6 DEF Fill, TypeOK
  <2>2. NoListUnlessJson' BY <2>1 DEF NoListUnlessJson
  <2>3. ASSUME ~ disturbed' PROVE OneSave' /\ Agree'
    <3>1. OneSave /\ Agree BY <2>1, <2>3 DEF Kept
    <3>2. /\ saves[s].list = intent /\ load.phase = "done" /\ file.form = "empty"
          /\ \A t \in Slots : t # s => Idle(t)
      BY <2>1, <3>1 DEF OneSave, Idle
    <3>3. \A t \in Slots : Idle(t)' BY <2>1, <3>2 DEF Idle, NoSave
    <3>4. OneSave' BY <3>3 DEF OneSave
    <3>5. file'.list = intent' BY <2>1, <3>2
    <3> QED BY <2>1, <3>1, <3>2, <3>4, <3>5 DEF Agree
  <2> QED BY <2>2, <2>3 DEF Kept
<1>7. CASE Fails
  <2>1. CASE ReadFails
    <3>1. /\ load' = [phase |-> "failed", list |-> {}] /\ load.phase = "reading"
          /\ UNCHANGED <<addresses, intent, file, saves, disturbed>>
      BY <1>7, <2>1 DEF Fails, ReadFails
    <3>2. NoListUnlessJson' BY <3>1 DEF Kept, NoListUnlessJson
    <3>3. ASSUME ~ disturbed' PROVE OneSave' /\ Agree'
      <4>1. OneSave /\ Agree BY <3>1, <3>3 DEF Kept
      <4>2. AllIdle BY <3>1, <4>1 DEF OneSave, AllIdle
      <4>3. OneSave' BY <3>1, <4>2 DEF OneSave, AllIdle, Idle
      <4> QED BY <3>1, <4>1, <4>2, <4>3 DEF Agree
    <3> QED BY <3>2, <3>3 DEF Kept
  <2>2. ASSUME NEW s \in Slots, SaveFails(s) PROVE Kept'
    BY <2>2 DEF SaveFails, Kept, NoListUnlessJson
  <2> QED BY <1>7, <2>1, <2>2 DEF Fails
<1>8. CASE Loaded
  <2>1. /\ load.phase = "read" /\ load'.phase = "done" /\ addresses' = load.list
        /\ UNCHANGED <<intent, file, saves, disturbed>>
    BY <1>8 DEF Loaded
  <2>2. NoListUnlessJson' BY <2>1 DEF Kept, NoListUnlessJson
  <2>3. ASSUME ~ disturbed' PROVE OneSave' /\ Agree'
    <3>1. OneSave /\ Agree BY <2>1, <2>3 DEF Kept
    <3>2. AllIdle BY <2>1, <3>1 DEF OneSave, AllIdle
    <3>3. OneSave' BY <2>1, <3>2 DEF OneSave, AllIdle, Idle
    <3> QED BY <2>1, <3>1, <3>2, <3>3 DEF Agree
  <2> QED BY <2>2, <2>3 DEF Kept
<1>9. CASE ReloadPersistentLedgerAddresses
  <2>1. /\ load.phase = "failed" /\ load'.phase = "reading"
        /\ UNCHANGED <<addresses, intent, file, saves, disturbed>>
    BY <1>9 DEF ReloadPersistentLedgerAddresses
  <2>2. NoListUnlessJson' BY <2>1 DEF Kept, NoListUnlessJson
  <2>3. ASSUME ~ disturbed' PROVE OneSave' /\ Agree'
    <3>1. OneSave /\ Agree BY <2>1, <2>3 DEF Kept
    <3>2. AllIdle BY <2>1, <3>1 DEF OneSave, AllIdle
    <3>3. OneSave' BY <2>1, <3>2 DEF OneSave, AllIdle, Idle
    <3> QED BY <2>1, <3>1, <3>2, <3>3 DEF Agree
  <2> QED BY <2>2, <2>3 DEF Kept
<1>10. CASE Quit
  <2>1. /\ addresses' = {} /\ load' = [phase |-> "reading", list |-> {}]
        /\ \A s \in Slots : saves'[s] = NoSave
        /\ disturbed' = (disturbed \/ ~ AllIdle)
        /\ UNCHANGED <<file, intent>>
    BY <1>10 DEF Quit
  <2>2. NoListUnlessJson' BY <2>1 DEF Kept, NoListUnlessJson
  <2>3. ASSUME ~ disturbed' PROVE OneSave' /\ Agree'
    <3>1. OneSave /\ Agree /\ AllIdle BY <2>1, <2>3 DEF Kept
    <3>2. OneSave' BY <2>1 DEF OneSave, Idle, NoSave
    <3> QED BY <2>1, <3>1, <3>2 DEF Agree
  <2> QED BY <2>2, <2>3 DEF Kept
<1>11. CASE UNCHANGED <<addresses, load, file, saves, intent, disturbed>>
  BY <1>11 DEF Kept, NoListUnlessJson, OneSave, Agree, AllIdle, Idle
<1>12. ASSUME NEW k \in Keystores, OpenSettings(k) PROVE Kept'
  BY <1>11, <1>12 DEF OpenSettings
<1>13. ASSUME NEW way \in Offered, NEW account \in Accounts,
              AddLedgerAddress(way, account)
       PROVE  Kept'
  BY <1>11, <1>13 DEF AddLedgerAddress
<1>14. CASE CloseSettings \/ DeviceFails \/ LoadWallets \/ RemoveKeystoreWallet
  BY <1>11, <1>14 DEF CloseSettings, DeviceFails, LoadWallets, RemoveKeystoreWallet
<1>15. CASE UNCHANGED vars BY <1>11, <1>15 DEF vars
<1> QED
  BY <1>1, <1>2, <1>3, <1>4, <1>5, <1>6, <1>7, <1>8, <1>9, <1>10, <1>12, <1>13,
     <1>14, <1>15 DEF Next, UserChanges

-----------------------------------------------------------------------------
(* Whose addresses they are                                                *)

LEMMA InitOwned == Init => Owned
<1> SUFFICES ASSUME Init PROVE Owned OBVIOUS
<1>1. \A e \in file.list : e.keystore \in onDisk BY DEF Init
<1> QED BY <1>1 DEF Init, Owned

LEMMA NextOwned == TypeOK /\ Owned /\ [Next]_vars => Owned'
<1> SUFFICES ASSUME TypeOK, Owned, [Next]_vars PROVE Owned' OBVIOUS
<1> USE DEF walletVars, viewVars, bounds, fileFrame
<1>1. ASSUME NEW entry \in addresses, RemoveLedgerAddress(entry) PROVE Owned'
  <2>1. intent' \subseteq intent BY <1>1 DEF RemoveLedgerAddress, Removed
  <2> QED BY <1>1, <2>1 DEF RemoveLedgerAddress, Owned
<1>2. CASE DeviceAnswers
  <2>1. \A e \in intent' : e \in intent \/ e = asked BY <1>2 DEF DeviceAnswers, Added
  <2>2. /\ straggled' = (straggled \/ asked.keystore \notin wallets)
        /\ UNCHANGED <<wallets, onDisk, removing>>
    BY <1>2 DEF DeviceAnswers
  <2> QED BY <2>1, <2>2 DEF Owned
<1>3. CASE RemoveKeystoreWallet
  <2>1. removing = None /\ removing' = settings /\ onDisk' = onDisk \ {settings}
        /\ UNCHANGED <<wallets, intent, straggled>>
    BY <1>3 DEF RemoveKeystoreWallet
  <2>2. None \notin wallets /\ \A e \in intent : e.keystore # None
    BY ChainsAssumption DEF TypeOK, Entry
  <2> QED BY <2>1, <2>2 DEF Owned
<1>4. CASE KeystoreRemoved
  <2>1. /\ wallets' = wallets \ {removing} /\ intent' = OfOthers(intent, removing)
        /\ UNCHANGED <<onDisk, straggled>>
    BY <1>4 DEF KeystoreRemoved
  <2> QED BY <2>1 DEF Owned, OfOthers
<1>5. CASE LoadWallets BY <1>5 DEF LoadWallets, Owned
<1>6. CASE Quit
  <2>1. /\ wallets' = {} /\ removing' = None /\ UNCHANGED <<onDisk, intent>>
        /\ straggled' = (straggled \/ removing # None)
    BY <1>6 DEF Quit
  <2> QED BY <2>1 DEF Owned
<1>7. CASE UNCHANGED <<wallets, onDisk, removing, intent, straggled>>
  BY <1>7 DEF Owned
<1>8. ASSUME NEW k \in Keystores, OpenSettings(k) PROVE Owned'
  BY <1>7, <1>8 DEF OpenSettings
<1>9. ASSUME NEW way \in Offered, NEW account \in Accounts,
             AddLedgerAddress(way, account)
      PROVE  Owned'
  BY <1>7, <1>9 DEF AddLedgerAddress
<1>10. ASSUME NEW s \in Slots, Open(s) \/ Fill(s) PROVE Owned'
  BY <1>7, <1>10 DEF Open, Fill
<1>11. CASE CloseSettings \/ DeviceFails \/ Loaded \/ ReloadPersistentLedgerAddresses
  BY <1>7, <1>11 DEF CloseSettings, DeviceFails, Loaded, ReloadPersistentLedgerAddresses
<1>12. CASE Read \/ Fails BY <1>7, <1>12 DEF Read, Fails
<1>13. CASE UNCHANGED vars BY <1>7, <1>13 DEF vars
<1> QED
  BY <1>1, <1>2, <1>3, <1>4, <1>5, <1>6, <1>8, <1>9, <1>10, <1>11, <1>12, <1>13
  DEF Next, UserChanges

-----------------------------------------------------------------------------
(* Every variable stays in its type.                                       *)
THEOREM TypeCorrect == Spec => []TypeOK
BY TypeAlways

(* A keystore has one address for each chain and derivation, whatever      *)
(* order additions, removals, loads, saves and restarts come in, although  *)
(* earlier versions named Bitcoin's only derivation otherwise.             *)
THEOREM OnePerDerivationAlways == Spec => []OnePerDerivation
<1>1. Once => OnePerDerivation BY DEF Once, OnePerDerivation
<1> QED BY <1>1, TypeAlways, InitOnce, NextOnce, PTL DEF Spec

(* Unless a save met another one or the load, failed or was cut short, the *)
(* list and the file are what the user made of the stored list.            *)
THEOREM KeptAsAskedAlways == Spec => []KeptAsAsked
<1>1. Kept => KeptAsAsked BY DEF Kept, Agree, KeptAsAsked
<1> QED BY <1>1, TypeAlways, InitKept, NextKept, PTL DEF Spec

(* No address outlives its keystore but for the late ones that straggled   *)
(* records.                                                                *)
THEOREM NoOrphansAlways == Spec => []NoOrphans
<1>1. Kept /\ Owned => NoOrphans
  <2> SUFFICES ASSUME Kept, Owned, ~ disturbed, ~ straggled, NEW e \in addresses
               PROVE  e.keystore \in onDisk \cup {removing}
    BY DEF NoOrphans
  <2>1. e \in intent BY DEF Kept, Agree
  <2> QED BY <2>1 DEF Owned
<1> QED BY <1>1, TypeAlways, InitKept, NextKept, InitOwned, NextOwned, PTL DEF Spec

=============================================================================
