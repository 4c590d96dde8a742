---------------------------- MODULE StandaloneLedger ----------------------------
(***************************************************************************)
(* The app used with a Ledger device and no other wallet                   *)
(* (services/wallet/standaloneLedger.ts): the user picks a chain, the      *)
(* detection asks the device for an address until its app for that chain   *)
(* is open, and the address found is the one the app spends from.          *)
(*                                                                         *)
(* Each call of detectLedgerDevices is a detection with a place in Loops:  *)
(* it waits for an answer of the device or for its timer of a second, and  *)
(* nothing but the phase of the state, which all detections share, stops   *)
(* it.  HD mode, account and index are one thing here, a path.             *)
(***************************************************************************)
EXTENDS Naturals

CONSTANTS
    DeviceChains,  \* the chains a device is asked for
    Paths,         \* the derivation paths the user can choose
    Default,       \* the path when none is chosen, getHDModeForChain
    Undefined,     \* undefined
    Loops,         \* bound: detections at once
    MaxTries,      \* maxRetries
    MaxStarts      \* bound: detections and selections begun

ASSUME DeviceChainsAssumption == Undefined \notin DeviceChains
ASSUME PathsAssumption == Default \in Paths /\ Undefined \notin Paths
ASSUME TriesAssumption == MaxTries \in Nat \ {0} /\ MaxStarts \in Nat

VARIABLES
    phase,       \* detectionPhase
    selected,    \* selectedChainForDetection
    path,        \* selectedHDMode, selectedWalletAccount, selectedWalletIndex
    connected,   \* connectedChain
    address,     \* address
    detections,  \* the detections under way
    starts,      \* detections and selections begun so far
    stale,       \* history: a detection acted on the state of a later one, or
                 \* after it had been cancelled
    picked       \* history: a swap chose the chain since the last detection

ledgerState == <<phase, selected, path, connected, address>>
standaloneVars == <<ledgerState, detections, starts, stale, picked>>

Address == [chain : DeviceChains, path : Paths]
Detection == [chain : DeviceChains, doing : {"asking", "sleeping"}, path : Paths,
              tries : 0 .. MaxTries - 1, cancelled : BOOLEAN]

LedgerTypeOK ==
    /\ phase \in {"chain-selection", "detecting", "completed"}
    /\ selected \in DeviceChains \cup {Undefined}
    /\ path \in Paths \cup {Undefined}
    /\ connected \in DeviceChains \cup {Undefined}
    /\ address \in Address \cup {Undefined}
    /\ detections \in [Loops -> Detection \cup {Undefined}]
    /\ starts \in 0 .. MaxStarts
    /\ stale \in BOOLEAN /\ picked \in BOOLEAN

LedgerInit ==
    /\ phase = "chain-selection"
    /\ selected = Undefined /\ path = Undefined
    /\ connected = Undefined /\ address = Undefined
    /\ detections = [s \in Loops |-> Undefined]
    /\ starts = 0
    /\ stale = FALSE /\ picked = FALSE

-----------------------------------------------------------------------------
(* The user                                                                *)

\* History only: the detections under way are no longer wanted.
Cancelled == [s \in Loops |-> IF detections[s] = Undefined THEN Undefined
                              ELSE [detections[s] EXCEPT !.cancelled = TRUE]]

Begun(c, p) == [chain |-> c, doing |-> "asking", path |-> p, tries |-> 0,
                cancelled |-> FALSE]

\* handleStartDetection of LedgerChainSelectView, which shows the chains in
\* these phases only, down to the first request.
StartDetection(s, c, p) ==
    /\ phase = "chain-selection" \/ (phase = "completed" /\ connected = Undefined)
    /\ starts < MaxStarts /\ starts' = starts + 1
    /\ detections[s] = Undefined
    /\ phase' = "detecting" /\ selected' = c /\ path' = p
    /\ detections' = [Cancelled EXCEPT ![s] = Begun(c, p)]
    /\ picked' = FALSE
    /\ UNCHANGED <<connected, address, stale>>

\* Mutant of ResetToChainSelection: the address is kept.
ResetToChainSelection_KeepsAddress ==
    /\ phase' = "chain-selection"
    /\ selected' = Undefined /\ connected' = Undefined
    /\ detections' = Cancelled
    /\ UNCHANGED <<path, address, starts, stale, picked>>

\* "Change chain" of the settings.
ResetToChainSelection ==
    /\ phase' = "chain-selection"
    /\ selected' = Undefined /\ connected' = Undefined /\ address' = Undefined
    /\ detections' = Cancelled
    /\ UNCHANGED <<path, starts, stale, picked>>

\* enterStandaloneMode and exitStandaloneMode: the initial state.
EnterOrExit ==
    /\ phase' = "chain-selection"
    /\ selected' = Undefined /\ path' = Undefined
    /\ connected' = Undefined /\ address' = Undefined
    /\ detections' = Cancelled
    /\ UNCHANGED <<starts, stale, picked>>

\* useSwapAddresses selects the chain of the asset to be swapped.
SetSelectedChain(c) ==
    /\ connected # c
    /\ starts < MaxStarts /\ starts' = starts + 1
    /\ connected' = c
    /\ picked' = TRUE
    /\ UNCHANGED <<phase, selected, path, address, detections, stale>>

-----------------------------------------------------------------------------
(* A detection                                                             *)

Asking(s) == detections[s] # Undefined /\ detections[s].doing = "asking"
Ends(s) == detections' = [detections EXCEPT ![s] = Undefined]

Found(s) ==
    /\ Asking(s)
    /\ phase' = "completed"
    /\ connected' = detections[s].chain
    /\ address' = [chain |-> detections[s].chain, path |-> detections[s].path]
    /\ stale' = (stale \/ detections[s].cancelled)
    /\ picked' = FALSE
    /\ Ends(s)
    /\ UNCHANGED <<selected, path, starts>>

\* An error answer, a rejection, or a Left: wait a second.
TryAgain(s) ==
    /\ Asking(s) /\ phase = "detecting"
    /\ detections[s].tries + 1 < MaxTries
    /\ detections' = [detections EXCEPT ![s].doing = "sleeping", ![s].tries = @ + 1]
    /\ UNCHANGED <<ledgerState, starts, stale, picked>>

\* Mutant of Wake: a retry asks for the default path.
Wake_DefaultPath(s) ==
    /\ detections[s] # Undefined /\ detections[s].doing = "sleeping"
    /\ detections' = [detections EXCEPT ![s].doing = "asking", ![s].path = Default]
    /\ UNCHANGED <<ledgerState, starts, stale, picked>>

\* The path is read again from the state; the phase is not.
Wake(s) ==
    /\ detections[s] # Undefined /\ detections[s].doing = "sleeping"
    /\ detections' = [detections EXCEPT ![s].doing = "asking",
                         ![s].path = IF path = Undefined THEN Default ELSE path]
    /\ UNCHANGED <<ledgerState, starts, stale, picked>>

\* Mutant of GiveUp: only the last attempt ends the phase.
GiveUp_Silently(s) ==
    /\ Asking(s)
    /\ phase # "detecting" \/ detections[s].tries + 1 = MaxTries
    /\ Ends(s)
    /\ UNCHANGED <<ledgerState, starts, stale, picked>>

\* The last attempt, or the detection was cancelled.
GiveUp(s) ==
    /\ Asking(s)
    /\ phase # "detecting" \/ detections[s].tries + 1 = MaxTries
    /\ IF phase = "detecting"
       THEN /\ phase' = "completed"
            /\ connected' = Undefined /\ address' = Undefined
            /\ stale' = (stale \/ detections[s].cancelled)
       ELSE UNCHANGED <<phase, connected, address, stale>>
    /\ Ends(s)
    /\ UNCHANGED <<selected, path, starts, picked>>

DetectionStep(s) == Found(s) \/ TryAgain(s) \/ Wake(s) \/ GiveUp(s)

LedgerNext ==
    \/ ResetToChainSelection \/ EnterOrExit
    \/ \E c \in DeviceChains : SetSelectedChain(c)
    \/ \E s \in Loops :
          \/ DetectionStep(s)
          \/ \E c \in DeviceChains, p \in Paths : StartDetection(s, c, p)

LedgerSpec == LedgerInit /\ [][LedgerNext]_standaloneVars

\* The device or the main process answers every request, timers fire.
FairLedgerSpec ==
    LedgerSpec /\ \A s \in Loops : WF_standaloneVars(DetectionStep(s))

-----------------------------------------------------------------------------
(* The app is connected to the chain, and spends from the path, that the   *)
(* user chose last, unless a detection acted on the state of a later one   *)
(* or after it had been cancelled, or a swap has chosen the chain.         *)
FoundIsSelected ==
    phase = "completed" /\ address # Undefined /\ ~stale /\ ~picked =>
       /\ connected = selected
       /\ address = [chain |-> selected, path |-> path]

(* However detections overlap, the address is one of the connected chain,  *)
(* unless a swap has chosen the chain; no address is left over while the   *)
(* user chooses or the device is asked.                                    *)
AddressOfConnected ==
    address # Undefined =>
       phase = "completed" /\ (picked \/ address.chain = connected)

(* Whatever the user does meanwhile, the app does not stay in the screen   *)
(* that waits for the device: the retries end.                             *)
DetectionEnds == phase = "detecting" ~> phase # "detecting"
=============================================================================
