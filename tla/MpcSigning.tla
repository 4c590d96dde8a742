------------------------------ MODULE MpcSigning ------------------------------
(***************************************************************************)
(* Signing sessions of Vultisig vaults in the main process: the handlers   *)
(* MPC_SIGN_BYTES, MPC_SEND_TX, MPC_CANCEL_SIGNING, MPC_DISPOSE and        *)
(* MPC_CANCEL_KEYGEN of main/api/mpc/index.ts and the signingControllers   *)
(* map they share.  A session is one call of the first two handlers; its   *)
(* AbortController is identified with it.  The SDK is external: each of    *)
(* its calls succeeds or fails, and a sign call that is given an aborted   *)
(* signal does not succeed.  MpcSdk has the life of the SDK itself; here   *)
(* it is up or down.                                                       *)
(***************************************************************************)
EXTENDS Naturals

CONSTANTS
    Sessions,   \* calls of MPC_SIGN_BYTES and MPC_SEND_TX
    Vaults,     \* vault ids the renderer may name
    NoEntry     \* no entry in the map

ASSUME NoEntryAssumption == NoEntry \notin Sessions /\ NoEntry \notin Vaults

VARIABLES
    sdkUp,        \* isSDKInitialized()
    controllers,  \* signingControllers: the session registered for a vault
    stage,        \* where each session stands
    vaultOf,      \* the vault a session signs with
    sends,        \* sessions that are MPC_SEND_TX calls
    aborted,      \* sessions whose signal is aborted
    sent,         \* history: sessions whose transaction was broadcast
    cancelled     \* history: sessions a MPC_CANCEL_SIGNING answered for

signingVars == <<sdkUp, controllers, stage, vaultOf, sends, aborted, sent,
                 cancelled>>

Stages == {"idle", "lookup", "preparing", "signing", "broadcasting", "returned",
        "failed"}

SigningTypeOK ==
    /\ sdkUp \in BOOLEAN
    /\ controllers \in [Vaults -> Sessions \cup {NoEntry}]
    /\ stage \in [Sessions -> Stages]
    /\ vaultOf \in [Sessions -> Vaults \cup {NoEntry}]
    /\ sends \in SUBSET Sessions
    /\ aborted \in SUBSET Sessions
    /\ sent \in SUBSET Sessions
    /\ cancelled \in SUBSET Sessions

\* A session between the registration of its controller and its finally.
Running(s) == stage[s] \in {"preparing", "signing", "broadcasting"}

SigningInit ==
    /\ sdkUp = FALSE
    /\ controllers = [v \in Vaults |-> NoEntry]
    /\ stage = [s \in Sessions |-> "idle"]
    /\ vaultOf = [s \in Sessions |-> NoEntry]
    /\ sends = {}
    /\ aborted = {}
    /\ sent = {}
    /\ cancelled = {}

InitSDK ==
    /\ ~sdkUp
    /\ sdkUp' = TRUE
    /\ UNCHANGED <<controllers, stage, vaultOf, sends, aborted, sent, cancelled>>

\* getSDK throws without an instance; otherwise the handler awaits the vault.
Begin(s, v, isSend) ==
    /\ stage[s] = "idle"
    /\ stage' = [stage EXCEPT ![s] = IF sdkUp THEN "lookup" ELSE "failed"]
    /\ vaultOf' = [vaultOf EXCEPT ![s] = v]
    /\ sends' = IF isSend THEN sends \cup {s} ELSE sends
    /\ UNCHANGED <<sdkUp, controllers, aborted, sent, cancelled>>

\* Mutant of Register: the map is not consulted.
RegisterAnyway(s) ==
    /\ stage[s] = "lookup"
    /\ controllers' = [controllers EXCEPT ![vaultOf[s]] = s]
    /\ stage' = [stage EXCEPT ![s] =
                   IF s \in sends THEN "preparing" ELSE "signing"]
    /\ UNCHANGED <<sdkUp, vaultOf, sends, aborted, sent, cancelled>>

Register(s) ==
    /\ stage[s] = "lookup"
    /\ controllers[vaultOf[s]] = NoEntry
    /\ controllers' = [controllers EXCEPT ![vaultOf[s]] = s]
    /\ stage' = [stage EXCEPT ![s] =
                   IF s \in sends THEN "preparing" ELSE "signing"]
    /\ UNCHANGED <<sdkUp, vaultOf, sends, aborted, sent, cancelled>>

\* Malformed parameters, unknown vault or chain, or a signing already in progress.
Refuse(s) ==
    /\ stage[s] = "lookup"
    /\ stage' = [stage EXCEPT ![s] = "failed"]
    /\ UNCHANGED <<sdkUp, controllers, vaultOf, sends, aborted, sent, cancelled>>

\* address, prepareSendTx and extractMessageHashes; no signal is passed.
Prepared(s) ==
    /\ stage[s] = "preparing"
    /\ stage' = [stage EXCEPT ![s] = "signing"]
    /\ UNCHANGED <<sdkUp, controllers, vaultOf, sends, aborted, sent, cancelled>>

\* Mutant of Release: the entry is removed whoever it belongs to.
ReleaseWhatever(s) == controllers' = [controllers EXCEPT ![vaultOf[s]] = NoEntry]

\* finally: only the session's own entry is removed.
Release(s) ==
    controllers' = [v \in Vaults |->
                       IF v = vaultOf[s] /\ controllers[v] = s
                       THEN NoEntry ELSE controllers[v]]

SignedBytes(s) ==
    /\ stage[s] = "signing" /\ s \notin sends /\ s \notin aborted
    /\ stage' = [stage EXCEPT ![s] = "returned"]
    /\ Release(s)
    /\ UNCHANGED <<sdkUp, vaultOf, sends, aborted, sent, cancelled>>

\* The signature goes straight to broadcastTx: the signal is not looked at.
SignedTx(s) ==
    /\ stage[s] = "signing" /\ s \in sends /\ s \notin aborted
    /\ stage' = [stage EXCEPT ![s] = "broadcasting"]
    /\ UNCHANGED <<sdkUp, controllers, vaultOf, sends, aborted, sent, cancelled>>

\* Also when the chain answers that the transaction was already processed.
Broadcast(s) ==
    /\ stage[s] = "broadcasting"
    /\ stage' = [stage EXCEPT ![s] = "returned"]
    /\ sent' = sent \cup {s}
    /\ Release(s)
    /\ UNCHANGED <<sdkUp, vaultOf, sends, aborted, cancelled>>

\* Mutant of Fail: the release is skipped when the session was not aborted.
FailWithoutRelease(s) ==
    /\ Running(s)
    /\ stage' = [stage EXCEPT ![s] = "failed"]
    /\ UNCHANGED <<sdkUp, controllers, vaultOf, sends, aborted, sent, cancelled>>

Fail(s) ==
    /\ Running(s)
    /\ stage' = [stage EXCEPT ![s] = "failed"]
    /\ Release(s)
    /\ UNCHANGED <<sdkUp, vaultOf, sends, aborted, sent, cancelled>>

\* Mutant of Cancel: the signal is never aborted.
CancelWithoutAbort(v) ==
    /\ controllers[v] # NoEntry
    /\ cancelled' = cancelled \cup {controllers[v]}
    /\ controllers' = [controllers EXCEPT ![v] = NoEntry]
    /\ UNCHANGED <<sdkUp, stage, vaultOf, sends, aborted, sent>>

\* MPC_CANCEL_SIGNING answers { cancelled: true } when there is an entry.
Cancel(v) ==
    /\ controllers[v] # NoEntry
    /\ aborted' = aborted \cup {controllers[v]}
    /\ cancelled' = cancelled \cup {controllers[v]}
    /\ controllers' = [controllers EXCEPT ![v] = NoEntry]
    /\ UNCHANGED <<sdkUp, stage, vaultOf, sends, sent>>

DisposeSessions ==
    /\ sdkUp' = FALSE
    /\ aborted' = aborted \cup {s \in Sessions : \E v \in Vaults : controllers[v] = s}
    /\ controllers' = [v \in Vaults |-> NoEntry]
    /\ UNCHANGED <<stage, vaultOf, sends, sent, cancelled>>

\* MPC_CANCEL_KEYGEN disposes the SDK under the sessions that run.
CancelKeygen ==
    /\ sdkUp' = FALSE
    /\ UNCHANGED <<controllers, stage, vaultOf, sends, aborted, sent, cancelled>>

SDKStep(s) ==
    \/ Register(s) \/ Refuse(s) \/ Prepared(s)
    \/ SignedBytes(s) \/ SignedTx(s) \/ Broadcast(s) \/ Fail(s)

SigningNext ==
    \/ InitSDK \/ DisposeSessions \/ CancelKeygen
    \/ \E v \in Vaults : Cancel(v)
    \/ \E s \in Sessions :
          \/ \E v \in Vaults, isSend \in BOOLEAN : Begin(s, v, isSend)
          \/ SDKStep(s)

Signing == SigningInit /\ [][SigningNext]_signingVars

\* The SDK's calls settle; what the renderer asks for is up to the user.
FairSigning == Signing /\ \A s \in Sessions : WF_signingVars(SDKStep(s))

-----------------------------------------------------------------------------
(* index.ts:562 and 691 "Signing already in progress for vault": two       *)
(* sessions of one vault never run at once, unless one has been told to    *)
(* stop.                                                                   *)
OneSessionPerVault ==
    \A s, t \in Sessions :
       /\ Running(s) /\ s \notin aborted
       /\ Running(t) /\ t \notin aborted
       /\ vaultOf[s] = vaultOf[t]
       => s = t

(* A cancel or a dispose reaches every session that runs: whatever         *)
(* sessions started, failed or were cancelled before, none of those it is  *)
(* meant for goes on unaborted because its entry was overwritten or        *)
(* removed by another session's finally.                                   *)
AbortReachesEverySession ==
    [][/\ \A v \in Vaults : Cancel(v) =>
             \A s \in Sessions : Running(s) /\ vaultOf[s] = v => s \in aborted'
       /\ DisposeSessions =>
             \A s \in Sessions : Running(s) => s \in aborted']_signingVars

(* A vault that is busy becomes free again: every way out of a session,    *)
(* failures of the SDK included, releases its entry, so the vault is never *)
(* left refusing to sign.                                                  *)
VaultIsReleased ==
    \A v \in Vaults : controllers[v] # NoEntry ~> controllers[v] = NoEntry

(* What index.ts:881, "Cancel an active signing session", would promise: a *)
(* transaction whose cancellation was answered with { cancelled: true } is *)
(* not broadcast afterwards.  It does not hold: the handler looks at no    *)
(* signal between the signature and the broadcast.                         *)
CancelledIsNotSent ==
    [][\A s \in Sessions : Broadcast(s) => s \notin cancelled]_signingVars
=============================================================================
