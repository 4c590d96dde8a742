------------------------------ MODULE Mpc_proofs ------------------------------
(***************************************************************************)
(* The Vultisig side of the main process: safety of the SDK singleton      *)
(* (module MpcSdk) for any number of calls and disposals, and of the       *)
(* signing sessions (module MpcSigning) for any number of sessions and     *)
(* vaults.                                                                 *)
(***************************************************************************)
EXTENDS MpcSdk, MpcSigning, TLAPS

-----------------------------------------------------------------------------
(* initializeSDK and disposeSDK                                            *)

(***************************************************************************)
(* What makes SingletonUnlessOvertaken inductive: while one initialisation *)
(* is in flight nothing is published yet, so its failure, which clears     *)
(* sdkInstance, forgets no live instance.                                  *)
(***************************************************************************)
Quiet == overtaken = {} =>
            \A c \in Calls : InFlight(c) => sdkInstance = None

\* An instance is live only after the call that built it has returned it.
LiveIsReturned == \A c \in Calls : instance[c] = "live" => pc[c] = "returned"

SdkInv ==
    /\ TypeOK
    /\ LiveIsReturned
    /\ SingletonIsUsable
    /\ SingletonUnlessOvertaken
    /\ Quiet

(* The inductive invariant holds initially and is kept by every handler    *)
(* run of sdk.ts.                                                          *)
LEMMA InitSdkInv == Init => SdkInv
<1> SUFFICES ASSUME Init PROVE SdkInv
  OBVIOUS
<1>1. TypeOK
  BY DEF Init, TypeOK, PCs, Lives
<1>2. SingletonIsUsable /\ Quiet /\ LiveIsReturned
  BY DEF Init, SingletonIsUsable, Quiet, LiveIsReturned, InFlight
<1>3. SingletonUnlessOvertaken
  BY DEF Init, SingletonUnlessOvertaken, Live, InFlight
<1> QED
  BY <1>1, <1>2, <1>3 DEF SdkInv

LEMMA NextSdkInv == SdkInv /\ [Next]_vars => SdkInv'
<1> SUFFICES ASSUME SdkInv, [Next]_vars PROVE SdkInv'
  OBVIOUS
<1> USE CallsAssumption, BoundAssumption
    DEF SdkInv, TypeOK, PCs, Lives, SingletonIsUsable,
        SingletonUnlessOvertaken, Live, Quiet, InFlight,
        LiveIsReturned
<1>1. ASSUME NEW c \in Calls, InitReturnsLive(c) PROVE SdkInv'
  BY <1>1 DEF InitReturnsLive
<1>2. ASSUME NEW c \in Calls, InitJoins(c) PROVE SdkInv'
  BY <1>2 DEF InitJoins
<1>3. ASSUME NEW c \in Calls, InitStarts(c) PROVE SdkInv'
  BY <1>3 DEF InitStarts
<1>4. ASSUME NEW c \in Calls, Construct(c) PROVE SdkInv'
  BY <1>4 DEF Construct
<1>5. ASSUME NEW c \in Calls, Publish(c) PROVE SdkInv'
  BY <1>5 DEF Publish, Resolve, Joined
<1>6. ASSUME NEW c \in Calls, Discard(c) PROVE SdkInv'
  BY <1>6 DEF Discard, Reject, Joined
<1>7. ASSUME NEW c \in Calls, InitFails(c) PROVE SdkInv'
  BY <1>7 DEF InitFails, Reject, Joined
<1>8. ASSUME Dispose PROVE SdkInv'
  BY <1>8 DEF Dispose
<1>9. CASE UNCHANGED vars
  BY <1>9 DEF vars
<1> QED
  BY <1>1, <1>2, <1>3, <1>4, <1>5, <1>6, <1>7, <1>8, <1>9 DEF Next

(* The conjuncts of SdkInv hold of every behaviour of sdk.ts.                *)
LEMMA AlwaysSdkInv == Spec => []SdkInv
  BY InitSdkInv, NextSdkInv, PTL DEF Spec

(* The module variables of sdk.ts hold calls or null, and disposeSDK and   *)
(* initializeSDK leave every call in a place its code has.                 *)
THEOREM SdkTypeCorrect == Spec => []TypeOK
  BY AlwaysSdkInv, PTL DEF SdkInv

(* SingletonIsUsable: getSDK hands out live instances only.                *)
THEOREM SingletonSafe == Spec => []SingletonIsUsable
  BY AlwaysSdkInv, PTL DEF SdkInv

(* SingletonUnlessOvertaken: one instance, one initialisation, as long as  *)
(* no disposeSDK overtakes an initializeSDK.                               *)
THEOREM SingletonUnless == Spec => []SingletonUnlessOvertaken
  BY AlwaysSdkInv, PTL DEF SdkInv

(* HandedInstanceIsLive: whoever calls initializeSDK, the call that        *)
(* started the initialisation or one that joined it, is handed an instance *)
(* that is live.  A joined call is answered with the promise's own         *)
(* instance, which has just been published.                                *)
THEOREM HandedLive == Spec => HandedInstanceIsLive
<1> DEFINE Handed == \A c \in Calls :
              (pc[c] # "returned" /\ pc'[c] = "returned")
                 => got'[c] # None /\ instance'[got'[c]] = "live"
<1>1. ASSUME SdkInv, Next PROVE Handed
  <2> USE CallsAssumption, <1>1
      DEF SdkInv, TypeOK, PCs, Lives, SingletonIsUsable, InFlight
  <2>1. ASSUME NEW c \in Calls, InitReturnsLive(c) PROVE Handed
    BY <2>1 DEF InitReturnsLive
  <2>2. ASSUME NEW c \in Calls, InitJoins(c) \/ InitStarts(c) \/ Construct(c)
        PROVE Handed
    BY <2>2 DEF InitJoins, InitStarts, Construct
  <2>3. ASSUME NEW c \in Calls, Publish(c) PROVE Handed
    BY <2>3 DEF Publish, Resolve, Joined
  <2>4. ASSUME NEW c \in Calls, Discard(c) \/ InitFails(c) PROVE Handed
    BY <2>4 DEF Discard, InitFails, Reject, Joined
  <2>5. ASSUME Dispose PROVE Handed
    BY <2>5 DEF Dispose
  <2> QED
    BY <2>1, <2>2, <2>3, <2>4, <2>5 DEF Next
<1>2. SdkInv /\ [Next]_vars => [Handed]_vars
  BY <1>1
<1> QED
  BY <1>2, AlwaysSdkInv, PTL DEF Spec, HandedInstanceIsLive

-----------------------------------------------------------------------------
(* Signing sessions                                                        *)

(***************************************************************************)
(* The map knows every session that runs and was not told to stop.  This   *)
(* is what the guard of Register and the comparison in the finally keep,   *)
(* and what a cancel and a dispose rely on.                                *)
(***************************************************************************)
Registered ==
    \A s \in Sessions :
       Running(s) /\ s \notin aborted =>
          vaultOf[s] \in Vaults /\ controllers[vaultOf[s]] = s

Named == \A s \in Sessions : stage[s] # "idle" => vaultOf[s] \in Vaults

SigningInv == SigningTypeOK /\ Named /\ Registered

LEMMA InitSigningInv == SigningInit => SigningInv
  BY DEF SigningInit, SigningInv, SigningTypeOK, Stages, Named, Registered, Running

LEMMA NextSigningInv == SigningInv /\ [SigningNext]_signingVars => SigningInv'
<1> SUFFICES ASSUME SigningInv, [SigningNext]_signingVars PROVE SigningInv'
  OBVIOUS
<1> USE NoEntryAssumption DEF SigningInv, SigningTypeOK, Stages, Named, Registered, Running
<1>1. ASSUME NEW s \in Sessions, NEW v \in Vaults, NEW b \in BOOLEAN,
             Begin(s, v, b)
      PROVE SigningInv'
  BY <1>1 DEF Begin
<1>2. ASSUME NEW s \in Sessions, Register(s) PROVE SigningInv'
  BY <1>2 DEF Register
<1>3. ASSUME NEW s \in Sessions, Refuse(s) PROVE SigningInv'
  BY <1>3 DEF Refuse
<1>4. ASSUME NEW s \in Sessions, Prepared(s) PROVE SigningInv'
  BY <1>4 DEF Prepared
<1>5. ASSUME NEW s \in Sessions, SignedBytes(s) PROVE SigningInv'
  BY <1>5 DEF SignedBytes, Release
<1>6. ASSUME NEW s \in Sessions, SignedTx(s) PROVE SigningInv'
  BY <1>6 DEF SignedTx
<1>7. ASSUME NEW s \in Sessions, Broadcast(s) PROVE SigningInv'
  BY <1>7 DEF Broadcast, Release
<1>8. ASSUME NEW s \in Sessions, Fail(s) PROVE SigningInv'
  BY <1>8 DEF Fail, Release
<1>9. ASSUME NEW v \in Vaults, Cancel(v) PROVE SigningInv'
  BY <1>9 DEF Cancel
<1>10. ASSUME DisposeSessions PROVE SigningInv'
  BY <1>10 DEF DisposeSessions
<1>11. ASSUME InitSDK \/ CancelKeygen PROVE SigningInv'
  BY <1>11 DEF InitSDK, CancelKeygen
<1>12. CASE UNCHANGED signingVars
  BY <1>12 DEF signingVars
<1> QED
  BY <1>1, <1>2, <1>3, <1>4, <1>5, <1>6, <1>7, <1>8, <1>9, <1>10, <1>11,
     <1>12 DEF SigningNext, SDKStep

LEMMA AlwaysSigningInv == Signing => []SigningInv
  BY InitSigningInv, NextSigningInv, PTL DEF Signing

(* signingControllers maps vaults to sessions, whatever handlers overlap.  *)
THEOREM SigningTypeCorrect == Signing => []SigningTypeOK
  BY AlwaysSigningInv, PTL DEF SigningInv

(* OneSessionPerVault: the "Signing already in progress" check lets no two *)
(* unaborted sessions of a vault run together.                             *)
THEOREM OnePerVault == Signing => []OneSessionPerVault
<1>1. SigningInv => OneSessionPerVault
  BY NoEntryAssumption DEF SigningInv, Registered, OneSessionPerVault
<1> QED
  BY <1>1, AlwaysSigningInv, PTL

(* AbortReachesEverySession: a cancel aborts whatever runs for its vault,  *)
(* a dispose whatever runs.                                                *)
THEOREM AbortReaches == Signing => AbortReachesEverySession
<1>1. ASSUME SigningInv, NEW v \in Vaults, Cancel(v),
             NEW s \in Sessions, Running(s), vaultOf[s] = v
      PROVE s \in aborted'
  BY <1>1 DEF SigningInv, Registered, Cancel
<1>2. ASSUME SigningInv, DisposeSessions, NEW s \in Sessions, Running(s)
      PROVE s \in aborted'
  BY <1>2 DEF SigningInv, Registered, DisposeSessions
<1>3. SigningInv =>
        [/\ \A v \in Vaults : Cancel(v) =>
              \A s \in Sessions : Running(s) /\ vaultOf[s] = v => s \in aborted'
         /\ DisposeSessions =>
              \A s \in Sessions : Running(s) => s \in aborted']_signingVars
  BY <1>1, <1>2
<1> QED
  BY <1>3, AlwaysSigningInv, PTL DEF AbortReachesEverySession
=============================================================================
