-------------------------------- MODULE MpcSdk --------------------------------
(***************************************************************************)
(* The Vultisig SDK singleton of the main process: initializeSDK, getSDK   *)
(* and disposeSDK of main/api/mpc/sdk.ts, called by the MPC_INIT,          *)
(* MPC_DISPOSE and MPC_CANCEL_KEYGEN handlers.                             *)
(*                                                                         *)
(* Every call of initializeSDK is a member of Calls.  A call that starts   *)
(* an initialisation is identified with the promise it creates and with    *)
(* the Vultisig instance it constructs: the code makes one of each per     *)
(* call.  The module-level variables are sdkInstance, initPromise and      *)
(* disposing; JavaScript runs a handler to its next await without          *)
(* interruption, so every action below is one such run.                    *)
(***************************************************************************)
EXTENDS Naturals

CONSTANTS
    Calls,        \* calls of initializeSDK
    None,         \* null
    MaxDisposes   \* bound: calls of disposeSDK explored

ASSUME CallsAssumption == None \notin Calls
ASSUME BoundAssumption == MaxDisposes \in Nat

VARIABLES
    sdkInstance,  \* the singleton: the call that built it, or None
    initPromise,  \* the call whose promise is shared, or None
    disposing,    \* _disposing
    pc,           \* where each call stands
    awaits,       \* the call whose promise a "waiting" call awaits
    instance,     \* life of the instance a call constructs
    got,          \* what a returned call handed to its caller
    disposes,     \* number of disposeSDK calls so far
    overtaken     \* history: calls in flight when disposeSDK ran

vars == <<sdkInstance, initPromise, disposing, pc, awaits, instance, got,
          disposes, overtaken>>

PCs == {"idle", "importing", "initializing", "waiting", "returned", "failed"}
Lives == {"none", "built", "live", "disposed"}

TypeOK ==
    /\ sdkInstance \in Calls \cup {None}
    /\ initPromise \in Calls \cup {None}
    /\ disposing \in BOOLEAN
    /\ pc \in [Calls -> PCs]
    /\ awaits \in [Calls -> Calls \cup {None}]
    /\ instance \in [Calls -> Lives]
    /\ got \in [Calls -> Calls \cup {None}]
    /\ disposes \in Nat
    /\ overtaken \in SUBSET Calls

Init ==
    /\ sdkInstance = None
    /\ initPromise = None
    /\ disposing = FALSE
    /\ pc = [c \in Calls |-> "idle"]
    /\ awaits = [c \in Calls |-> None]
    /\ instance = [c \in Calls |-> "none"]
    /\ got = [c \in Calls |-> None]
    /\ disposes = 0
    /\ overtaken = {}

InFlight(c) == pc[c] \in {"importing", "initializing"}

(***************************************************************************)
(* initializeSDK, up to its first await: hand out the live instance, join  *)
(* the initialisation in progress, or start one.                           *)
(***************************************************************************)
InitReturnsLive(c) ==
    /\ pc[c] = "idle"
    /\ sdkInstance # None
    /\ pc' = [pc EXCEPT ![c] = "returned"]
    /\ got' = [got EXCEPT ![c] = sdkInstance]
    /\ UNCHANGED <<sdkInstance, initPromise, disposing, awaits, instance,
                   disposes, overtaken>>

InitJoins(c) ==
    /\ pc[c] = "idle"
    /\ sdkInstance = None
    /\ initPromise # None
    /\ pc' = [pc EXCEPT ![c] = "waiting"]
    /\ awaits' = [awaits EXCEPT ![c] = initPromise]
    /\ UNCHANGED <<sdkInstance, initPromise, disposing, instance, got,
                   disposes, overtaken>>

\* Mutant of InitStarts: the check for an initialisation in progress is lost.
InitStartsAnyway(c) ==
    /\ pc[c] = "idle"
    /\ sdkInstance = None
    /\ disposing' = FALSE
    /\ initPromise' = c
    /\ pc' = [pc EXCEPT ![c] = "importing"]
    /\ UNCHANGED <<sdkInstance, awaits, instance, got, disposes, overtaken>>

InitStarts(c) ==
    /\ pc[c] = "idle"
    /\ sdkInstance = None
    /\ initPromise = None
    /\ disposing' = FALSE
    /\ initPromise' = c
    /\ pc' = [pc EXCEPT ![c] = "importing"]
    /\ UNCHANGED <<sdkInstance, awaits, instance, got, disposes, overtaken>>

\* The module is imported: construct the instance and await initialize().
Construct(c) ==
    /\ pc[c] = "importing"
    /\ instance' = [instance EXCEPT ![c] = "built"]
    /\ pc' = [pc EXCEPT ![c] = "initializing"]
    /\ UNCHANGED <<sdkInstance, initPromise, disposing, awaits, got,
                   disposes, overtaken>>

(***************************************************************************)
(* The promise of call c settles.  Its own continuation (catch, finally)   *)
(* and those of the calls awaiting the same promise are microtasks of one  *)
(* macrotask, so no other handler runs between them.                       *)
(***************************************************************************)
\* Mutant of Joined: only the calls awaiting the promise still shared are
\* answered.
JoinedWhileShared(c) ==
    {d \in Calls : pc[d] = "waiting" /\ awaits[d] = c /\ initPromise = c}

Joined(c) == {d \in Calls : pc[d] = "waiting" /\ awaits[d] = c}

Resolve(c) ==
    /\ pc' = [d \in Calls |->
                IF d = c \/ d \in Joined(c) THEN "returned" ELSE pc[d]]
    /\ got' = [d \in Calls |->
                IF d = c \/ d \in Joined(c) THEN c ELSE got[d]]
    /\ initPromise' = None
    /\ UNCHANGED <<disposing, awaits, disposes, overtaken>>

Reject(c) ==
    /\ pc' = [d \in Calls |->
                IF d = c \/ d \in Joined(c) THEN "failed" ELSE pc[d]]
    /\ sdkInstance' = None
    /\ initPromise' = None
    /\ UNCHANGED <<disposing, awaits, got, disposes, overtaken>>

Publish(c) ==
    /\ pc[c] = "initializing"
    /\ ~disposing
    /\ instance' = [instance EXCEPT ![c] = "live"]
    /\ sdkInstance' = c
    /\ Resolve(c)

\* Mutant of Discard: the disposed instance is returned instead of thrown away.
DiscardButReturn(c) ==
    /\ pc[c] = "initializing"
    /\ disposing
    /\ instance' = [instance EXCEPT ![c] = "disposed"]
    /\ UNCHANGED sdkInstance
    /\ Resolve(c)

Discard(c) ==
    /\ pc[c] = "initializing"
    /\ disposing
    /\ instance' = [instance EXCEPT ![c] = "disposed"]
    /\ Reject(c)

\* The import or initialize() fails: an instance that was built is dropped.
InitFails(c) ==
    /\ InFlight(c)
    /\ Reject(c)
    /\ UNCHANGED instance

\* Mutant of Dispose: the singleton is disposed and left in place.
DisposeInPlace ==
    /\ disposes < MaxDisposes
    /\ disposing' = TRUE
    /\ instance' = [c \in Calls |->
                      IF c = sdkInstance THEN "disposed" ELSE instance[c]]
    /\ initPromise' = None
    /\ disposes' = disposes + 1
    /\ overtaken' = overtaken \cup {c \in Calls : InFlight(c)}
    /\ UNCHANGED <<sdkInstance, pc, awaits, got>>

(***************************************************************************)
(* disposeSDK: MPC_DISPOSE and MPC_CANCEL_KEYGEN both end in it.           *)
(***************************************************************************)
Dispose ==
    /\ disposes < MaxDisposes
    /\ disposing' = TRUE
    /\ instance' = [c \in Calls |->
                      IF c = sdkInstance THEN "disposed" ELSE instance[c]]
    /\ sdkInstance' = None
    /\ initPromise' = None
    /\ disposes' = disposes + 1
    /\ overtaken' = overtaken \cup {c \in Calls : InFlight(c)}
    /\ UNCHANGED <<pc, awaits, got>>

Next ==
    \/ \E c \in Calls :
          \/ InitReturnsLive(c) \/ InitJoins(c) \/ InitStarts(c)
          \/ Construct(c) \/ Publish(c) \/ Discard(c) \/ InitFails(c)
    \/ Dispose

Spec == Init /\ [][Next]_vars

(***************************************************************************)
(* import() and instance.initialize() settle, one way or the other; which  *)
(* calls are made and when the SDK is disposed is up to the renderer.      *)
(***************************************************************************)
Settles(c) == Construct(c) \/ Publish(c) \/ Discard(c) \/ InitFails(c)

FairSpec == Spec /\ \A c \in Calls : WF_vars(Settles(c))

-----------------------------------------------------------------------------
Live == {c \in Calls : instance[c] = "live"}

(* getSDK (sdk.ts:124-129) never hands a handler an instance that was      *)
(* disposed, failed to initialise or is still initialising, whatever       *)
(* initialisations and disposals overlap.                                  *)
SingletonIsUsable == sdkInstance # None => instance[sdkInstance] = "live"

(* A caller of initializeSDK, whether it started the initialisation or     *)
(* joined one, is only ever handed an instance that is live at that        *)
(* moment: never one that disposeSDK disposed while the call waited.       *)
HandedInstanceIsLive ==
    [][\A c \in Calls :
          (pc[c] # "returned" /\ pc'[c] = "returned")
             => got'[c] # None /\ instance'[got'[c]] = "live"]_vars

(* As long as no disposal overtakes an initialisation, initializeSDK       *)
(* really is a singleton: one initialisation at a time, at most one live   *)
(* instance, and that one is the instance getSDK returns, so a disposal    *)
(* releases everything that was built.                                     *)
SingletonUnlessOvertaken ==
    overtaken = {} =>
       /\ Live \subseteq {sdkInstance}
       /\ \A c \in Calls : InFlight(c) => initPromise = c

(* Every call of initializeSDK is answered: a call that waits on another's *)
(* promise is not left hanging when that promise is dropped by disposeSDK  *)
(* or cleared by another initialisation's finally.                         *)
EveryCallSettles ==
    \A c \in Calls :
       (pc[c] # "idle") ~> (pc[c] \in {"returned", "failed"})

(* What sdk.ts:99 logs, "dispose() called during init - discarding stale   *)
(* instance", would promise: an initialisation that disposeSDK overtook is *)
(* not published.  It does not hold: a second initialisation resets        *)
(* _disposing, which is why SingletonUnlessOvertaken has its condition.    *)
StaleInstanceIsDiscarded == sdkInstance \notin overtaken
=============================================================================
