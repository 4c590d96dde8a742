----------------------------- MODULE CommonStorage -----------------------------
(***************************************************************************)
(* The common storage of the renderer (services/storage/common.ts): a      *)
(* cache of the store's content, set by the answer to the first get and by *)
(* the answer to every save, in the order in which they arrive.  The main  *)
(* process also reads the file itself, for the endpoints of the Ledger     *)
(* clients.                                                                *)
(***************************************************************************)
EXTENDS FileStore

CONSTANTS
    None,       \* O.none
    First,      \* the slot of the get made when the renderer starts
    MaxCalls,   \* bound: calls made after the start
    MaxCrashes  \* bound: restarts of the app

ASSUME StartAssumption ==
    First \in Slots /\ None \notin Partial \cup Values \cup Slots
ASSUME BoundsAssumption == MaxCalls \in Nat /\ MaxCrashes \in Nat

VARIABLES
    cache,      \* storageState
    begun,      \* calls made after the start
    crashes,    \* restarts so far
    sole,       \* history: the save of a field under way if no other save of
                \* it was under way since it was made
    acked,      \* history: the value of the last answered save of a field,
                \* None once another save of it is made
    alone       \* history: no other call, and no failure, since the latest
                \* call of the renderer was made

vars == <<file, calls, failures, disturbed, cache, begun, crashes, sole, acked,
          alone>>

\* A user enters no retired URL.
Chosen == Values \ {Retired}

Starting == [c \in Slots |-> IF c = First THEN Ask(c, "get", Defaults) ELSE NoCall]

TypeOK ==
    /\ FileTypeOK
    /\ cache \in Content \cup {None}
    /\ begun \in Nat
    /\ crashes \in Nat
    /\ sole \in [Fields -> Slots \cup {None}]
    /\ acked \in [Fields -> Values \cup {None}]
    /\ alone \in BOOLEAN

Init ==
    /\ FileInit
    /\ calls = Starting
    /\ cache = None
    /\ begun = 0
    /\ crashes = 0
    /\ sole = [f \in Fields |-> None]
    /\ acked = [f \in Fields |-> None]
    /\ alone = TRUE

-----------------------------------------------------------------------------
Begin(c, kind, partial) ==
    /\ Idle(c)
    /\ begun < MaxCalls
    /\ begun' = begun + 1
    /\ calls' = [calls EXCEPT ![c] = Ask(c, kind, partial)]
    /\ alone' = ((kind = "ledger" => alone) /\ \A d \in Slots : Idle(d))
    /\ UNCHANGED <<file, failures, disturbed, cache, crashes>>

NoSaveOf(f) ==
    \A c \in Slots : calls[c].kind = "save" => f \notin DOMAIN calls[c].partial

\* modifyStorage.
ModifyStorage(c) ==
    \E f \in Fields, v \in Chosen :
        /\ Begin(c, "save", [g \in {f} |-> v])
        /\ sole' = [sole EXCEPT ![f] = IF NoSaveOf(f) THEN c ELSE None]
        /\ acked' = [acked EXCEPT ![f] = None]

\* getDefaultClientUrls of the Ledger clients.
ReadByLedger(c) ==
    /\ Begin(c, "ledger", Defaults)
    /\ UNCHANGED <<sole, acked>>

Acknowledged(c) ==
    /\ sole' = [f \in Fields |-> IF sole[f] = c THEN None ELSE sole[f]]
    /\ acked' = [f \in Fields |->
                    IF calls[c].kind = "save" /\ sole[f] = c
                    THEN calls[c].partial[f] ELSE acked[f]]

\* Mutant of Answered: the answer to a save is not looked at.
AnsweredUnseen(c) ==
    /\ calls[c].phase = "answered"
    /\ calls' = [calls EXCEPT ![c] = NoCall]
    /\ cache' = IF calls[c].kind = "get" THEN calls[c].data ELSE cache
    /\ Acknowledged(c)
    /\ UNCHANGED <<file, failures, disturbed, begun, crashes, alone>>

\* The answer to a get or a save becomes the cache.
Answered(c) ==
    /\ calls[c].phase = "answered"
    /\ calls' = [calls EXCEPT ![c] = NoCall]
    /\ cache' = IF calls[c].kind = "ledger" THEN cache ELSE calls[c].data
    /\ Acknowledged(c)
    /\ UNCHANGED <<file, failures, disturbed, begun, crashes, alone>>

\* A rejected get empties the cache; a rejected save leaves it.
Rejected(c) ==
    /\ calls[c].phase = "rejected"
    /\ calls' = [calls EXCEPT ![c] = NoCall]
    /\ cache' = IF calls[c].kind = "get" THEN None ELSE cache
    /\ sole' = [f \in Fields |-> IF sole[f] = c THEN None ELSE sole[f]]
    /\ UNCHANGED <<file, failures, disturbed, begun, crashes, acked, alone>>

\* The main process goes on.
Work(c) ==
    /\ FileStep(c)
    /\ UNCHANGED <<cache, begun, crashes, sole, acked, alone>>

Failure(c) ==
    /\ Fails(c)
    /\ alone' = FALSE
    /\ UNCHANGED <<cache, begun, crashes, sole, acked>>

\* The app ends and is started again.
Crash ==
    /\ crashes < MaxCrashes
    /\ crashes' = crashes + 1
    /\ Dies
    /\ calls' = Starting
    /\ cache' = None
    /\ sole' = [f \in Fields |-> None]
    /\ alone' = TRUE
    /\ UNCHANGED <<begun, acked>>

Step(c) ==
    \/ Work(c)
    \/ Answered(c)
    \/ Rejected(c)

Next ==
    \/ \E c \in Slots :
        \/ ModifyStorage(c)
        \/ ReadByLedger(c)
        \/ Step(c)
        \/ Failure(c)
    \/ Crash

Spec == Init /\ [][Next]_vars

-----------------------------------------------------------------------------
\* The registers the file stands for: what is being written, else what a get
\* would return.
Reg ==
    IF Filling # {} THEN calls[CHOOSE c \in Filling : TRUE].data ELSE Shown

\* A save has not taken effect: its own write has not begun.
Unwritten(call) ==
    /\ call.kind = "save"
    /\ \/ call.phase \in {"checking", "reading", "opening"}
       \/ call.phase = "filling" /\ call.goal # "save"

Pending == [c \in Slots |-> IF Unwritten(calls[c]) THEN calls[c].partial ELSE None]

Registers ==
    INSTANCE FieldRegisters
        WITH reg <- Reg, pending <- Pending, trusted <- ~ disturbed, Clients <- Slots

\* A save changes its own fields and no others, in one step and at most once,
\* and nothing else changes a field: not a get, a migration of retired URLs, a
\* read for the Ledger, a crash before the file is opened or a refused save.  It
\* holds until two writes meet, a save reads what another is writing, or an
\* operation fails or is cut short in the way disturbed records (saveToFile,
\* getFileContent).
ImplementsRegisters == Registers!Spec

\* What a save was answered for is in the file, whatever other fields are saved
\* and however often the app restarts, until the field is saved again
\* (saveToFile answers after the write).
AckedIsKept ==
    ~ disturbed =>
        \A f \in Fields : acked[f] # None => Reg[f] = acked[f]

\* The cache is what the file says whenever the latest call was made while no
\* other was under way, met no failure and has ended, whatever the calls before
\* it did to each other (modifyStorage sets the whole content of the answer).
CacheIsFile ==
    (alone /\ \A c \in Slots : Idle(c)) => cache = Shown

=============================================================================
