------------------------------- MODULE ListStores -------------------------------
(***************************************************************************)
(* The three ways in which the renderer keeps a list in a file store.      *)
(*                                                                         *)
(*   addresses    userAddresses.ts, and userNodes.ts, userChainTokens.ts,  *)
(*                userBondProviders.ts alike: a change is computed from    *)
(*                what the last answer said and shown when it is answered  *)
(*   watchlist    pools.ts: a change is shown at once and sent at once     *)
(*   favourites   assetFavourites.ts: a change is shown at once, changes   *)
(*                made before the file is loaded are replayed onto it, and *)
(*                saves wait for one another                               *)
(*                                                                         *)
(* The list is the one of the current network.                             *)
(***************************************************************************)
EXTENDS FileStore, Sequences, SequencesExt

CONSTANTS
    Items,      \* what a list is made of
    List,       \* the field of the list
    None,       \* O.none
    First,      \* the slot of the get made when the renderer starts
    MaxChanges  \* bound: changes by the user

ASSUME ListAssumption ==
    /\ Fields = {List}
    /\ First \in Slots
    /\ None \notin Values
    /\ Retired \notin Values
    /\ Defaults[List] = <<>>
ASSUME BoundsAssumption == MaxChanges \in Nat

VARIABLES
    client,     \* which of the three
    memory,     \* storageState, watchlists, favouritesByNetwork
    hydrated,   \* has the stored list been taken over?
    pending,    \* pendingChanges: changes made before that
    queue,      \* the saves waiting in createSaveQueue
    changes,    \* changes by the user so far
    intent,     \* history: the stored list with every change applied
    behind,     \* history: the latest save was refused
    lost        \* history: a change was computed from a list that was not the
                \* latest, or a failure cannot be made good

listVars == <<memory, hydrated, pending, queue>>
vars == <<file, calls, failures, disturbed, client, listVars, changes, intent,
          behind, lost>>

Clients == {"addresses", "watchlist", "favourites"}
Change == [item : Items, added : BOOLEAN]

TypeOK ==
    /\ FileTypeOK
    /\ client \in Clients
    /\ memory \in Values \cup {None}
    /\ hydrated \in BOOLEAN
    /\ pending \in Seq(Change)
    /\ queue \in Seq(Values)
    /\ changes \in Nat
    /\ intent \in Values
    /\ behind \in BOOLEAN
    /\ lost \in BOOLEAN

Init ==
    /\ FileInit
    /\ calls = [c \in Slots |-> IF c = First THEN Ask(c, "get", Defaults) ELSE NoCall]
    /\ client \in Clients
    /\ memory = IF client = "addresses" THEN None ELSE <<>>
    /\ hydrated = FALSE
    /\ pending = <<>>
    /\ queue = <<>>
    /\ changes = 0
    /\ intent = Shown[List]
    /\ behind = FALSE
    /\ lost = FALSE

-----------------------------------------------------------------------------
\* applyFavouriteChange; the other clients' additions and removals do the same.
Applied(list, change) ==
    IF change.added
    THEN IF Contains(list, change.item) THEN list ELSE Append(list, change.item)
    ELSE SelectSeq(list, LAMBDA item : item # change.item)

\* Values holds the lists that the user can make.
ASSUME ListsAssumption ==
    \A list \in Values, change \in Change : Applied(list, change) \in Values

\* applyFavouriteChanges.
Replayed(list, made) ==
    LET after[n \in 0 .. Len(made)] ==
            IF n = 0 THEN list ELSE Applied(after[n - 1], made[n])
    IN  after[Len(made)]

Latest == IF memory = None THEN Defaults[List] ELSE memory

AllIdle == \A c \in Slots : Idle(c)

Send(c, list) ==
    /\ Idle(c)
    /\ calls' = [calls EXCEPT ![c] = Ask(c, "save", [f \in {List} |-> list])]

\* addAddress, removeAddress: only the answer changes what is shown.
ChangeAddresses(change) ==
    /\ client = "addresses"
    /\ \E c \in Slots : Send(c, Applied(Latest, change))
    /\ lost' = (lost \/ ~ AllIdle)
    /\ UNCHANGED listVars

\* addToWatchlist, removeFromWatchlist.
ChangeWatchlist(change) ==
    /\ client = "watchlist"
    /\ \E c \in Slots : Send(c, Applied(memory, change))
    /\ memory' = Applied(memory, change)
    /\ lost' = (lost \/ ~ AllIdle)
    /\ UNCHANGED <<hydrated, pending, queue>>

\* Mutant of ToggleFavourite: it sends the save without the queue.
ToggleFavouriteAtOnce(change) ==
    /\ client = "favourites"
    /\ memory' = Applied(memory, change)
    /\ IF hydrated
       THEN /\ \E c \in Slots : Send(c, memory')
            /\ UNCHANGED <<queue, pending>>
       ELSE /\ pending' = Append(pending, change)
            /\ UNCHANGED <<queue, calls>>
    /\ UNCHANGED <<hydrated, lost>>

\* toggleFavourite.
ToggleFavourite(change) ==
    /\ client = "favourites"
    /\ memory' = Applied(memory, change)
    /\ IF hydrated
       THEN /\ queue' = Append(queue, memory')
            /\ UNCHANGED pending
       ELSE /\ pending' = Append(pending, change)
            /\ UNCHANGED queue
    /\ UNCHANGED <<calls, hydrated, lost>>

\* The user adds an item that is not shown or removes one that is.
UserChanges ==
    /\ changes < MaxChanges
    /\ changes' = changes + 1
    /\ \E item \in Items :
        LET change == [item |-> item, added |-> ~ Contains(Latest, item)]
        IN  /\ intent' = Applied(intent, change)
            /\ \/ ChangeAddresses(change)
               \/ ChangeWatchlist(change)
               \/ ToggleFavourite(change)
    /\ UNCHANGED <<file, failures, disturbed, client, behind>>

-----------------------------------------------------------------------------
\* createSaveQueue: a save is sent when the one before it has settled.
SendQueued(c) ==
    /\ queue # <<>>
    /\ \A d \in Slots : calls[d].kind # "save"
    /\ Send(c, Head(queue))
    /\ queue' = Tail(queue)
    /\ UNCHANGED <<file, failures, disturbed, client, memory, hydrated, pending,
                   changes, intent, behind, lost>>

\* Mutant of FinishHydration: the stored list replaces the one shown.
FinishHydrationPlainly(stored) ==
    /\ hydrated' = TRUE
    /\ memory' = stored
    /\ pending' = <<>>
    /\ UNCHANGED queue

\* finishHydration.
FinishHydration(stored) ==
    /\ hydrated' = TRUE
    /\ memory' = Replayed(stored, pending)
    /\ pending' = <<>>
    /\ queue' = IF pending = <<>> THEN queue
                ELSE Append(queue, Replayed(stored, pending))

\* The answer to the get of the start.
Loaded(c) ==
    /\ calls[c].kind = "get"
    /\ calls[c].phase = "answered"
    /\ IF client = "favourites" THEN FinishHydration(calls[c].data[List])
       ELSE /\ memory' = calls[c].data[List]
            /\ UNCHANGED <<hydrated, pending, queue>>
    /\ UNCHANGED behind

LoadRejected(c) ==
    /\ calls[c].kind = "get"
    /\ calls[c].phase = "rejected"
    /\ IF client = "favourites" THEN FinishHydration(memory)
       ELSE /\ memory' = IF client = "addresses" THEN None ELSE memory
            /\ UNCHANGED <<hydrated, pending, queue>>
    /\ UNCHANGED behind

\* The answer to a save: only the addresses look at it.
Saved(c) ==
    /\ calls[c].kind = "save"
    /\ calls[c].phase = "answered"
    /\ memory' = IF client = "addresses" THEN calls[c].data[List] ELSE memory
    /\ behind' = FALSE
    /\ UNCHANGED <<hydrated, pending, queue>>

\* Mutant of SaveRejected: the queue waits for it for ever.
SaveRejectedBlocks(c) ==
    /\ calls[c].kind = "save"
    /\ calls[c].phase = "rejected"
    /\ client # "favourites"
    /\ behind' = TRUE
    /\ UNCHANGED listVars

\* A save that failed.
SaveRejected(c) ==
    /\ calls[c].kind = "save"
    /\ calls[c].phase = "rejected"
    /\ behind' = TRUE
    /\ UNCHANGED listVars

Answer(c) ==
    /\ \/ Loaded(c)
       \/ LoadRejected(c)
       \/ Saved(c)
       \/ SaveRejected(c)
    /\ calls' = [calls EXCEPT ![c] = NoCall]
    /\ UNCHANGED <<file, failures, disturbed, client, changes, intent, lost>>

Work(c) ==
    /\ FileStep(c)
    /\ UNCHANGED <<client, listVars, changes, intent, behind, lost>>

\* A failed get has taken the defaults for the stored list.  A failed save can
\* be made good by the next one only where that one sends everything shown.
Failure(c) ==
    /\ Fails(c)
    /\ lost' = (lost \/ calls[c].kind = "get" \/ client # "favourites")
    /\ UNCHANGED <<client, listVars, changes, intent, behind>>

Step(c) ==
    \/ SendQueued(c)
    \/ Answer(c)
    \/ Work(c)

Next ==
    \/ UserChanges
    \/ \E c \in Slots : Step(c) \/ Failure(c)

Fairness == \A c \in Slots : WF_vars(Step(c))

Spec == Init /\ [][Next]_vars /\ Fairness

-----------------------------------------------------------------------------
Settled == AllIdle /\ queue = <<>>

\* Once everything is answered, the list shown is the stored list with every
\* change of the user applied to it.  The favourites keep this through changes
\* made before the file was loaded, quick changes and failed saves; the other
\* lists lose a change that is made while a call is under way.
ShownAsAsked ==
    (Settled /\ ~ lost) => memory = intent

\* The file then holds that list too, unless the latest save was refused: with
\* the queue an older write cannot finish last (createSaveQueue), and a failed
\* save is made good by the next.
StoredAsAsked ==
    (Settled /\ ~ lost /\ ~ behind) => Shown[List] = intent

\* Every change of a favourite is sent and answered: neither a failed load nor
\* a failed save blocks the later ones.
ChangesReachTheFile ==
    (client = "favourites" /\ changes > 0) ~> Settled

=============================================================================
