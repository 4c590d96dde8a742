-------------------------- MODULE TransactionTracking --------------------------
(***************************************************************************)
(* The services that follow submitted swaps to their end:                  *)
(*                                                                         *)
(*   stages      thorchain/transactionTracking.ts, also MAYAChain's        *)
(*   chainflip   chainflip/transactionTracking.ts                          *)
(*   oneclick    oneclick/transactionTracking.ts                           *)
(*                                                                         *)
(* Each keeps a map of transactions, a list of them that it emits to the   *)
(* screens, and one self-rescheduling chain of status requests for every   *)
(* transaction that is not finished.  A reload, which several handlers     *)
(* trigger, drops all chains with their requests and starts new ones.      *)
(* Between two requests lie seconds and between two steps of the clock     *)
(* here minutes, so a request is answered at any time or not at all.       *)
(***************************************************************************)
EXTENDS Naturals

CONSTANTS
    Txs,            \* transactions, one slot for each row of the map
    NoRow,           \* no row
    MaxIncomplete,  \* maxIncompleteTrackingMs
    Retention,      \* retentionMs
    MaxTime         \* bound: the time explored

ASSUME TimesAssumption ==
    /\ MaxIncomplete \in Nat
    /\ Retention \in Nat
    /\ MaxTime \in Nat

VARIABLES
    tracker,   \* which of the three
    now,       \* Date.now()
    rows,      \* transactionsMap
    chains,    \* how many chains poll for a transaction
    shown,     \* the list emitted last
    settling   \* debounceTime(5000): the cleanup has not seen that list yet

trackingVars == <<tracker, now, rows, chains, shown, settling>>

Trackers == {"stages", "chainflip", "oneclick"}
States == {"unknown", "running", "done", "failed"}
Row == [state : States, startTime : Nat, isComplete : BOOLEAN,
        completedAt : Nat, pollingStopped : BOOLEAN]

ASSUME NoRowAssumption == NoRow \notin Row

TrackingTypeOK ==
    /\ tracker \in Trackers
    /\ now \in Nat
    /\ rows \in [Txs -> Row \cup {NoRow}]
    /\ chains \in [Txs -> Nat]
    /\ shown \in [Txs -> Row \cup {NoRow}]
    /\ settling \in BOOLEAN

TrackingInit ==
    /\ tracker \in Trackers
    /\ now = 0
    /\ rows = [t \in Txs |-> NoRow]
    /\ chains = [t \in Txs |-> 0]
    /\ shown = rows
    /\ settling = TRUE

-----------------------------------------------------------------------------
\* isTxStagesComplete, isTransactionComplete: to the first and the last of the
\* services a swap that failed is finished, to Chainflip's it is not.
IsComplete(state) ==
    \/ state = "done"
    \/ state = "failed" /\ tracker = "oneclick"

\* Mutant of OverAge: no limit to the tracking of an incomplete transaction.
OverAgeNever(row) == FALSE

OverAge(row) ==
    tracker = "stages" /\ ~ row.isComplete /\ now - row.startTime >= MaxIncomplete

Active(row) == ~ row.isComplete /\ ~ row.pollingStopped

Polled(t) == rows[t] # NoRow /\ Active(rows[t])

\* markPollingStopped.
Stopped(row) == [row EXCEPT !.pollingStopped = TRUE]

\* A new chain looks at the age of its transaction before its first request.
Started(map) ==
    [t \in Txs |-> IF map[t] # NoRow /\ Active(map[t]) /\ OverAge(map[t])
                   THEN Stopped(map[t]) ELSE map[t]]

\* Mutant of Reload: mergeMap, the chains of before the reload live on.
ReloadAdds(map) ==
    /\ rows' = Started(map)
    /\ chains' = [t \in Txs |->
                    chains[t] + IF rows'[t] # NoRow /\ Active(rows'[t]) THEN 1 ELSE 0]
    /\ shown' = rows'
    /\ settling' = TRUE

\* reloadTransactions with the map as a handler left it: switchMap drops every
\* chain, starts one for each active transaction and emits the list.
Reload(map) ==
    /\ rows' = Started(map)
    /\ chains' = [t \in Txs |-> IF rows'[t] # NoRow /\ Active(rows'[t]) THEN 1 ELSE 0]
    /\ shown' = rows'
    /\ settling' = TRUE

-----------------------------------------------------------------------------
\* addTransaction.  Bound: it can still reach the age limit.
AddTransaction(t) ==
    /\ rows[t] = NoRow
    /\ now + MaxIncomplete <= MaxTime
    /\ Reload([rows EXCEPT ![t] =
                [state |-> "unknown", startTime |-> now, isComplete |-> FALSE,
                 completedAt |-> 0, pollingStopped |-> FALSE]])
    /\ UNCHANGED <<tracker, now>>

\* removeTransaction, by the user.
RemoveTransaction(t) ==
    /\ rows[t] # NoRow
    /\ Reload([rows EXCEPT ![t] = NoRow])
    /\ UNCHANGED <<tracker, now>>

\* What a status request can answer: a swap that failed stays failed.
Answers(row) ==
    IF row.state = "failed" THEN {"failed"}
    ELSE IF tracker = "stages" THEN {"running", "done"} ELSE {"running", "done", "failed"}

\* updateTransactionStages.
Updated(row, state) ==
    [row EXCEPT !.state = state,
                !.isComplete = IsComplete(state),
                !.completedAt = IF IsComplete(state) THEN now ELSE row.completedAt]

\* The interval getPollingInterval returns for a swap that failed is negative:
\* the chain ends and nothing is emitted.
Silent(row) == tracker = "chainflip" /\ row.state = "failed"

\* Mutant of Continue: completion does not reload, the chain just ends.
ContinueQuietly(t, row) ==
    LET map == [rows EXCEPT ![t] = row]
    IN  \/ /\ row.isComplete \/ Silent(row)
           /\ rows' = map
           /\ chains' = [chains EXCEPT ![t] = chains[t] - 1]
           /\ UNCHANGED <<shown, settling>>
        \/ /\ OverAge(row)
           /\ Reload([rows EXCEPT ![t] = Stopped(row)])
        \/ /\ ~ row.isComplete /\ ~ OverAge(row) /\ ~ Silent(row)
           /\ rows' = map
           /\ shown' = map
           /\ settling' = TRUE
           /\ UNCHANGED chains

\* What follows an answer: the row was finished or is too old, the chain ends,
\* or the list is emitted and the next request is due after an interval.
Continue(t, row) ==
    LET map == [rows EXCEPT ![t] = row]
    IN  \/ /\ row.isComplete
           /\ Reload(map)
        \/ /\ OverAge(row)
           /\ Reload([rows EXCEPT ![t] = Stopped(row)])
        \/ /\ ~ row.isComplete /\ ~ OverAge(row)
           /\ rows' = map
           /\ IF Silent(row)
              THEN /\ chains' = [chains EXCEPT ![t] = chains[t] - 1]
                   /\ UNCHANGED <<shown, settling>>
              ELSE /\ shown' = map
                   /\ settling' = TRUE
                   /\ UNCHANGED chains

\* fetchStagesOnce$, getSwapStatus$, getStatus$ and the rest of the chain.
PollSucceeds(t) ==
    /\ chains[t] > 0
    /\ Polled(t)
    /\ \E state \in Answers(rows[t]) : Continue(t, Updated(rows[t], state))
    /\ UNCHANGED <<tracker, now>>

PollFails(t) ==
    /\ chains[t] > 0
    /\ Polled(t)
    /\ Continue(t, rows[t])
    /\ UNCHANGED <<tracker, now>>

\* Rows of the emitted list that the cleanup removes and stops.
IsExpired(row) ==
    \/ row.isComplete /\ now - row.completedAt > Retention
    \/ OverAge(row) /\ row.pollingStopped
                    /\ now - row.startTime > MaxIncomplete + Retention

Expired == {t \in Txs : shown[t] # NoRow /\ IsExpired(shown[t])}
Overdue == {t \in Txs : shown[t] # NoRow /\ OverAge(shown[t]) /\ ~ shown[t].pollingStopped}

\* The subscription at the end of each service, five seconds after the last
\* emission: with nothing to do it waits for another one.
Cleanup ==
    /\ settling
    /\ IF Expired \cup Overdue = {}
       THEN /\ settling' = FALSE
            /\ UNCHANGED <<rows, chains, shown>>
       ELSE Reload([t \in Txs |-> IF t \in Expired THEN NoRow
                                  ELSE IF t \in Overdue THEN Stopped(rows[t])
                                  ELSE rows[t]])
    /\ UNCHANGED <<tracker, now>>

Tick ==
    /\ now < MaxTime
    /\ now' = now + 1
    /\ UNCHANGED <<tracker, rows, chains, shown, settling>>

Answer(t) == PollSucceeds(t) \/ PollFails(t)

TrackingNext ==
    \/ \E t \in Txs : AddTransaction(t) \/ RemoveTransaction(t) \/ Answer(t)
    \/ Cleanup
    \/ Tick

\* Time passes, and a request is answered or fails.
TrackingFairness == WF_trackingVars(Tick) /\ \A t \in Txs : WF_trackingVars(Answer(t))

TrackingSpec == TrackingInit /\ [][TrackingNext]_trackingVars /\ TrackingFairness

-----------------------------------------------------------------------------
Ended(t) == rows[t] # NoRow /\ Silent(rows[t])

\* However reloads, answers and the cleanup interleave, a transaction that is
\* not finished has exactly one chain of requests and any other has none: no
\* reload doubles the requests and no answer ends a chain that is needed.
\* Chainflip's failed swaps are asked about once after each reload.
OnePoll ==
    \A t \in Txs : IF Polled(t) THEN chains[t] = 1 \/ (Ended(t) /\ chains[t] = 0)
                               ELSE chains[t] = 0

\* The list the screens were given last is the map, although the answer that
\* completes a transaction ends its chain without an emission: the reload
\* emits.  The failure of a Chainflip swap alone is not emitted.
ShownIsKnown ==
    \A t \in Txs : shown[t] = rows[t] \/ (shown[t] # NoRow /\ Ended(t))

\* A THORChain or MAYAChain transaction is not polled for ever: it is finished,
\* removed, or stopped at its age, unless its requests are never answered.
TrackingEnds ==
    \A t \in Txs : (tracker = "stages" /\ Polled(t)) ~> ~ Polled(t)

===============================================================================
