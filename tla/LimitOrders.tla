------------------------------ MODULE LimitOrders ------------------------------
(***************************************************************************)
(* The panel of a chart that fills limit orders (TradingPanel.tsx): it is  *)
(* told the crossings of PriceLevels, takes them up one at a time, puts    *)
(* the order on the ticket, waits for a quote that fills it, asks the user *)
(* for the signature in a dialog (SwapConfirmationModals.tsx) and follows  *)
(* the swap.  The user trades, approves and edits in the same panel.       *)
(***************************************************************************)
EXTENDS PriceLevels

CONSTANTS
    Outputs,    \* what a quote may promise for the amount on the ticket
    Size,       \* the amount of a level, the same for all
    User,       \* a ticket of the user's own
    None,       \* null, O.none, an empty ticket
    MaxDetours  \* bound: acts of the user beside placing and signing orders,
                \* and changes of the lists of assets

ASSUME PanelAssumption ==
    /\ Outputs \subseteq Nat \ {0}
    /\ Size \in Nat \ {0}
    /\ User \notin Orders /\ None \notin Orders /\ User # None
    /\ MaxDetours \in Nat

Tickets == Orders \cup {User}

\* What the other side of the ticket may be: the asset of the levels, or another
\* one, such as the same in the other settlement.
Targets == {"counter", "another"}

VARIABLES
    mounted,    \* is the chart open?
    executing,  \* executingLevelRef and activeLevelRef
    queue,      \* queuedCrossingsRef
    auto,       \* autoSubmitPendingRef: the level waits for its quote
    confirm,    \* limitConfirmRef: the level is with the user or signed
    ticket,     \* whose side and amount are on the ticket
    target,     \* selectedTarget
    quote,      \* selectedQuote: what it was asked for and its output
    fetch,      \* what the latest request for a quote asks for (requestIdRef)
    due,        \* a quote is to be asked for once nothing pauses it
    dialog,     \* the open dialog and confirmAcceptedRef
    swap,       \* swapState
    approval,   \* the user's approval: "none", "sent" or "handled"
    signed,     \* history: how often a swap of each level was submitted
    edited,     \* history: the ticket of the executing level was changed
    astray,     \* history: an order and something of the user's own overlapped,
                \* or a pending swap was left alone (see FilledOnce)
    unlisted,   \* history: the levels' other asset was not found when the
                \* executing level started, and another one stayed selected
    requoted,   \* history: while the level was with the user, its quote was asked
                \* for again by a confirmed approval or dropped with a receipt
    detours     \* acts of the user, changes of the lists

panelVars == <<mounted, executing, queue, auto, confirm>>
quoteVars == <<ticket, target, quote, fetch, due>>
levelHistory == <<edited, unlisted, requoted>>
history == <<signed, astray, levelHistory>>
vars == <<levelVars, panelVars, quoteVars, dialog, swap, approval, history, detours>>

NoDialog == [mode |-> "none", level |-> None, accepted |-> FALSE]
Dialogs == [mode : {"swap", "approve"}, level : Tickets, accepted : BOOLEAN]
Requests == [of : Tickets, to : Targets]
Quotes == [of : Tickets, to : Targets, output : Outputs]
Swaps == {"initial", "pending", "success", "failure"}

TypeOK ==
    /\ LevelsTypeOK
    /\ mounted \in BOOLEAN
    /\ executing \in Orders \cup {None}
    /\ queue \in Seq(Orders)
    /\ auto \in BOOLEAN
    /\ confirm \in BOOLEAN
    /\ ticket \in Tickets \cup {None}
    /\ target \in Targets
    /\ quote \in Quotes \cup {None}
    /\ fetch \in Requests \cup {None}
    /\ due \in BOOLEAN
    /\ dialog \in Dialogs \cup {NoDialog}
    /\ swap \in Swaps
    /\ approval \in {"none", "sent", "handled"}
    /\ signed \in [Orders -> Nat]
    /\ edited \in BOOLEAN
    /\ astray \in BOOLEAN
    /\ unlisted \in BOOLEAN
    /\ requoted \in BOOLEAN
    /\ detours \in Nat

Init ==
    /\ LevelsInit
    /\ mounted = TRUE
    /\ executing = None
    /\ queue = <<>>
    /\ auto = FALSE
    /\ confirm = FALSE
    /\ ticket = None
    /\ target = "counter"
    /\ quote = None
    /\ fetch = None
    /\ due = FALSE
    /\ dialog = NoDialog
    /\ swap = "initial"
    /\ approval = "none"
    /\ signed = [i \in Orders |-> 0]
    /\ edited = FALSE
    /\ astray = FALSE
    /\ unlisted = FALSE
    /\ requoted = FALSE
    /\ detours = 0

-----------------------------------------------------------------------------
Detour == detours < MaxDetours /\ detours' = detours + 1

\* pauseQuoteRefresh.
QuotesPaused == dialog # NoDialog \/ swap # "initial"

\* The user's own trade is under way.
OwnTrade == dialog.mode = "swap" \/ swap = "pending"

\* setSelectedTarget, if the asset of the level is in availableAssets.
SelectTarget ==
    /\ \/ target' = "counter"
       \/ UNCHANGED target
    /\ unlisted' = (target' # "counter")

\* Mutant of Start: the quote of the ticket it replaces stays.
StartKeepsQuote(i, waiting, s) ==
    /\ status' = [s EXCEPT ![i] = "executing"]
    /\ executing' = i
    /\ queue' = waiting
    /\ auto' = TRUE
    /\ confirm' = FALSE
    /\ ticket' = i
    /\ SelectTarget
    /\ UNCHANGED <<quote, fetch>>
    /\ due' = TRUE
    /\ edited' = FALSE
    /\ requoted' = FALSE

\* limitApi.start.
Start(i, waiting, s) ==
    /\ status' = [s EXCEPT ![i] = "executing"]
    /\ executing' = i
    /\ queue' = waiting
    /\ auto' = TRUE
    /\ confirm' = FALSE
    /\ ticket' = i
    /\ SelectTarget
    /\ quote' = None
    /\ fetch' = None
    /\ due' = TRUE
    /\ edited' = FALSE
    /\ requoted' = FALSE

Idle(s) ==
    /\ status' = s
    /\ executing' = None
    /\ queue' = <<>>
    /\ auto' = FALSE
    /\ confirm' = FALSE
    /\ edited' = FALSE
    /\ unlisted' = FALSE
    /\ requoted' = FALSE
    /\ UNCHANGED quoteVars

\* settleLimitQueue, with limitApi.start passing over levels that are no longer
\* pending.
TakeNext(s) ==
    LET live == {n \in 1 .. Len(queue) : s[queue[n]] = "pending"}
    IN  \/ live = {} /\ Idle(s)
        \/ \E n \in live :
              /\ \A m \in live : n <= m
              /\ Start(queue[n], SubSeq(queue, n + 1, Len(queue)), s)

Fail == TakeNext([status EXCEPT ![executing] = "failed"]) /\ UNCHANGED side

\* Mutant of Rearm: the level is pending again with the side it was seen on.
RearmSeen ==
    /\ TakeNext([status EXCEPT ![executing] = "pending"])
    /\ UNCHANGED side

\* limitApi.finish('pending'): updateLevel and rearmLevel.
Rearm ==
    /\ TakeNext([status EXCEPT ![executing] = "pending"])
    /\ side' = [side EXCEPT ![executing] = "unseen"]

\* limitApi.dismiss.
Dismiss ==
    IF confirm THEN Rearm
    ELSE UNCHANGED <<status, side, executing, queue, auto, confirm, quoteVars, levelHistory>>

-----------------------------------------------------------------------------
\* The chart.

\* The other asset is the one last used there, or the preferred one.
Mount ==
    /\ ~ mounted
    /\ mounted' = TRUE
    /\ status' = Resumed(status)
    /\ side' = Forgotten(status, "paused")
    /\ target' \in Targets
    /\ UNCHANGED <<prices, inFlight, executing, queue, auto, confirm, ticket, quote,
                   fetch, due, dialog, swap, approval, history, detours>>

\* The cleanup of the watching effect, and the end of the component's state.
Unmount ==
    /\ Detour
    /\ mounted
    /\ mounted' = FALSE
    /\ LET back == [i \in Orders |-> IF swap = "initial" /\ status[i] = "executing"
                                     THEN "pending" ELSE status[i]]
       IN  /\ status' = Paused(back)
           /\ side' = Forgotten(back, "pending")
    /\ executing' = None
    /\ queue' = <<>>
    /\ auto' = FALSE
    /\ confirm' = FALSE
    /\ ticket' = None
    /\ target' = "counter"
    /\ quote' = None
    /\ fetch' = None
    /\ due' = FALSE
    /\ dialog' = NoDialog
    /\ swap' = "initial"
    /\ approval' = "none"
    /\ edited' = FALSE
    /\ unlisted' = FALSE
    /\ requoted' = FALSE
    /\ astray' = (astray \/ (executing # None /\ swap = "pending"))
    /\ UNCHANGED <<prices, inFlight, signed>>

\* A level gets the other asset that is selected.
PlaceOrder(i) ==
    /\ mounted
    /\ target = "counter"
    /\ AddLevel(i)
    /\ UNCHANGED <<panelVars, quoteVars, dialog, swap, approval, history, detours>>

\* handleRemoveLevel; the button is not shown for a level that is executing.
\* A level is queued once (TakeUp).
RemoveLevel(i) ==
    /\ Detour
    /\ mounted
    /\ Removable(i)
    /\ \/ ~ Contains(queue, i) /\ UNCHANGED queue
       \/ \E n \in 1 .. Len(queue) : queue[n] = i /\ queue' = RemoveAt(queue, n)
    /\ status' = [status EXCEPT ![i] = "removed"]
    /\ UNCHANGED <<side, prices, inFlight, mounted, executing, auto, confirm,
                   quoteVars, dialog, swap, approval, history>>

\* The user types an amount, or empties the field.
EditTicket ==
    /\ Detour
    /\ mounted
    /\ ~ QuotesPaused
    /\ \E t \in {User, None} :
        /\ ticket' = t
        /\ due' = (t # None)
        /\ IF t = None THEN quote' = None /\ fetch' = None
           ELSE UNCHANGED <<quote, fetch>>
    /\ edited' = (executing # None)
    /\ UNCHANGED <<levelVars, panelVars, target, dialog, swap, approval, signed, astray,
                   unlisted, requoted>>

\* handleSelectTarget by the user, which drops the quote and empties a buy; or a
\* change of the settlement or of the listed assets, which selects another one.
ChangeTarget ==
    /\ Detour
    /\ mounted
    /\ target' \in Targets \ {target}
    /\ \/ /\ ~ QuotesPaused
          /\ quote' = None
          /\ fetch' = None
          /\ ticket' \in {ticket, None}
       \/ UNCHANGED <<ticket, quote, fetch>>
    /\ due' = (ticket' # None)
    /\ edited' = (executing # None)
    /\ UNCHANGED <<levelVars, panelVars, dialog, swap, approval, signed, astray,
                   unlisted, requoted>>

-----------------------------------------------------------------------------
\* Crossings.

\* enqueueLimitEvent for each hit of a poll in turn: one that is executing or
\* queued is dropped.
TakeUp(hits) ==
    \E fresh \in InOrder({i \in hits : i # executing /\ ~ Contains(queue, i)}) :
        IF executing = None /\ fresh # <<>>
        THEN Start(Head(fresh), queue \o Tail(fresh), status)
        ELSE /\ queue' = queue \o fresh
             /\ UNCHANGED <<status, executing, auto, confirm, quoteVars, levelHistory>>

\* publishPrice.
PriceArrives(a, p) ==
    LET known == [prices EXCEPT ![a] = p]
    IN  /\ Publish(a, known)
        /\ side' = NextSides(known)
        /\ TakeUp(Hits(known))
        /\ astray' = (astray \/ (executing # executing' /\ OwnTrade))
        /\ UNCHANGED <<mounted, dialog, swap, approval, signed, detours>>

AskForPrices ==
    /\ Poll
    /\ UNCHANGED <<panelVars, quoteVars, dialog, swap, approval, history, detours>>

NoPriceArrives(a) ==
    /\ FetchFails(a)
    /\ UNCHANGED <<panelVars, quoteVars, dialog, swap, approval, history, detours>>

-----------------------------------------------------------------------------
\* Quotes.

\* fetchQuote for what is on the ticket: no protocol can quote it, or the quote
\* before stays until the answer.
FetchQuote ==
    \/ quote' = None /\ UNCHANGED fetch
    \/ fetch' = [of |-> ticket, to |-> target] /\ UNCHANGED quote

\* The quote effect.
AskForQuote ==
    /\ mounted
    /\ due
    /\ ticket # None
    /\ ~ QuotesPaused
    /\ due' = FALSE
    /\ FetchQuote
    /\ UNCHANGED <<levelVars, panelVars, ticket, target, dialog, swap, approval,
                   history, detours>>

\* onApprovalConfirmed, whatever pauses the quotes; nothing is asked for without an
\* amount or before the fees are known.
ApprovalConfirmed ==
    /\ approval = "sent"
    /\ approval' = "handled"
    /\ \/ ticket # None /\ FetchQuote
       \/ UNCHANGED <<quote, fetch>>
    /\ requoted' = confirm
    /\ UNCHANGED <<levelVars, panelVars, ticket, target, due, dialog, swap, signed,
                   astray, edited, unlisted, detours>>

\* The answer to the latest request: a quote, no route, or an error, which
\* leaves the quote before it.
QuoteArrives ==
    /\ fetch # None
    /\ fetch' = None
    /\ \/ \E out \in Outputs :
            quote' = [of |-> fetch.of, to |-> fetch.to, output |-> out]
       \/ quote' = None
       \/ UNCHANGED quote
    /\ UNCHANGED <<levelVars, panelVars, ticket, target, due, dialog, swap, approval,
                   history, detours>>

\* quoteFillsLimit for a level's amount, a quote's output and the other asset's
\* price: the price of the trade and the limit, multiplied out.
QuoteFillsLimit(i, output, counterUsd) ==
    LET usd == IF Unit[i] = "usd" THEN counterUsd ELSE 1
    IN  IF Type[i] = "sell" THEN output * usd >= Limit[i] * Size
        ELSE Size * usd <= Limit[i] * output

\* The polled price of the other asset, or one the pool details give.
CounterUsd == IF prices["counter"] # Unknown THEN {prices["counter"]} ELSE Prices

\* The trigger effect looks at a quote.
QuoteChecked ==
    /\ mounted
    /\ auto
    /\ quote # None
    /\ fetch = None

\* The balance does not cover, the quote has no route or is worse than the limit.
QuoteRefused ==
    /\ QuoteChecked
    /\ Fail
    /\ UNCHANGED <<prices, inFlight, mounted, dialog, swap, approval, signed, astray,
                   detours>>

\* onSubmit for the level.
QuoteConfirmed ==
    /\ QuoteChecked
    /\ \E usd \in CounterUsd : QuoteFillsLimit(executing, quote.output, usd)
    /\ auto' = FALSE
    /\ confirm' = TRUE
    /\ dialog' = [mode |-> "swap", level |-> executing, accepted |-> FALSE]
    /\ due' = TRUE
    /\ UNCHANGED <<levelVars, mounted, executing, queue, ticket, target, quote, fetch,
                   swap, approval, history, detours>>

\* Mutant of TimeIsUp: the wait ends and the level keeps its place.
TimeIsUpQuietly ==
    /\ auto
    /\ auto' = FALSE
    /\ UNCHANGED <<levelVars, mounted, executing, queue, confirm, quoteVars, dialog,
                   swap, approval, history, detours>>

\* LIMIT_FILL_WAIT_MS after the start of a level that still waits.
TimeIsUp ==
    /\ auto
    /\ Fail
    /\ UNCHANGED <<prices, inFlight, mounted, dialog, swap, approval, signed, astray,
                   detours>>

-----------------------------------------------------------------------------
\* Dialogs and the swap.

\* handleTrade and onApprove.  The trade button wants the quote of the ticket.
OpenOwnDialog(mode) ==
    /\ Detour
    /\ mounted
    /\ dialog = NoDialog
    /\ ticket # None
    /\ mode = "swap" => fetch = None /\ quote # None /\ quote.of = ticket
    /\ dialog' = [mode |-> mode, level |-> User, accepted |-> FALSE]
    /\ due' = TRUE
    /\ astray' = (astray \/ (executing # None /\ (mode = "swap" \/ confirm)))
    /\ UNCHANGED <<levelVars, panelVars, ticket, target, quote, fetch, swap, approval,
                   signed, levelHistory>>

\* submitApproveTx.  The first transaction that succeeds is polled for until it is
\* confirmed; another one ends that, and is not polled for (approvalHandledRef).
SubmitApproval ==
    IF dialog.mode = "approve"
    THEN approval' \in (IF approval = "none" THEN {"sent"} ELSE {approval, "handled"})
    ELSE UNCHANGED approval

\* submitSwap, submitCFSwap, submitOneClickSwap.
SubmitSwap ==
    IF dialog.mode = "swap" /\ quote # None /\ ticket # None
    THEN /\ swap' = "pending"
         /\ signed' = [i \in Orders |-> IF dialog.level = i THEN Min({signed[i] + 1, 2})
                                        ELSE signed[i]]
    ELSE UNCHANGED <<swap, signed>>

Submit == SubmitApproval /\ SubmitSwap

\* Mutant of AcceptOnLedger: confirmAcceptedRef is not set before onClose.
AcceptOnLedgerUnmarked ==
    /\ mounted
    /\ dialog # NoDialog
    /\ ~ dialog.accepted
    /\ Submit
    /\ dialog' = NoDialog
    /\ Dismiss
    /\ UNCHANGED <<prices, inFlight, mounted, astray, detours>>

\* The OK button of the Ledger dialog calls onSuccess and then onClose.
AcceptOnLedger ==
    /\ mounted
    /\ dialog # NoDialog
    /\ ~ dialog.accepted
    /\ Submit
    /\ dialog' = NoDialog
    /\ UNCHANGED <<levelVars, panelVars, quoteVars, levelHistory, astray, detours>>

\* onVultisigSuccess of a secure vault: the dialog stays for the other devices.
\* A password or a fast vault closes it, as the Ledger does.
AcceptOnVault ==
    /\ mounted
    /\ dialog # NoDialog
    /\ ~ dialog.accepted
    /\ Submit
    /\ dialog' = [dialog EXCEPT !.accepted = TRUE]
    /\ UNCHANGED <<levelVars, panelVars, quoteVars, levelHistory, astray, detours>>

\* A dialog is closed: a dismissal unless it was accepted.  The vault's cancel
\* also resets the swap.
CloseDialog ==
    /\ dialog # NoDialog
    /\ dialog' = NoDialog
    /\ IF dialog.accepted
       THEN UNCHANGED <<status, side, executing, queue, auto, confirm, quoteVars, levelHistory>>
       ELSE Dismiss
    /\ \/ swap' = "initial"
          /\ astray' = (astray \/ (executing # None /\ swap = "pending"))
       \/ UNCHANGED <<swap, astray>>
    /\ UNCHANGED <<prices, inFlight, mounted, approval, signed, detours>>

\* The swap ends, and with it the executing level.
SwapSettles ==
    /\ swap = "pending"
    /\ \E result \in {"success", "failure"} :
        /\ swap' = result
        /\ IF executing = None
           THEN UNCHANGED <<status, executing, queue, auto, confirm, quoteVars, levelHistory>>
           ELSE TakeNext([status EXCEPT ![executing] =
                              IF result = "success" THEN "completed" ELSE "failed"])
    /\ UNCHANGED <<side, prices, inFlight, mounted, dialog, approval, signed, astray,
                   detours>>

\* onCloseTxModal: the receipt's cross, at any time.
CloseReceipt ==
    /\ Detour
    /\ swap # "initial"
    /\ swap' = "initial"
    /\ due' = (ticket # None)
    /\ astray' = (astray \/ (executing # None /\ swap = "pending"))
    /\ UNCHANGED <<levelVars, panelVars, ticket, target, quote, fetch, dialog, approval,
                   signed, levelHistory>>

\* onFinishTxModal: the button under a success also empties the ticket, and no
\* approval is followed any longer.
FinishReceipt ==
    /\ swap = "success"
    /\ swap' = "initial"
    /\ ticket' = None
    /\ quote' = None
    /\ fetch' = None
    /\ due' = FALSE
    /\ approval' = "none"
    /\ edited' = (executing # None)
    /\ requoted' = confirm
    /\ UNCHANGED <<levelVars, panelVars, target, dialog, signed, astray, unlisted,
                   detours>>

-----------------------------------------------------------------------------
Next ==
    \/ Mount
    \/ Unmount
    \/ \E i \in Orders : PlaceOrder(i) \/ RemoveLevel(i)
    \/ EditTicket
    \/ ChangeTarget
    \/ AskForPrices
    \/ \E a \in Pools : NoPriceArrives(a) \/ \E p \in Prices : PriceArrives(a, p)
    \/ AskForQuote
    \/ ApprovalConfirmed
    \/ QuoteArrives
    \/ QuoteRefused
    \/ QuoteConfirmed
    \/ TimeIsUp
    \/ \E mode \in {"swap", "approve"} : OpenOwnDialog(mode)
    \/ AcceptOnLedger
    \/ AcceptOnVault
    \/ CloseDialog
    \/ SwapSettles
    \/ CloseReceipt
    \/ FinishReceipt

\* The timer runs and a swap that was sent ends; the user need do nothing.
Fairness == WF_vars(TimeIsUp) /\ WF_vars(SwapSettles)

Spec == Init /\ [][Next]_vars /\ Fairness

-----------------------------------------------------------------------------
\* A pending level that was last seen where it fills is queued: the watcher will
\* not report that edge again, so a crossing that is neither taken up nor queued
\* would be a fill lost (crossings subscription, limitApi.finish, setWatching).
NoFillLost ==
    \A i \in Orders :
        Pending(i) /\ side[i] \in FillSide(i) => Contains(queue, i)

\* An order is signed once, and completed only if it was signed, unless the
\* panel went astray: the user's own trade or approval overlapped the order, or
\* the receipt, the vault's dialog or the chart was left while the swap was
\* pending (dismissSwap, the swap result effect, the cleanup of the chart).
FilledOnce ==
    ~ astray =>
        \A i \in Orders :
            /\ signed[i] <= 1
            /\ status[i] = "pending" => signed[i] = 0
            /\ status[i] = "completed" => signed[i] = 1

\* While the user is asked to sign a level, the ticket is the level's and a quote
\* shown is one for that very ticket; the other asset is the level's if it was on
\* the list when the level started (setSelectedTarget); and the quote is the one
\* that fills the limit, unless a confirmed approval has asked for another
\* (onApprovalConfirmed).  Not so if the user or the lists changed the ticket
\* during the wait.
SignsTheOrder ==
    (dialog.level \in Orders /\ ~ dialog.accepted /\ ~ edited /\ ~ astray) =>
        /\ dialog.level = executing
        /\ ticket = executing
        /\ target = "counter" \/ unlisted
        /\ quote # None => quote.of = ticket /\ quote.to = target
        /\ \/ requoted
           \/ /\ quote # None
              /\ \E usd \in Prices : QuoteFillsLimit(executing, quote.output, usd)

\* A level that was taken up comes to an end, so that the ones queued behind it
\* are taken up, unless a dialog is left open, the panel went astray, or a confirmed
\* approval or a receipt took the quote from under the dialog: accepting it then
\* submits nothing (onSuccess, onVultisigSuccess) and the level keeps its place.
ExecutionEnds ==
    \A i \in Orders :
        (executing = i) ~>
            (executing # i \/ dialog # NoDialog \/ astray \/ requoted)

\* What SwapConfirmationModals.tsx says of its dialogs: an order is not armed
\* again after signing.  A level that was signed does not become pending while a
\* swap is.
NotArmedAfterSigning ==
    [][\A i \in Orders :
        (signed[i] > 0 /\ status[i] = "executing" /\ swap = "pending") =>
            status'[i] # "pending"]_vars

=============================================================================
