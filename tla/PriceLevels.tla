------------------------------ MODULE PriceLevels ------------------------------
(***************************************************************************)
(* The price level service (services/priceLevel): the limit orders of one  *)
(* chart, polls of the pools' prices and the crossings they report.        *)
(*                                                                         *)
(* A level is an element of Orders, numbered as the levels are added; what *)
(* is constant about it is a function of its number.  Prices are natural   *)
(* numbers.  The price a level was last compared with is kept as the side  *)
(* of the level's limit it was on, which is all a crossing depends on.     *)
(***************************************************************************)
EXTENDS Integers, FiniteSets, Sequences, SequencesExt

CONSTANTS
    Orders,     \* the levels the user may add, a bound
    Type,       \* level.type of each: "buy" or "sell"
    Unit,       \* level.unit of each: "usd" or "pair"
    Limit,      \* level.price of each
    Prices      \* what a pool may be worth

ASSUME OrdersAssumption ==
    /\ Orders \subseteq Nat /\ IsFiniteSet(Orders)
    /\ Type \in [Orders -> {"buy", "sell"}]
    /\ Unit \in [Orders -> {"usd", "pair"}]
    /\ Limit \in [Orders -> Nat \ {0}]
    /\ Prices \subseteq Nat \ {0}

\* The pool of the chart and the pool of the other asset of every level.
Pools == {"own", "counter"}
Unknown == 0

VARIABLES
    status,     \* level.status, "none" before it is added, "removed" after
    side,       \* prevByLevel and seenLevels: the side of the limit
    prices,     \* prices$
    inFlight    \* the requests under way

levelVars == <<status, side, prices, inFlight>>

Statuses == {"none", "pending", "executing", "completed", "failed", "paused", "removed"}
Sides == {"unseen", "below", "at", "above"}

LevelsTypeOK ==
    /\ status \in [Orders -> Statuses]
    /\ side \in [Orders -> Sides]
    /\ prices \in [Pools -> Prices \cup {Unknown}]
    /\ inFlight \subseteq Pools

LevelsInit ==
    /\ status = [i \in Orders |-> "none"]
    /\ side = [i \in Orders |-> "unseen"]
    /\ prices = [a \in Pools |-> Unknown]
    /\ inFlight = {}

-----------------------------------------------------------------------------
\* levelComparablePrice, and where it lies: "unseen" if it cannot be computed.
SideOf(i, known) ==
    LET counter == IF Unit[i] = "pair" THEN known["counter"] ELSE 1
        limit == Limit[i] * counter
    IN  IF known["own"] = Unknown \/ counter = Unknown THEN "unseen"
        ELSE IF known["own"] < limit THEN "below"
        ELSE IF known["own"] = limit THEN "at" ELSE "above"

\* A buy fills at the limit or below, a sell at the limit or above.
FillSide(i) == IF Type[i] = "buy" THEN {"at", "below"} ELSE {"at", "above"}

\* priceCrossesLevel.
Crosses(i, before, now) ==
    now \in FillSide(i) /\ (before = "unseen" \/ before \notin FillSide(i))

Pending(i) == status[i] = "pending"

\* nextCrossings: the levels hit.
Hits(known) == {i \in Orders : Pending(i) /\ Crosses(i, side[i], SideOf(i, known))}

\* Levels in the order in which they were added: a set with one member.
InOrder(levels) ==
    {q \in [1 .. Cardinality(levels) -> levels] :
        /\ \A i \in levels : Contains(q, i)
        /\ \A m, n \in DOMAIN q : m < n => q[m] < q[n]}

NextSides(known) ==
    [i \in Orders |-> IF Pending(i) /\ SideOf(i, known) # "unseen"
                      THEN SideOf(i, known) ELSE side[i]]

\* assetsToPoll: every level needs the other asset too, a usd level for its
\* quote.
AssetsToPoll == IF \E i \in Orders : Pending(i) THEN Pools ELSE {}

-----------------------------------------------------------------------------
\* The operations, as the values they give status and side.

OpenLevel(i) == status[i] \notin {"none", "completed", "failed", "removed"}

SameOrder(i, j) == Type[i] = Type[j] /\ Limit[i] = Limit[j]

\* addPriceLevel and addLevel: a level like an open one is not added, be it in
\* another unit.
AddLevel(i) ==
    /\ status[i] = "none"
    /\ \A j \in Orders : j < i => status[j] # "none"
    /\ ~ \E j \in Orders : OpenLevel(j) /\ SameOrder(i, j)
    /\ status' = [status EXCEPT ![i] = "pending"]
    /\ UNCHANGED <<side, prices, inFlight>>

Removable(i) == status[i] \in {"pending", "paused", "completed", "failed"}

\* setWatching.
Resumed(s) == [i \in Orders |-> IF s[i] = "paused" THEN "pending" ELSE s[i]]
Paused(s) == [i \in Orders |-> IF s[i] = "pending" THEN "paused" ELSE s[i]]
Forgotten(s, from) == [i \in Orders |-> IF s[i] = from THEN "unseen" ELSE side[i]]

\* poll: the request of a pool is not repeated before it is answered.
Poll ==
    /\ ~ AssetsToPoll \subseteq inFlight
    /\ inFlight' = inFlight \cup AssetsToPoll
    /\ UNCHANGED <<status, side, prices>>

\* The first half of publishPrice; the hits are left to the subscriber.
Publish(a, known) ==
    /\ a \in inFlight
    /\ inFlight' = inFlight \ {a}
    /\ prices' = known

\* The answer is a failure or no price, or it takes longer than FETCH_TIMEOUT_MS.
FetchFails(a) ==
    /\ a \in inFlight
    /\ inFlight' = inFlight \ {a}
    /\ UNCHANGED <<status, side, prices>>

=============================================================================
