----------------------------- MODULE FieldRegisters -----------------------------
(***************************************************************************)
(* What a store promises: a register for each field.  A save that was      *)
(* asked for takes effect at once and at most once, before it is answered, *)
(* and writes the fields it names and no other.  The promise ends when the *)
(* store can no longer be trusted (trusted).                               *)
(***************************************************************************)
CONSTANTS
    Fields,     \* fields of the store
    Values,     \* values of a field
    Clients,    \* who may have a save under way
    None        \* no save

VARIABLES
    reg,        \* value of each field
    pending,    \* the saves that have not taken effect
    trusted     \* does the promise still hold?

vars == <<reg, pending, trusted>>

Partial == UNION {[some -> Values] : some \in SUBSET Fields}

NonePending == [c \in Clients |-> None]

Init ==
    /\ reg \in [Fields -> Values]
    /\ pending = NonePending
    /\ trusted = TRUE

Request(c) ==
    /\ pending[c] = None
    /\ \E partial \in Partial : pending' = [pending EXCEPT ![c] = partial]
    /\ UNCHANGED <<reg, trusted>>

Save(c) ==
    /\ pending[c] # None
    /\ reg' = [f \in Fields |->
                  IF f \in DOMAIN pending[c] THEN pending[c][f] ELSE reg[f]]
    /\ pending' = [pending EXCEPT ![c] = None]
    /\ UNCHANGED trusted

\* A save is refused.
Refuse(c) ==
    /\ pending[c] # None
    /\ pending' = [pending EXCEPT ![c] = None]
    /\ UNCHANGED <<reg, trusted>>

Restart ==
    /\ pending' = NonePending
    /\ UNCHANGED <<reg, trusted>>

Distrust ==
    /\ trusted' = FALSE
    /\ reg' \in [Fields -> Values]
    /\ pending' \in [Clients -> Partial \cup {None}]

Next ==
    \/ \E c \in Clients : Request(c) \/ Save(c) \/ Refuse(c)
    \/ Restart
    \/ Distrust

Spec == Init /\ [][Next]_vars

=============================================================================
