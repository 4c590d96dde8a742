---------------------------- MODULE OneTimeImport ----------------------------
(***************************************************************************)
(* What main/api/storageMigration.ts promises, for one store (keystore     *)
(* wallets or Vultisig vaults) of the Flatpak sandbox: the host's wallets  *)
(* appear in the sandbox at once and at most once, never in the place of   *)
(* wallets the user already has there.                                     *)
(***************************************************************************)
CONSTANT Wallets

VARIABLES
    sandbox,   \* wallets the app sees
    done,      \* the import will not be tried again
    trusted,   \* every read and every removal of files has worked so far
    offers     \* contents the host's stores have had so far

vars == <<sandbox, done, trusted, offers>>

Init ==
    /\ sandbox \in SUBSET Wallets
    /\ done = FALSE
    /\ trusted = TRUE
    /\ offers \in SUBSET SUBSET Wallets

Import ==
    /\ ~done /\ sandbox = {}
    /\ sandbox' \in offers \ {{}}
    /\ done' = TRUE
    /\ UNCHANGED <<trusted, offers>>

Skip ==
    /\ sandbox # {}
    /\ done' = TRUE
    /\ UNCHANGED <<sandbox, trusted, offers>>

UserChanges ==
    /\ \E w \in Wallets : sandbox' = sandbox \cup {w} \/ sandbox' = sandbox \ {w}
    /\ UNCHANGED <<done, trusted, offers>>

HostChanges ==
    /\ \E content \in SUBSET Wallets : offers' = offers \cup {content}
    /\ UNCHANGED <<sandbox, done, trusted>>

\* Nothing is promised once a file could not be read or removed.
Distrust == ~trusted'

Next == Import \/ Skip \/ UserChanges \/ HostChanges \/ Distrust

Spec == Init /\ [][Next]_vars
=============================================================================
