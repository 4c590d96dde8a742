--------------------------- MODULE StorageMigration ---------------------------
(***************************************************************************)
(* main/api/storageMigration.ts: the import of the host's wallets (or of   *)
(* its Vultisig vaults: the two functions have the same steps on           *)
(* different files) when the app starts inside a Flatpak sandbox.  One     *)
(* action per file operation, so that the app may crash between any two    *)
(* and every operation may fail.                                           *)
(*                                                                         *)
(* A directory is the set of wallets it holds, whether it has the marker   *)
(* file, and whether it is whole (not a copy cut short).                   *)
(***************************************************************************)
EXTENDS Naturals, FiniteSets

CONSTANTS
    Wallets,        \* wallets, or vaults
    Native,         \* the native install's store on the host
    Legacy,         \* the store of the legacy Flatpak id
    MaxCrashes,     \* bound: crashes
    MaxFailures,    \* bound: failing file operations
    MaxChanges      \* bound: changes of the host's stores

Hosts == {Native, Legacy}

ASSUME HostsAssumption == Native # Legacy
ASSUME MigrationBoundsAssumption ==
    MaxCrashes \in Nat /\ MaxFailures \in Nat /\ MaxChanges \in Nat

VARIABLES
    phase,     \* next step of the import, "running" or "off"
    dest,      \* the sandbox's live store
    staging,   \* the sibling staging directory
    hosts,     \* the host's stores and their modification times
    source,    \* the store selectHostStorageSource chose
    crashes, failures, changes,
    misread,   \* history: a store with wallets was taken for an empty one
    torn,      \* history: a removal of staging began and may not have ended
    offers,    \* history: contents the host's stores have had
    imports    \* history: staging trees made live

history == <<misread, torn, offers, imports>>
bounds == <<crashes, failures, changes>>
migrationVars == <<phase, dest, staging, hosts, source, bounds, history>>

MigrationPhases == {"off", "begin", "skipping", "selecting", "recovering",
           "promoteRemove", "promoteMove", "promoteFailed", "discarding",
           "copying", "copied", "removing", "moving", "cleanup", "running"}

Dir == [wallets : SUBSET Wallets, marker : BOOLEAN, whole : BOOLEAN]
Absent == [wallets |-> {}, marker |-> FALSE, whole |-> TRUE]

MigrationTypeOK ==
    /\ phase \in MigrationPhases
    /\ dest \in Dir
    /\ staging \in [wallets : SUBSET Wallets, marker : BOOLEAN,
                    whole : BOOLEAN, there : BOOLEAN]
    /\ hosts \in [Hosts -> [wallets : SUBSET Wallets, mtime : Nat]]
    /\ source \in Hosts
    /\ crashes \in Nat /\ failures \in Nat /\ changes \in Nat
    /\ misread \in BOOLEAN /\ torn \in BOOLEAN
    /\ offers \in SUBSET SUBSET Wallets
    /\ imports \in Nat

NoStaging == [wallets |-> {}, marker |-> FALSE, whole |-> TRUE, there |-> FALSE]

MigrationInit ==
    /\ phase = "off"
    /\ dest \in {[Absent EXCEPT !.wallets = ws] : ws \in SUBSET Wallets}
    /\ staging = NoStaging
    /\ hosts \in [Hosts -> [wallets : SUBSET Wallets, mtime : 0 .. 1]]
    /\ \E h \in Hosts : hosts[h].mtime = 1  \* only their order matters
    /\ source = Native
    /\ crashes = 0 /\ failures = 0 /\ changes = 0
    /\ misread = FALSE /\ torn = FALSE
    /\ offers = {hosts[h].wallets : h \in Hosts}
    /\ imports = 0

Go(from, to) == phase = from /\ phase' = to

FailTo(from, to) ==
    /\ Go(from, to)
    /\ failures < MaxFailures
    /\ failures' = failures + 1

-----------------------------------------------------------------------------
(* migrateHostStorageIntoFlatpak                                           *)

Start ==
    /\ Go("off", "begin")
    /\ UNCHANGED <<dest, staging, hosts, source, bounds, history>>

AlreadyDone ==
    /\ Go("begin", "running")
    /\ dest.marker
    /\ UNCHANGED <<dest, staging, hosts, source, bounds, history>>

SandboxHasWallets ==
    /\ Go("begin", "skipping")
    /\ ~dest.marker /\ dest.wallets # {}
    /\ UNCHANGED <<dest, staging, hosts, source, bounds, history>>

SandboxEmpty ==
    /\ Go("begin", "selecting")
    /\ ~dest.marker /\ dest.wallets = {}
    /\ UNCHANGED <<dest, staging, hosts, source, bounds, history>>

\* hasWallets answers false on any read problem.
SandboxMisread ==
    /\ FailTo("begin", "selecting")
    /\ ~dest.marker /\ dest.wallets # {}
    /\ misread' = TRUE
    /\ UNCHANGED <<dest, staging, hosts, source, crashes, changes, torn, offers,
                   imports>>

WriteSkipMarker ==
    /\ Go("skipping", "running")
    /\ dest' = [dest EXCEPT !.marker = TRUE]
    /\ UNCHANGED <<staging, hosts, source, bounds, history>>

\* rankCandidates: the newest, the legacy one on equal times.
Newest(candidates) ==
    CHOOSE h \in candidates :
       \A g \in candidates \ {h} :
          \/ hosts[h].mtime > hosts[g].mtime
          \/ hosts[h].mtime = hosts[g].mtime /\ h = Legacy

WithWallets == {h \in Hosts : hosts[h].wallets # {}}

Select ==
    /\ Go("selecting", "recovering")
    /\ WithWallets # {}
    /\ source' = Newest(WithWallets)
    /\ UNCHANGED <<dest, staging, hosts, bounds, history>>

NothingToImport ==
    /\ Go("selecting", "running")
    /\ WithWallets = {}
    /\ UNCHANGED <<dest, staging, hosts, source, bounds, history>>

\* A host's store that cannot be read is passed over.
HostMisread(h) ==
    /\ h \in WithWallets
    /\ IF WithWallets = {h}
       THEN FailTo("selecting", "running") /\ UNCHANGED source
       ELSE /\ FailTo("selecting", "recovering")
            /\ source' = Newest(WithWallets \ {h})
    /\ misread' = TRUE
    /\ UNCHANGED <<dest, staging, hosts, crashes, changes, torn, offers, imports>>

-----------------------------------------------------------------------------
(* importHostDirAtomically                                                 *)

\* Mutant of Recover: a leftover staging directory is promoted, marker or not.
RecoverAnything ==
    /\ \/ Go("recovering", "promoteRemove") /\ staging.there
       \/ Go("recovering", "copying") /\ ~staging.there
    /\ UNCHANGED <<dest, staging, hosts, source, bounds, history>>

\* Mutant of Recover: an incomplete staging directory ends the import.
RecoverGivesUp ==
    /\ \/ Go("recovering", "promoteRemove") /\ staging.there /\ staging.marker
       \/ Go("recovering", "running") /\ staging.there /\ ~staging.marker
       \/ Go("recovering", "copying") /\ ~staging.there
    /\ UNCHANGED <<dest, staging, hosts, source, bounds, history>>

Recover ==
    /\ \/ Go("recovering", "promoteRemove") /\ staging.there /\ staging.marker
       \/ Go("recovering", "discarding") /\ staging.there /\ ~staging.marker
       \/ Go("recovering", "copying") /\ ~staging.there
    /\ UNCHANGED <<dest, staging, hosts, source, bounds, history>>

RemoveDest ==
    /\ Go("promoteRemove", "promoteMove") \/ Go("removing", "moving")
    /\ dest' = Absent
    /\ UNCHANGED <<staging, hosts, source, bounds, history>>

\* Rename within one directory: atomic.
Move ==
    /\ Go("promoteMove", "running") \/ Go("moving", "running")
    /\ dest' = [wallets |-> staging.wallets, marker |-> staging.marker,
                whole |-> staging.whole]
    /\ staging' = NoStaging
    /\ imports' = imports + 1
    /\ UNCHANGED <<hosts, source, bounds, misread, torn, offers>>

\* Mutant of DiscardStaging: what an interrupted import left is kept.
KeepStaging ==
    /\ Go("promoteFailed", "copying") \/ Go("discarding", "copying")
    /\ UNCHANGED <<dest, staging, hosts, source, bounds, history>>

DiscardStaging ==
    /\ Go("promoteFailed", "copying") \/ Go("discarding", "copying")
    /\ staging' = NoStaging
    /\ UNCHANGED <<dest, hosts, source, bounds, history>>

\* fs.copy into what is there; cut short when the app crashes or it fails.
BeginCopy ==
    /\ phase = "copying" /\ staging.whole
    /\ \E part \in SUBSET hosts[source].wallets :
          staging' = [staging EXCEPT !.there = TRUE, !.whole = FALSE,
                                     !.wallets = @ \cup part]
    /\ UNCHANGED <<phase, dest, hosts, source, bounds, history>>

\* Mutant of EndCopy: the marker is written before the copy is complete.
EndCopyMarkedEarly ==
    /\ phase = "copying"
    /\ ~staging.whole
    /\ IF staging.marker
       THEN /\ phase' = "copied"
            /\ staging' = [staging EXCEPT !.whole = TRUE,
                              !.wallets = @ \cup hosts[source].wallets]
       ELSE /\ UNCHANGED phase
            /\ staging' = [staging EXCEPT !.marker = TRUE]
    /\ UNCHANGED <<dest, hosts, source, bounds, history>>

EndCopy ==
    /\ Go("copying", "copied")
    /\ ~staging.whole
    /\ staging' = [staging EXCEPT !.whole = TRUE,
                                  !.wallets = @ \cup hosts[source].wallets]
    /\ UNCHANGED <<dest, hosts, source, bounds, history>>

WriteStagingMarker ==
    /\ Go("copied", "removing")
    /\ staging' = [staging EXCEPT !.marker = TRUE]
    /\ UNCHANGED <<dest, hosts, source, bounds, history>>

Cleanup ==
    /\ Go("cleanup", "running")
    /\ staging' = NoStaging
    /\ UNCHANGED <<dest, hosts, source, bounds, history>>

\* fs.remove of the staging directory has removed a part of it, in any order;
\* what follows is the rest of it (DiscardStaging, Cleanup), its failure or a
\* crash.
TearStaging ==
    /\ phase \in {"promoteFailed", "discarding", "cleanup"} /\ UNCHANGED phase
    /\ staging.there /\ staging.whole
    /\ \E part \in SUBSET staging.wallets, left \in {staging.marker, FALSE} :
          staging' = [staging EXCEPT !.wallets = part, !.marker = left,
                                     !.whole = FALSE]
    /\ torn' = TRUE
    /\ UNCHANGED <<dest, hosts, source, bounds, misread, offers, imports>>

-----------------------------------------------------------------------------
(* A file operation fails.  A failure while promoting falls through to a   *)
(* fresh copy, one while discarding or marking ends the import, any other  *)
(* cleans up first.                                                        *)
Fails ==
    /\ \/ FailTo("promoteRemove", "promoteFailed")
       \/ FailTo("promoteMove", "promoteFailed")
       \/ \E from \in {"copying", "copied", "removing", "moving"} :
             FailTo(from, "cleanup")
       \/ \E from \in {"skipping", "discarding"} : FailTo(from, "running")
    /\ UNCHANGED <<dest, staging, hosts, source, crashes, changes, history>>

\* A failure to remove the staging directory itself is swallowed.
RemovalFails ==
    /\ FailTo("promoteFailed", "copying") \/ FailTo("cleanup", "running")
    /\ torn' = TRUE
    /\ UNCHANGED <<dest, staging, hosts, source, crashes, changes, misread,
                   offers, imports>>

Crash ==
    /\ phase # "off" /\ phase' = "off"
    /\ crashes < MaxCrashes
    /\ crashes' = crashes + 1
    /\ UNCHANGED <<dest, staging, hosts, source, failures, changes, history>>

-----------------------------------------------------------------------------
(* The rest of the world: the user of the sandboxed app, and the native or *)
(* legacy app writing its own store while this one is not migrating.       *)

UserChanges ==
    /\ phase = "running" /\ UNCHANGED phase
    /\ \E w \in Wallets :
          \/ dest' = [dest EXCEPT !.wallets = @ \cup {w}]
          \/ dest' = [dest EXCEPT !.wallets = @ \ {w}]
    /\ UNCHANGED <<staging, hosts, source, bounds, history>>

QuitApp ==
    /\ Go("running", "off")
    /\ UNCHANGED <<dest, staging, hosts, source, bounds, history>>

HostChanges ==
    /\ phase = "off" /\ UNCHANGED phase
    /\ changes < MaxChanges
    /\ changes' = changes + 1
    /\ \E h \in Hosts, ws \in SUBSET Wallets :
          /\ hosts' = [hosts EXCEPT ![h] = [wallets |-> ws, mtime |-> changes + 2]]
          /\ offers' = offers \cup {ws}
    /\ UNCHANGED <<dest, staging, source, crashes, failures, misread, torn,
                   imports>>

Step ==
    \/ AlreadyDone \/ SandboxHasWallets \/ SandboxEmpty \/ WriteSkipMarker
    \/ Select \/ NothingToImport \/ Recover \/ RemoveDest \/ Move
    \/ DiscardStaging \/ BeginCopy \/ EndCopy \/ WriteStagingMarker \/ Cleanup

Fault ==
    \/ SandboxMisread \/ (\E h \in Hosts : HostMisread(h))
    \/ TearStaging \/ Fails \/ RemovalFails \/ Crash

MigrationNext == Start \/ Step \/ Fault \/ UserChanges \/ QuitApp \/ HostChanges

MigrationSpec == MigrationInit /\ [][MigrationNext]_migrationVars

\* The import runs on, and a user who found no wallets tries again.
MigrationFairSpec ==
    /\ MigrationSpec
    /\ WF_migrationVars(Step) /\ WF_migrationVars(Start) /\ WF_migrationVars(QuitApp)

-----------------------------------------------------------------------------
(* No step of the import, and no crash in it, takes away a wallet of the   *)
(* sandbox, unless its store could not be read.                            *)
NeverOverwrites ==
    [][dest.wallets \subseteq dest'.wallets \/ UserChanges \/ misread]_migrationVars

(* storageMigration.ts:225 "a half-copied tree never becomes live", unless *)
(* the removal of a staging directory was cut short.                       *)
HalfCopyNeverLive == dest.whole \/ torn

(* A fresh import brings in the wallets of the newest store of the host    *)
(* and nothing else: nothing of an earlier, interrupted import is mixed    *)
(* into it.                                                                *)
FreshImportIsNewest ==
    [][phase = "moving" /\ Move =>
          \/ dest'.wallets = hosts[Newest(WithWallets)].wallets
          \/ misread \/ torn]_migrationVars

(* storageMigration.ts:10 "so the migration never repeats": once a tree was *)
(* imported, whatever failed on the way, it carries the marker, and        *)
(* nothing is ever imported again.                                         *)
NeverRepeats ==
    /\ imports <= 1
    /\ imports = 1 => dest.marker

(* The marker closes the store to the import for good, whatever fails: only *)
(* the user changes a store that has it.                                   *)
MarkedIsLeftAlone ==
    [][dest.marker => dest'.marker /\ (dest'.wallets = dest.wallets \/ UserChanges)]_migrationVars

(* The host's wallets reach the sandbox: failures and crashes delay the    *)
(* import, a store left behind by one never blocks it.                     *)
EventuallyDone == (WithWallets # {} /\ changes = MaxChanges) ~> dest.marker

Promise == INSTANCE OneTimeImport
             WITH sandbox <- dest.wallets, done <- dest.marker, offers <- offers,
                  trusted <- ~misread /\ ~torn

(* Seen from the app, the import is one atomic step that happens at most   *)
(* once and only into an empty store.                                      *)
ImplementsPromise == Promise!Spec

(* What storageMigration.ts:285, "the sandbox has no wallets yet (never    *)
(* overwrite real sandbox data)", would promise: a store with wallets is   *)
(* never replaced.  It does not hold when wallets.json is there and cannot *)
(* be read, which is why the promise of the import ends with misread.      *)
SandboxDataIsKept ==
    [][dest.wallets \subseteq dest'.wallets \/ UserChanges]_migrationVars
=============================================================================
