# ASGARDEX: TLA+ verification of the wallet and trading core

ASGARDEX is an Electron desktop wallet. Its *main process* owns the files, the
Vultisig (MPC) SDK and the Ledger transport; its *renderer* holds the wallet
state in RxJS observables and calls the main process over IPC. Both are
JavaScript: a handler runs uninterrupted to its next `await`, and everything
else happens in between. What is hard to test here is therefore what another
call does during an `await`, what a late answer overwrites, and what a crash or
a failing call leaves behind. That is what these modules are about.

All line references are to the repository.

## 1. Inventory

### Main process

| Component | State | Operations | Hard behaviours | Correct when |
|---|---|---|---|---|
| Vultisig SDK singleton, `main/api/mpc/sdk.ts` | `sdkInstance`, `initPromise`, `_disposing` | `initializeSDK`, `getSDK`, `disposeSDK` | initialisations that overlap each other and disposals | one live instance, never a disposed one handed out, every call answered |
| Signing handlers, `main/api/mpc/index.ts` | `signingControllers` (vault -> AbortController) | sign bytes, send tx, cancel, dispose, cancel keygen | a `finally` that runs after the next session registered; cancel against broadcast | one session per vault, aborts reach it, the vault becomes free |
| Vault management handlers, same file | none (the SDK's) | list, create, import, export, rename, delete | - | they pass through to the SDK |
| Flatpak import, `main/api/storageMigration.ts` | two directories, a staging directory, a marker file | import of the host's wallets and vaults at the start | a crash or a failure between any two file operations | all or nothing, at most once, never over existing wallets |
| Keystore files, `main/api/keystore.ts` | `wallets.json`, legacy `keystore.json` | load, save, migration of the legacy file | a crash between the steps of the migration | no wallet is lost |
| File store, `main/api/fileStore.ts` | one JSON file per store | get, partial save (read, merge, truncate, write), rewriting of retired URLs | overlapping saves, unreadable files, a write cut short | each field is a register |
| Ledger access, `main/api/ledger/*`, `hdwallet.ts` | `ledgers.json` | address, sign, verify per chain; read and write the list | a device that answers late, overlapping writes | no state but the address list |
| Shell, updates, Liquify access | windows | I/O | - | not modelled |

### Renderer

| Component | State | Operations | Hard behaviours | Correct when |
|---|---|---|---|---|
| Keystore service, `services/wallet/keystore.ts` | current wallet, wallet list, import state | add, import, remove, change, rename, lock, unlock | lists computed before a save and assigned after it; ignored refusals; unsubscribed views | memory, list and file agree; the current wallet is in the list |
| App wallet, `services/wallet/appWallet.ts` | mode and what it shows, `_modeTransitioning` | switches, restoration, two subscriptions | emissions dropped during a switch; subscriptions that overwrite a mode | the app shows the service it is in, one wallet unlocked |
| Vault manager, `services/wallet/vaultManager.ts` | phase, vaults, active vault, addresses | load, select, unlock, lock, create, import, delete | `getAddresses` answered after the user went on | the addresses are the active vault's |
| Standalone Ledger, `services/wallet/standaloneLedger.ts` | phase, chosen chain and path, connected chain, address | detection with retries, reset, enter, exit | retry loops that outlive their cancellation | what is found is what was chosen; the wait ends |
| Ledger addresses, `services/wallet/ledger.ts` | list keyed by keystore, chain, network, derivation; the load of the stored list | ask the device, add, remove, load and retry, removal of a keystore | overlapping saves, a change before the load, a device that answers when its keystore has gone | one address per derivation, the file holds the list, none outlives its keystore |
| Keystore HD scan and settings | per keystore and chain | scan with a gap limit, choose | a scan that outlives its keystore | settings belong to their keystore |
| Common storage, `services/storage/common.ts` | cache of the file store's answers | partial save | answers out of order | the cache is the file, what was answered is kept |
| List stores, `services/storage/*.ts`: addresses, nodes, tokens, bond providers; watchlist; favourites | the list of the network, queued saves | add, remove, toggle | a change before the load, during a save, after a failed one | the list and the file have every change |
| Transaction trackers (THORChain and MAYAChain, Chainflip, 1Click) | tracked transactions and their stages, a chain of requests for each | add, poll, stop, remove, cleanup | a reload drops and restarts all polls; removal by age | one chain per unfinished transaction; the screens show the map; polling ends |
| Price levels, `services/priceLevel` | levels, last prices | poll, cross, pause, re-arm | prices equal to a level, two levels in one poll | every crossing is reported once |
| Limit order panel, `views/pools/detail/TradingPanel.tsx` | the level being executed, queue of crossings, ticket, quote, dialogs, swap | take up, quote, time out, ask, sign, follow, re-arm | late quotes, the user's own trades in the same panel, leaving the chart | no fill lost, none signed twice, what is signed is the order |
| Lazy chain modules | cache of loads | load | concurrent first loads | one load per chain |
| Balances, pools, fees, swaps, clients, Redux, screens | caches of remote data | fetch, show | arithmetic of libraries | not modelled |

### How they interact

```
 screens ──calls──> appWallet ──> vaultManager ──IPC──> mpc/index ──> mpc/sdk ──> Vultisig SDK
                      │  ^              │ emits                 (signingControllers)
                      │  └── vultisigSub┘
                      │  ┌── keystoreSub┐
                      v  │              │ emits
                 standaloneLedger    keystore ──IPC──> main/api/keystore ──> wallets.json
                      │                 │                                      ^
                      └──IPC──> ledger  └─ lastOpenedWallet ─> storage/common  │ before any window:
                                             └──IPC──> fileStore               │ storageMigration
```

A write of an `observableState` notifies its subscribers *synchronously*: the two
subscriptions of `appWallet.ts` run inside the step that writes. IPC answers,
timers and file operations are the points where other code runs.

```
 toggles, settings ──> list stores ──IPC──> fileStore (one file per list)
 settings ──> services/wallet/ledger ──IPC──> ledger/storage ──> ledgers.json
                     ^ keystoreWallets$
 pool prices ──> priceLevelService ──crossings──> TradingPanel ──> quotes, dialogs, swap
                                                       │ submitted swaps
                                                       v
                                               transaction trackers ──poll──> nodes
```

`PROJECT.json` lists every component with its status, and every hazard of this
code at the line where it bites.

## 2. What each module models

### MpcSdk (`main/api/mpc/sdk.ts`)

One member of `Calls` per call of `initializeSDK`, which stands also for the
promise it makes and the instance it constructs. The three module-level
variables are `sdkInstance`, `initPromise`, `disposing`. `InitReturnsLive`,
`InitJoins` and `InitStarts` are the three ways through the function before its
first `await`; `Construct`, `Publish`, `Discard`, `InitFails` the rest of it;
`Dispose` is `disposeSDK`. A promise's own continuation and those of the calls
that joined it are microtasks of one macrotask, so `Resolve` and `Reject` settle
them in one step. `import()` and `initialize()` are external and settle either way.

### MpcSigning (`main/api/mpc/index.ts`)

A session is one MPC_SIGN_BYTES or MPC_SEND_TX call. `Begin` is the handler to
its first `await` (the vault), `Register`/`Refuse` the test of
`signingControllers` after it, `Prepared`, `SignedBytes`, `SignedTx`,
`Broadcast`, `Fail` the rest, each with the `finally` (`Release`) that removes
only the session's own entry. `Cancel`, `Dispose`, `CancelKeygen` are the other
handlers that touch the map or the SDK. The SDK is external: any call of it may
fail, and a sign call whose signal is aborted does not succeed. The content of
transactions is left out.

### Keystore (`services/wallet/keystore.ts`, `util.ts`, load and save of `main/api/keystore.ts`)

Each call occupies a slot and is split where the code awaits; the slot holds
what the closure holds: the list computed *before* the save, the id and name
read *before* the decryption. `Open` and `Fill` are the two halves of `fs.outputJSON` in
the main process, which truncates `wallets.json` before it fills it; `SaveFails` is
a save refused before the truncation or after it, and two saves that fill the file
at once can leave what does not parse. The file is absent, empty, JSON or not JSON.
`Added`, `Removed`, `Changed`, `ChangeRefused`, `RenameDone` handle the answer,
which for add, remove and rename does not look at a refusal;
`Unsubscribe` is a view that goes away while its observable is under way. `Read`,
`OpenEmpty`, `FillEmpty`, `LoadFails`, `Loaded` are the load at the start
(`initKeystoreWallets`, `keystoreWalletsPersistent$`; an empty list is saved at
once), `Reload` the retry that `AppView` offers, and `Quit` ends the app at any
point. An encrypted keystore is determined by its id and is not modelled separately.

### StorageMigration and OneTimeImport (`main/api/storageMigration.ts`)

One action per file operation of `migrateHostStorageIntoFlatpak` and
`importHostDirAtomically` (the import of vaults takes the same steps on other
directories). `Fails`, `RemovalFails`, `TearStaging`, `SandboxMisread`,
`HostMisread` and `Crash` are the faults: an operation fails, a recursive removal
stops half way, a file that is there cannot be read, the app dies. A directory is
the wallets in it, whether it has the marker, and whether it is whole.
`OneTimeImport` is what the file promises, in five actions: the wallets appear
at once, at most once, into an empty store only. It promises nothing once a file
could not be read or a removal was cut short (`trusted`); that is where the code
really gives no guarantee.

### AppWallet (`services/wallet/appWallet.ts`, `vaultManager.ts`)

The composition of the modes, the vault manager and the emissions of the
keystore service. A call is the sequence of steps it has left: `calls[s]`. Steps
in `Awaits` wait for the main process; the others are run one after the other by
the call named in `running` before anything else happens, as JavaScript does.
`Emit` is a write of `keystoreState` with the `keystoreSub` subscription it
triggers, `SetVultisig` one of `vultisigState` with `vultisigSub`. `Throw` is an
exception: only `enterStandaloneMode` catches one, and then the switch goes on at
`entered`. The keystore's own calls are here what they emit (module Keystore has
them in full). A vault's addresses are represented by the vault they belong to.

The last opened wallet is in three places: `saved` in the file of the common
storage, `cached` in the renderer's copy of it, and `saves` on its way there.
`saveLastOpenedWallet` only sends (`Send`); nobody waits for the answer. `SaveEnds`
is the end of any of the saves in flight, in any order: it wrote, or it was refused
before or after it emptied the file, which then reads as the default, and two saves
that met can spoil each other. `StorageLoads` is the first answer of the common
storage, which the restoration does not wait for. FileStore has that file in full.

### StandaloneLedger (`services/wallet/standaloneLedger.ts`)

Each `detectLedgerDevices` is a detection in a slot. It asks the device
(`asking`) or waits for its timer (`sleeping`); `Found`, `TryAgain`, `Wake`,
`GiveUp` are the loop. The loop looks at the shared phase only, so a cancelled
detection can go on once a new one has set the phase again. `Wake` re-reads the
path from the state, as the code does. `SetSelectedChain` is the write by
`useSwapAddresses`. HD mode, account and index are one `path`.

### FileStore, FieldRegisters and CommonStorage (`main/api/fileStore.ts`, `services/storage/common.ts`)

`FileStore` is one file and the calls of its handlers. A call is a record in a
slot with its kind, where it is, what it was given and what it is about to write
or answer. `Check`, `Read`, `Open`, `Fill` are the file operations between two
awaits: `isFileExist`, `fs.readJSON` with the migration of retired URLs, and the
two halves of `fs.writeJSON`, which truncates before it writes. `Obtained` is the
return of `getFileContent`, where a save goes on to merge and write. `CheckFails`,
`ReadFails`, `OpenFails`, `FillFails` are the operations failing and `Dies` the end
of the app. A file is absent, empty, JSON or not JSON; what does not parse is the
defaults. URLs are three values: a plain one, a retired one, its replacement.

`CommonStorage` extends it with the renderer's cache (`ModifyStorage`, `Answered`,
`Rejected`) and the reads by the main process for the Ledger clients
(`ReadByLedger`). `FieldRegisters` is what a store promises: a register for each
field, written at once and at most once by each save before it is answered.
`Registers` maps the file to it: a register is what is being written, or else what
a get would return; a save is pending until its own write opens the file.

### ListStores (`services/storage/*.ts`)

The file store again, with one list in it, and the three disciplines of its
clients in the variable `client`: `ChangeAddresses` computes from the last answer
and shows the answer; `ChangeWatchlist` shows and sends at once;
`ToggleFavourite` shows at once, keeps what was changed before the load
(`pending`, replayed by `FinishHydration`), and sends one save at a time
(`queue`, `createSaveQueue`).

### PriceLevels and LimitOrders (`services/priceLevel/*`, `TradingPanel.tsx`, `SwapConfirmationModals.tsx`)

`PriceLevels` has the algorithm of `crossings.ts` as operators (`SideOf`,
`Crosses`, `Hits`, `InOrder`, `NextSides`, `AssetsToPoll`) and the service's polls.
The last price of a level is kept as the side of the limit it was on, which is all
a crossing depends on. `LimitOrders` extends it with the panel: `TakeUp` is the
subscription to the crossings, `Start`, `TakeNext`, `Fail`, `Rearm`, `Dismiss` are
`limitApi`, `AskForQuote`, `QuoteArrives`, `QuoteRefused`, `QuoteConfirmed`, `TimeIsUp` the effects
that wait for a quote, `AcceptOnLedger`, `AcceptOnVault`, `CloseDialog`,
`SwapSettles`, `CloseReceipt`, `FinishReceipt` the dialogs and the swap, `Mount`
and `Unmount` the chart. `target` is the other asset of the ticket: `SelectTarget`
sets it to that of the level only if it is among the assets on offer, and
`ChangeTarget` is the user, the settlement or the list of assets changing it.
`FetchQuote` asks for what is on the ticket, or drops the quote if no protocol can
give one, and then an older request may still be answered. An approval that is
confirmed (`ApprovalConfirmed`) fetches at once, though a dialog is open and
`pauseQuoteRefresh` holds back everything else. The user's own trades, approvals and
edits are in the same panel and are actions too, at most `MaxDetours` of them.

### TransactionTracking (three `transactionTracking.ts`)

One of the three services in `tracker`: `rows` is the map, `shown` what was
emitted last, `chains` how many chains of requests a transaction has. `Reload`
drops all chains and starts one for each active transaction, and it is part of
every handler that triggers it. `PollSucceeds`, `PollFails` are the answers,
`Continue` what follows one (age limit, completion, the next request), `Cleanup`
the debounced removal, `Tick` the clock in units of minutes.

### LedgerAddresses (`services/wallet/ledger.ts`, `main/api/ledger/storage.ts`)

The list, its load, `ledgers.json` with truncating writes as in `FileStore`, and
the keystores. `AddLedgerAddress` asks the device and `DeviceAnswers` is the
answer; `RemoveLedgerAddress` the button; `RemoveKeystoreWallet`,
`KeystoreRemoved` the removal of a keystore and the subscription that filters its
addresses; `Read`, `Loaded`, `ReloadPersistentLedgerAddresses` the load and the
retry. Every change calls `SaveLedgerAddresses`, whose answer nobody reads.
Removing without a mode removes all derivations of the chain.

## 3. What is checked

| Run | Question | States |
|---|---|---|
| `mpc_sdk` | Overlapping initialisations and disposals: `SingletonIsUsable`, `HandedInstanceIsLive`, `SingletonUnlessOvertaken`, `EveryCallSettles` | 120 103 |
| `keystore` | Two calls in flight, failed loads, saves refused or cut short half way, abandoned saves, a restart: `ListsWellFormed`, `CurrentWalletInList`, `DiskAgreesUnlessDisturbed`, `ForgottenOnlyByRemoval` | 1 507 291 (symmetric) |
| `mpc_signing` | Three sessions on two vaults: `OneSessionPerVault`, `AbortReachesEverySession`, `VaultIsReleased` | 226 402 |
| `storage_migration` | A crash, two failures, a change of the host, at any step: `HalfCopyNeverLive`, `FreshImportIsNewest`, `ImplementsPromise`, `EventuallyDone` | 977 922 |
| `appwallet` | Three calls, two at once, every answer may fail, saves end in any order or fail half way: `AddressesUnlessRaced`, `AppMirrorsService`, `OneUnlockedUnlessMissed`, `SavedFollowsMode`, `ActiveWasOpened`, `TransitionEnds` | 652 789 |
| `standalone_ledger` | Two detections at once, five starts, three tries: `FoundIsSelected`, `AddressOfConnected`, `DetectionEnds` | 60 550 |
| `common_storage` | Overlapping saves, gets and reads, a failure, a restart: `AckedIsKept`, `CacheIsFile`, `ImplementsRegisters` | 819 487 |
| `list_stores` | Three changes at any time, a failed load or save: `ShownAsAsked`, `StoredAsAsked`, `ChangesReachTheFile` | 132 335 |
| `limit_orders` | Two orders, polls, quotes, dialogs, approvals, assets that are not on offer, the user's own trades: `NoFillLost`, `FilledOnce`, `SignsTheOrder`, `ExecutionEnds` | 794 230 |
| `limit_orders_signed` | finds `NotArmedAfterSigning` violated | - |
| `tracking` | Two transactions in each of the three services, reloads and answers in any order, the age limit: `OnePoll`, `ShownIsKnown`, `TrackingEnds` | 21 564 |
| `ledger_addresses` | Two keystores, two derivations, saves that overlap, a failure, a restart: `OnePerDerivation`, `KeptAsAsked`, `NoOrphans` | 1 811 134 |

Every run but `limit_orders_signed` passes; that one finds a trace that
contradicts what a comment of the code says (section 4). `ledger_addresses` also
checks that nothing deadlocks. The others have `CHECK_DEADLOCK FALSE`: each bound
caps the calls that are made (or, in `tracking`, the time), and a program to which
nothing is asked rests. The modules' type invariants are proved
(section 5) and not repeated in the runs.

Several properties hold *unless* something happened, and a history variable says
what. Each names an event of the code, and the runs reach states with and without
it. The other history variables only record: `intent` (ListStores,
LedgerAddresses) is the list the user asked for, `sole` and `acked` (CommonStorage)
the saves under way and answered, `signed` (LimitOrders) what was submitted, `met`
and `owned` (Keystore) whether the latest save met another and which wallets the
user has.

| Variable | Becomes true when | Guards |
|---|---|---|
| `MpcSdk!overtaken` | `disposeSDK` ran while an initialisation was in flight | `SingletonUnlessOvertaken` |
| `Keystore!raced` | an unlock ended after its wallet was switched, removed or renamed | `CurrentWalletInList` |
| `Keystore!disturbed` (false again once a save of its own has gone well) | no list was loaded, a save met another one or the load, a save was refused unnoticed or failed half way, a view abandoned its save | `DiskAgreesUnlessDisturbed` |
| `Keystore!lost` | a save met another one or the load, or began without a loaded list; the app ended in the middle of a save, or before one that went wrong was followed by one that went well | `ForgottenOnlyByRemoval` |
| `StorageMigration!misread`, `torn` | a store with wallets was taken for empty; a removal of the staging directory began and need not have ended | the import's promise |
| `AppWallet!raced` | an unlock ended after its vault ceased to be active, or overlapped with a lock | `AddressesUnlessRaced`, `ActiveWasOpened` |
| `AppWallet!missed` | a keystore was unlocked during a switch | `OneUnlockedUnlessMissed` |
| `AppWallet!late` | a vault was saved while the app was elsewhere | `SavedFollowsMode` |
| `AppWallet!slipped` (false again with the next save) | the save sent last was refused, or ended before one sent earlier | `SavedFollowsMode` |
| `StandaloneLedger!stale`, `picked` | a cancelled detection acted; a swap chose the chain | `FoundIsSelected`, `AddressOfConnected` |
| `FileStore!disturbed` | a write met another one, a save took its base from an unfinished one, a write was cut short, a read failed | the registers, `AckedIsKept` |
| `CommonStorage!alone` (becomes false) | another call or a failure met the latest call | `CacheIsFile` |
| `ListStores!lost`, `behind` | a change was computed from a list that was not the latest, or a failure cannot be made good; the latest save was refused | `ShownAsAsked`, `StoredAsAsked` |
| `LimitOrders!edited`, `astray` | the user or the lists changed the ticket during the wait; an order and something of the user's own overlapped, or a pending swap was left alone | `SignsTheOrder`, `FilledOnce`, `ExecutionEnds` |
| `LimitOrders!unlisted` | the level started while its other asset was not on offer, and another stayed selected | the asset of `SignsTheOrder` |
| `LimitOrders!requoted` | while the level was with the user, a confirmed approval asked for its quote again, or a finished receipt dropped it | that the quote of `SignsTheOrder` fills the limit, `ExecutionEnds` |
| `LedgerAddresses!disturbed` | a save met another one or the load, failed, was cut short, or was made although nothing had been loaded | `KeptAsAsked`, `NoOrphans` |
| `LedgerAddresses!straggled` | an address came after its keystore had gone, or the app ended between a removal and its answer | `NoOrphans` |

### Bounds, and why they suffice

- `MpcSdk`: four calls and two disposals. An initialisation, a joined call, one
  overtaken and its successor need four calls; a second disposal meets the
  state the first one left.
- `MpcSigning`: three sessions on two vaults: the third meets what a cancelled
  one and its successor left, and the second vault shows that nothing leaks.
- `Keystore`: two slots and three calls: two overlap and a third begins in what
  they leave. Three ids and two names allow stored lists of two and an addition.
  One restart. Loads and saves may fail any number of times, and the load is retried
  without a bound. Ids, names and slots are interchangeable (`SYMMETRY`), and the run
  checks no liveness.
- `StorageMigration`: two wallets (some, all, none of a copy), a crash, two
  failures, one change of a host's store. A crash after a failure in the cleanup
  of another failure is thus included.
- `AppWallet`: one vault with a password and one without, both in the SDK at first or
  none (`Stores`), one keystore, two slots, three calls. The user acts only once the
  common storage has been loaded and fewer than `MaxSaves` = 2 saves are in flight:
  one call may send two more, so three can overlap. The start of the app does not
  wait for the load. A call takes the first free slot, as slots are interchangeable.
- `StandaloneLedger`: the code's `maxRetries` is a parameter; three tries have a
  first, a middle and a last one. Two slots: a detection and one it overlaps.
- `CommonStorage`: two fields (the saved one and one that must stay), three values
  (plain, retired, its replacement), two slots, three calls after the start, a
  failure and a restart: two saves meet, and a third call finds what they leave.
  Any file of an earlier life is an initial state.
- `ListStores`: lists of up to two items, three changes, a failure: one before the
  load, one during its save, one after.
- `LimitOrders`: a sell in dollars and a buy in the other asset, which use the two
  ways of comparing prices; prices, limits and outputs of two values, so that each
  limit is met, missed and met exactly; two assets for the other side of the ticket,
  that of the levels, which is the same for all, and another. One detour suffices for
  an action of the user's own, or a change of the lists of assets, to fall into any
  step of an order.
- `TransactionTracking`: two transactions, an age limit of two and a retention of
  one step, five steps of time: a transaction added late still reaches its age and
  its retention.
- `LedgerAddresses`: two keystores, both derivations of Bitcoin and the name
  earlier versions stored, two saves in flight, two changes beside the removal of
  both keystores, a failure and a restart. Ids are never reused, so adding a
  keystore gives nothing new.

### Fairness

Weak fairness is put on answers and timers only: `Settles` (`import()` and
`initialize()` resolve or reject), `SDKStep` (calls of the SDK settle), `StepOf`
(IPC requests are answered, and JavaScript runs on), `DetectionStep` (the device
or the main process answers, `setTimeout` fires), `Step` (a file operation
completes). The code awaits each of these without a timeout of its own, so
liveness cannot be had from less; an `ipcRenderer.invoke` rejects if its handler
throws. `Step` of ListStores is the file store's
operations and the handling of their answers, `Answer` and `Tick` of TransactionTracking the
answers of the nodes and the clock, and in LimitOrders the time-out of the quote
and the settling of a swap are fair, quotes are not. What the user does is never fair, except in `StorageMigration`: `Start`
and `QuitApp` are fair because `EventuallyDone` speaks of a user who goes on starting
the app.

## 4. What the runs found

`SwapConfirmationModals.tsx` says of its dialogs that an order is not armed again
after signing. `limit_orders_signed` finds that it can be: while the swap of a level
is pending, the user opens a dialog of their own in the same panel and cancels it;
its cancellation re-arms the level that is executing, whose swap may yet succeed,
and the level can be taken up and signed a second time.

Five statements of comments do not hold either. The modules keep them as
definitions, with the reason, beside the conditional property that does hold:

1. `StaleInstanceIsDiscarded` (MpcSdk): `initializeSDK` resets `_disposing`
   (`mpc/sdk.ts:53`), so an initialisation that a disposal overtook is published if
   a second one has begun, against `sdk.ts:99` "discarding stale instance".
2. `StateIsOfSelectedWallet` (Keystore): `unlock` sets the state of the wallet it
   read before the decryption (`keystore.ts:297`); if the user changed the wallet
   meanwhile, the current wallet is no longer "the selected keystore wallet" of
   `keystore.ts:49`.
3. `CancelledIsNotSent` (MpcSigning): MPC_CANCEL_SIGNING answers
   `{ cancelled: true }` while the transaction is being broadcast, and MPC_SEND_TX
   does not look at the signal after signing (`mpc/index.ts:886`), against
   `mpc/index.ts:881`.
4. `SandboxDataIsKept` (StorageMigration): a `wallets.json` that is there and cannot
   be read counts as none (`storageMigration.ts:38`), and the import then replaces
   the store, against `storageMigration.ts:285` "never overwrite real sandbox data".
5. `AddressesAreOfActiveVault` (AppWallet): `unlockVault` pairs the addresses of the
   vault it began with with whatever vault is active, or none, when they arrive
   (`vaultManager.ts:506`), against `vaultManager.ts:469`.

A sixth comment is not true of the model's `StorageLoads`: `appWallet.ts:442` says
of the restoration "This ensures we don't try to restore before services are ready",
but it waits for the keystores only. If the common storage answers later
(`storage/common.ts:169`), the vault mode is not restored, and switching to the
keystores overwrites the saved vault.

Behaviours that the models contain and no run singles out:

- Keystore: `addKeystoreWallet` and `removeKeystoreWallet` ignore a refused save,
  so a wallet in memory may not be on disk until the next save. A save that is cut
  short after the truncation leaves no readable `wallets.json`: the wallets are gone
  from the disk until the next save that goes well, and gone for good if the app ends
  before. So they are after a failed load, if the user adds a wallet instead of
  retrying, and when two saves overlap.
- Import: a marked staging directory that was only partly removed can be promoted
  on the next start (`torn`); a complete one that is older than the host's store
  is promoted as it is.
- Standalone Ledger: the answer to a cancelled detection still connects its chain,
  and its loop can end a later detection, although `standaloneLedger.ts:150` and
  `:158` speak of stopping when cancelled.
- App wallet: two overlapping switches clear each other's `_modeTransitioning`;
  an activation that arrives late saves the vault as the last opened wallet while
  the user is in keystore mode; a late `getAddresses` undoes a lock. The save of the
  last opened wallet is not awaited: if it is refused, or ends before an earlier one,
  the next start opens the wallet of before.
- File store: two saves of different fields at once can lose the first one's field;
  a get during a write answers with the defaults; a crash or a full disk between the
  truncation and the write of the file loses every field; answers of overlapping
  saves can leave the cache behind the file until the next save.
- List stores: an address, node, token or bond provider that is added while another
  addition is on its way replaces it. The favourites lose nothing.
- Limit orders: a level whose swap is left alone (receipt dismissed, chart left)
  stays "executing", cannot be removed in the screen, and is armed again when the
  chart is next left. "Finish" on the receipt empties the ticket of the level that
  was taken up next, which then times out; a receipt that stays open pauses the
  quotes, with the same end. A vault without a password is asked for no
  confirmation, so a level that is armed again fills without asking. A second level
  of the same type and price counts as a duplicate though its unit differs. A level
  whose other asset is not on offer (the pools are not loaded, or it belongs to the
  other settlement) executes with whatever asset is selected, and the user is asked to
  sign that. A confirmed approval replaces the checked quote under the open dialog, or
  drops it; "Finish" on a receipt drops it too. A dialog accepted without a quote
  submits nothing, and its level stays "executing" until the chart is left. A change
  of the settlement or of the lists changes the asset under an open dialog.
- Trackers: a completed transaction is removed only if something still emits after
  its retention, so the last one stays in the list. A failed Chainflip swap is
  neither emitted, completed nor removed, and asked about again at each reload. The
  cleanup waits for five seconds of silence and 1Click polls every three. A request
  of the THORChain tracker that is never answered is never timed out.
- Ledger addresses: the answers of the saves are ignored. After a failed load the
  next change overwrites `ledgers.json`, until which the alert of `AppView` offers a
  retry. An address that the device confirms between the removal of its keystore and
  the end of the settings view is kept; so are all addresses of a keystore if the
  app ends between its removal and the answer.

## 5. What is proved

TLAPS checks these for every value of the constants. Every safety invariant of the
passing runs is a theorem, and so are their action properties and both refinements.
Each proof goes through an inductive invariant, because none of the properties is
inductive alone; TLC checked these invariants on the runs' instances before they
were proved. The proofs of a component are in one module; four of these hold the
proofs of two components that share no variable.

**Mpc_proofs**, MpcSdk: `SdkTypeCorrect`, `SingletonSafe` (`SingletonIsUsable`),
`SingletonUnless` (`SingletonUnlessOvertaken`), `HandedLive`
(`HandedInstanceIsLive`). `SdkInv` adds `LiveIsReturned` (an instance is live only
after its call returned, so a failing call cannot kill a live one) and `Quiet` (while
one initialisation runs nothing is published, so its failure, which clears
`sdkInstance`, forgets nothing). MpcSigning: `SigningTypeCorrect`, `OnePerVault`,
`AbortReaches`. The key is `Registered`: the map knows every running session that was
not told to stop. The guard of `Register` and the comparison in `Release` keep it;
two unaborted sessions of a vault would both be its entry. Assumption: `None` is not
a call, `NoEntry` neither a session nor a vault.

**Wallets_proofs**, Keystore: `TypeCorrect`, `ListsStayWellFormed`,
`CurrentStaysInList`, `DiskAgrees`, `OnlyRemovalForgets`, for any number of calls in
flight. A call carries the list it saves and then puts into memory, so the invariant
speaks of the lists on their way. `Fresh`: every list there is is well formed with ids
already drawn, and an add that has not made its list yet holds an id that is in no
list and in no other such add. `Carried`: a save's list has, as its only selected
wallet, the one the save will make current, and a removal's list has none selected
(for renamings and removals unless raced: their lists were made for the current
wallet). `OneSave` has three parts. `Alone`: a save that met no other, and no load,
has the file to itself, so what it leaves is empty and then its own list. `Noted`:
what met something is disturbed until it is over. `InStep`: while nothing is
disturbed, the file holds the wallets in memory until it is opened. `Kept`: while
nothing is lost, the user's wallets are in whatever has them at each stage of the
load and of a save: in the file until it is opened, in the list being loaded or
saved, and in memory once the load is done, whatever the file went through. One
lemma per action (`SealedEffect`, ...) says what the action does to its call; the
lemmas before them say what `SelectOnly`, `Renamed`, `WithNew`, `Without`, `Initial`
and `LastOf` do to a list. Assumption: `None` is neither an id nor a current wallet.

StorageMigration: `MigrationTypeCorrect`, `HalfCopySafe`, `ImportedOnce`,
`OverwritesNothing`, `MarkerCloses`, `FreshIsNewest` and `Refinement`: the import with
its crashes and failures implements `OneTimeImport`. `MigrationInv` says that during
an import the live store has no marker and, unless misread, no wallets
(`SandboxInv`), that the chosen store has wallets that were offered (`SourceInv`), and
that a marker in the staging directory means a whole copy unless a removal was torn
(`StagingInv`). `StepOfPromise` maps every step: `WriteSkipMarker` to `Skip`, `Move`
to `Import`, a fault to the loss of trust, any other step of the import (`RemoveDest`
on an empty store included) to a stutter. `FreshIsNewest` needs `FreshInv`: the chosen
store is still the newest, and what is about to be moved is its content.
`NewestIsCandidate` is the lemma about the `CHOOSE` of `rankCandidates`. Assumption:
the two stores of the host differ.

**AppWallet_proofs**: `TypeCorrect`, `AddressesOfActive` (`AddressesUnlessRaced`),
`AppShowsService` (`AppMirrorsService`), `OneUnlocked` (`OneUnlockedUnlessMissed`),
`SavedWallet` (`SavedFollowsMode`), `OnlyOpenedActivated` (`ActiveWasOpened`). A call
is the sequence of steps it has left, so `CallsInv` speaks of sequences: `Form` says
which ids steps carry, what follows what, and that a step that is about to activate a
vault has one that was opened or has no password; `OneRuns` that the call that runs is
the one whose next step does not wait. What the file will say is `Intended`: the save
sent last, or the file once none is in flight; unless `slipped`, the end of a save
leaves that as it is or turns it into the default (lemmas `Sent` and `SaveEnded`).
The properties need four facts about the state: emissions are held back only during a switch (`HeldInSwitch`); from the moment a
switch begins no phrase is in memory (`LockedElsewhere`, not only once the mode has
changed); while a vault is intended and the app shows keystores (`SavedIsVault`), the
running call is about to enter the vault mode (`SavedElsewhere`), and that call cannot
be refused (`RestoreAllowed`). The proof goes by what a step does (it ends, gives way
to others, throws), then action by action. Assumptions: vaults and keystores are
different, `None` is none of them.

**Ledger_proofs**, StandaloneLedger: `LedgerTypeCorrect`, `FoundSafe`, `AddressSafe`.
`WantedAsksForSelected`: a detection that was not cancelled asks for what is selected,
because every action that changes the selection cancels the others;
`AddressNeedsChain`: without a connected chain there is no address, so a detection
that starts from "completed, nothing connected" starts without one. LedgerAddresses:
`TypeCorrect`, `OnePerDerivationAlways`, `KeptAsAskedAlways`, `NoOrphansAlways`.
`Once` has every list in every place (memory, file, save, load) with one entry per
derivation, because an addition first drops whatever `SameLedgerEntry` equates with
the new entry, and that is exactly its derivation. `OneSave` and `Agree` relate list,
file, save and load while nothing is disturbed: one save at a time, which carries the
list. `Owned` bounds what is shown by the keystores that are there or being removed.

**FileStore_proofs** has no theorem of its own: what each file operation does to the
call it belongs to, to the others and to the file, for both clients of the file.

**CommonStorage_proofs**: `TypeCorrect`, `AckedIsKeptAlways`, `CacheIsFileAlways`,
`RegistersImplemented`: with any number of calls in flight, failures and restarts
the file implements `FieldRegisters`. What makes it inductive is what a call knows
of the file. `Tidy` says what a call carries: no retired URL, and in the content it
is about to write, a save's own fields. `Sound` says that as long as nothing was
disturbed, or the call is alone, that content is what the file shows now with these
fields changed, and that nobody else writes while the file is empty; `Single` makes
`alone` mean what it says. `FileStepSound` derives from them what each file
operation does to the registers: only the opening of the file by a save changes
any. `Sole` (the history knows who saves a field), `Kept` and `Cached` carry the two
invariants. Assumptions: the replacement of a retired URL and the defaults are not
retired, `None` is not a value.

**ListStores_proofs**: `TypeCorrect`, `ShowsWhatWasAsked` (`ShownAsAsked`),
`StoresWhatWasAsked` (`StoredAsAsked`). Both speak of a settled store, so the
invariant says where the user's list is before that. While nothing is lost, one call
is under way (`OneCall`). Before the load, replaying the pending changes onto what
the file shows gives what was asked (`Gets`); after it, the screen shows it
(`Shows`), and so does the end of the queue, or if that is empty, the save under way,
or if there is none, the file, unless the last save failed (`Underway`, `Saves`). A
failure that loses nothing is one of a save of the favourites. Replaying is a
recursive function of the number of changes; `WayExists` and `WayIsUnique` show by
induction that it is what `applyFavouriteChanges` computes step by step, so that one
more pending change is replayed last (`ReplayedOneMore`). Assumptions: the store has
one field, an empty list by default; no list is a retired URL; and `Values` contains
with a list what an addition or removal makes of it.

**Trading_proofs**, LimitOrders: `TypeCorrect`, `NoCrossingIsLost` (`NoFillLost`),
`OrdersAreFilledOnce` (`FilledOnce`), `TheOrderIsSigned` (`SignsTheOrder`). A level
that ends gives way to the next one of the queue; what that does is proved once
(`Taken`) for a time-out, a refused quote, a dismissed dialog and a settled swap
alike. `PanelInv` and `LevelsInv` relate the level that executes to its status and
the queue, which has no duplicates; `TicketInv` says that, unless the ticket was
changed, the ticket, the quote and the request for one are that level's and for the
other asset of the ticket, which is the level's if it was on offer, and that while the
level is with the user the quote fills its limit and no request is out, unless it was
requoted; `DialogInv` that
the user is asked to sign what executes, before it is signed; `SignedInv` that a
level that executes was signed exactly if the pending swap is its own. The lemmas
about queues say what `InOrder`, removal and concatenation keep. Assumptions: levels
are numbers, finitely many, prices and outputs positive, `None` and `User` no levels.

TransactionTracking: `TrackingTypeCorrect`, `OnePollAlways`, `ShownIsKnownAlways`.
The types with both properties are inductive: a reload makes them true whatever the
map was (`ReloadRestores`), so the work lies in the answers that do not reload, where
exactly one transaction's entries change. Assumption: `NoRow` is not a row.

The bounds (`MaxCrashes`, `MaxStarts`, ...) are parameters of the theorems too: they
are arbitrary there. No proof assumes fairness.

Model-checked only: the liveness properties (`EveryCallSettles`, `VaultIsReleased`,
`EventuallyDone`, `TransitionEnds`, `DetectionEnds`, `ChangesReachTheFile`,
`ExecutionEnds`, `TrackingEnds`), because fairness and `ENABLED` are out of the
prover's reach; and `NotArmedAfterSigning`, which is violated. The library's induction
theorems take an operator as a parameter, which the installed provers cannot
instantiate; where an induction is needed (`UpTo` of ListStores_proofs), it goes
through the well-foundedness of strict inclusion on finite sets instead.

## 6. What is not modelled

Most of the repository's lines are screens, generated token lists, translations and
wrappers of chain libraries; the modules cover the parts that keep state over time
and coordinate calls, which are a few per cent of the lines.

- Chain clients, fees, balances, pools, Redux, screens: fetches, library
  arithmetic and rendering. A screen's condition on a call is in the guard of the
  call where the model depends on it (`SwitchToLedger`, `LockVault`, `CreateVault`,
  `StartDetection`, `Removable`).
- Quotes and swaps are modelled as far as a limit order passes through them. The
  streaming and affiliate parameters and the trackers' entries of a swap are left out,
  and all levels trade against the same other asset.
- Cryptography, keystore encryption, the MPC ceremonies: external.
- The migration of the `keystore.json` of old installs (`main/api/keystore.ts`), the
  HD scan and the lazy chain modules.
- The saves of other settings in the file that holds the last opened wallet
  (AppWallet): two saves that overlap can lose a field of one of them, which
  CommonStorage has. The write and the answer of a save of AppWallet are one step, and
  the app does not end in the middle of one: after it the file has the earlier wallet
  or the default, as after a save that was refused.
- A reply of a node whose body is malformed. It reaches the `catchError` of
  `pollingUpdates$` (`chainflip/transactionTracking.ts:247`,
  `oneclick/transactionTracking.ts:226`), which ends all chains of requests until the
  next reload.
- A stored URL that contains `ninerealms.com` and has no replacement: it counts as
  changed at every read and is written again as it is (`fileStore.ts:27`).
- The host's native app writing its store *during* a copy: `fs.copy` gives no
  snapshot, and the other process is not this program.
- Operations without a caller or without state: `connectLedgerChain`,
  `disconnectLedgerChain`, `resetToVaultSelection`,
  `switchToStandaloneLedgerMode(true)`, REMOVE_FILE, FILE_EXIST, exports, renames of
  vaults, lookups of one Ledger address.

## 7. Plan

Done, in this order: MpcSdk, Keystore, MpcSigning, StorageMigration with
OneTimeImport, AppWallet, StandaloneLedger; then FileStore with FieldRegisters and
CommonStorage, ListStores, PriceLevels with LimitOrders, TransactionTracking,
LedgerAddresses; and the proofs of every safety property of the runs. Next, most
important first:

1. Action properties that the proved invariants carry and no theorem states yet: a
   completed level stays completed until it is removed (LimitOrders), a finished row is never polled
   again (TransactionTracking).
2. What `crossings.ts` computes, as lemmas about `Crosses` and `NextSides` alone: a
   price on the other side of a limit is reported by exactly one poll.
3. The legacy migration of `main/api/keystore.ts:50-135`, whose crash between the
   renaming of `keystore.json` and the first `wallets.json` leaves an empty list: a
   component of its own before Keystore's `Read`.
4. KeystoreHdScan, LazyChain.
