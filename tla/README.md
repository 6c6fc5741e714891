# Verification of Stupid Wallet

TLA+ models of the wallet's native core, model-checked with TLC on small instances and
proved with TLAPS for every value of their constants. The reference is the code under
`Sources/StupidWalletCore`, `SafariExtension`, `ChromeExtension` and
`Sources/StupidWalletChromeHost`; every definition is translated from it, and
`PROJECT.json` names the lines each one stands for.

## 1. The system

The wallet is one set of files in a shared App Group container, one keychain, and several
processes that work on both at once: the containing app, the Safari extension handler and the
Chrome native-messaging host. There is no server and no owner process. Everything the
processes agree on, they agree on through the files, `flock` and `NSFileCoordinator`.

| Component | State it keeps | Operations | Interacts with | What is hard | What makes it correct |
|---|---|---|---|---|---|
| Pending requests (`PendingWalletRequest.swift`) | one JSON file per request, a `flock` claim per request, one prepare lock | insertIfAbsent, record, pending, all, claim, persist | every handler of `WalletService`, group deletion | reads normalise expired records without a claim; writes replace whole files | a decision is final, a request key names one request |
| Connect approval (`WalletService.swift` 620-1366, 2678-2705) | nothing of its own | prepare, rebindConnect, approvePlainConnect, reconcileConnectCommit, status, reject | pending requests, connection state, registry, group claims | three durable writes per approval; a crash between any two; two claims nested; stale reads before the claims | what is answered was committed, once, as reviewed |
| Connection state (`ConnectionState.swift`, `ConnectedSitesStore.swift`) | one revisioned file: grants, active accounts, default, connect markers | mutate, visibleAccount, connect, disconnect, migration from defaults | registry (validation), connect approval, deletion | file and registry change separately | active implies granted, registered and active |
| Wallet registry (`WalletRegistry.swift`) | registry file, compatibility projection, transition journal, lock | load, withLockedReady, create, update | every component | three files per transition; recovery on every entry | atomic, revisioned transitions; the projection fails closed |
| Wallet groups (`WalletGroupManager.swift`) | registry, secrets, caches | import, derive, select home, relabel, delete group, delete account, resume | registry, pending requests, connection state, keychain | deletion is seven durable steps, resumable | a removed group has no authority left; resumption finishes |
| Adoption (`WalletRegistryAdoption.swift`) | adoption claim, the registry's adoption state | ensureAdopted | registry, connection state, caches, keychain, the old wallet's files | runs on every Safari message; every step may be the last | adopted once, nothing exposed before it is complete |
| Signing approval (`WalletService.swift` 1370-1628, 1889-2117, 2393-2447) | submission lock per account and chain | approve for message, typed data, send, batch, chain | RPC node, keychain, activity | network calls and authentication inside a claim; broadcast before the record is consumed | nothing is signed unreviewed; no send reuses a nonce |
| Chain state (`ChainStore.swift`, `NetworkStore.swift`, `RPCOverrideStore.swift`) | active chain, switch journal, networks, endpoints | setChainID, beginSwitch, recoverSwitch, finishSwitch, add, remove | signing approval | journal recovered by other handlers; a deletion replaces the active chain without its lock | a switch is seen exactly when its request is consumed |
| Activity (`ActivityStore.swift`, refresh in `WalletService.swift` 2477) | SQLite rows with a status per transaction | record, update, refresh | RPC node | refresh races the next refresh and late receipts | a terminal status stays |
| Balances (`WalletBalance*.swift`, `TokenStore.swift`, `BalanceCache.swift`) | cache files stamped with revisions and refresh ids | refresh, commit, add, remove | RPC nodes, registry | results of an old account, network or token arrive late | only results of the current context are stored |
| Authorizations (`AuthorizationService.swift`, `EIP7702.swift`) | verified deployments per chain | enable, revoke, deploy | RPC node, submission lock | nonce shared with sends | the account's delegate is the reviewed one |
| Page bridge (`provider.js`, `bridge.js`, `background.js`, `popup.js`) | calls per page session, polls, request keys | request, poll, retry, notify | native handler | worker suspension, lost and repeated messages | one answer per call, one request per key |
| Chrome link (`ChromePairing.swift`, `ChromeHost.swift`, `native-transport.js`) | pairing challenge, outstanding calls, context | pair, call, cancel, disconnect | dispatcher | port loss with calls outstanding, cancellation racing an answer | no answer crosses contexts |
| Keys and signatures (`Secp256k1.swift`, `EthereumKeys.swift`, `BIP39.swift`, `CSecp256k1`) | none | derive, sign, recover, verify, tweak | signing approval, wallet groups | low s, recovery ids and hashes that reach the order are too rare to test | a signature names its account; a public key follows its secret |
| Encodings (`RLP`, `ABI`, `DecimalValue`, `SendAmountInput`, `NativeSendMaximum`, `EIP712`, `Portfolio`, ...) | none | encode, decode, compare, add | all | widths and boundaries | equal to a reference definition |

The app's SwiftUI views, ENS normalisation data and the packaging scripts are presentation or
tooling and are not modelled.

## 2. Modules

| Module | Kind | Stands for |
|---|---|---|
| `ConnectApproval` | component | connect requests and the deletion of wallet groups, in all processes at once |
| `ConnectApprovalProofs` | proofs | its type correctness and safety, that it implements `GroupAuthority`, and who waits for whom |
| `MCConnectApproval` | instance | small instances for TLC |
| `GroupAuthority` | abstract specification | what the life of a wallet group is to the rest of the wallet: authority is given to active groups only, a removal only takes it away |
| `GroupAuthorityProofs` | proofs | what every module that implements it has |
| `AtomicRegistry` | abstract specification | what the wallet registry promises: one value, replaced by compare-and-swap |
| `RegistryStore` | component | the registry, projection and journal files, their lock, recovery, faults |
| `RegistryStoreProofs` | proofs | its inductive invariant and that it implements `AtomicRegistry` |
| `MCRegistryStore` | instance | small instances for TLC |
| `WalletGroups` | component | import, derivation, selection and removal of wallet groups and accounts, and the adoption barrier of every process |
| `WalletGroupsProofs` | proofs | its type correctness and safety, that it implements `GroupAuthority`, and who waits for whom |
| `MCWalletGroups` | instance | small instances for TLC |
| `SigningApproval` | component | approval of requests that sign, the app's own payments, and what races them |
| `ChainSwitch` | part of it | the active chain, its write-ahead journal and its lock |
| `SigningApprovalProofs` | proofs | the type correctness and safety of both, that a removal implements `GroupAuthority`, and who waits for whom |
| `MCSigningApproval` | instance | small instances for TLC |
| `BrowserLink` | component | one request on its way through Chrome: bridge, service worker, native port, helper processes |
| `BrowserLinkProofs` | proofs | its type correctness and safety |
| `MCBrowserLink` | instance | small instance for TLC |
| `ConnectedSites` | component | which account each site sees, and how it is withdrawn |
| `ConnectedSitesProofs` | proofs | its type correctness and safety |
| `MCConnectedSites` | instance | small instance for TLC |
| `Secp256k1` | operators | the functions of the elliptic curve library the wallet is linked with |
| `WalletKeys` | component | a signer's keys, their derivation and its signatures, on those operators |
| `WalletKeysProofs` | proofs | what its signatures and keys are worth, on any curve of the form |
| `MCWalletKeys` | instance | small instance for TLC |

`RegistryStore` lies under the other two: the deletion of a group updates the registry twice,
and `AtomicRegistry` is why one step of `ConnectApproval` or `WalletGroups` may stand for each
update, and why that step has the outcome "threw, and took place". `ConnectApproval` and
`WalletGroups` meet at the removal of a group: the first has the pending requests, the commit
markers and any number of handlers against a group that is one lifecycle flag; the second has
what the registry holds of a group, its secrets, and every operation of the app on it.
`SigningApproval` has the removal of a group as well, reduced to the phases a signature meets.
These are three pictures of one removal, and each sees another part of what a group has; all three
implement `GroupAuthority`, so that what one takes for granted of a removal the others do.
`SigningApproval` is composed with `ChainSwitch`, whose journal asks the request's record whether the switch
took place. `BrowserLink` has, of an approval, only its claim, its signature and its record:
what the helper process does in between is `SigningApproval`. `ConnectedSites` has the grants
that `ConnectApproval` keeps as a set per site, with the hostname grants of an earlier version.
`WalletKeys` is what `Sign` does with the secret.

## 3. How the models correspond to the code

### ConnectApproval

A handler is one call into the core: `prepare`, `approve`, `reject`, `status`, `rebindConnect`
or the deletion of a group. `op[p]` holds its program counter and its local variables (the
request, the revision and account the popup showed, the record it read, the requests it has
listed). Any number of handlers run at once and belong to any process.

| Code | Model |
|---|---|
| a record file in `PendingRequests` | `store[r]`: status, account, revision |
| ten minutes from `createdAt` | `pastExpiry`; they pass in creation order |
| `list`, `summarize`, `record`, `pending` reading all records, then writing expired ones back | `ScanExpired` copies, `WriteExpired` writes the copy (`stale`) |
| the connection-state file | `grants`, `active`, `default`, `markers`; each mutation is one step, as `ConnectionStateStore.mutate` is one coordinated write |
| `flock` on a request, claimed without waiting | `claim`, `ClaimRequest` (throws when busy) |
| `withGroupClaim`, which waits | `groupLock`, `AcquireGroup` |
| `approvePlainConnect` | `OpenReview`, `SubmitDecision`, `AcquireGroup`, `ClaimRequest`, `RecoverCommit`, `ExpireReviewed`, `DecideRequest`, `CommitConnect`, `ConsumeRecord`, `SettleMarker` |
| `reconcileConnectCommit` | `RecoverCommit`, then `ConsumeRecord`, `SettleMarker`; run first by approve, reject, status, rebind and deletion |
| `deleteGroup` | `MarkDeleting`, `ReconcileMarker` for each marker, `ListPending`, `FailPending` for each listed request, `DeleteSecret`, `RemoveConnections`, `RemoveGroup` |
| a process death, or a durable write that fails | `Crash`: locks are dropped, the local state is gone |

`committed` and `commits` are history variables: the account and revision each request ever
committed, and how many times it wrote a connection.

Abstracted: only plain connect requests (the others never touch the connection state before
they are consumed, and are in `SigningApproval`); a group is its lifecycle and its
secret; an account belongs to one group for ever; keychain and registry are read at the step
that uses them.

### RegistryStore

`op[p].at` is the place in `WalletRegistryStore`; the lock's holder moves through recovery,
the body of its entry and the commit. A durable write (`durableReplace`, `durableRemove`: write
or unlink, rename, sync of the directory) is `Durably`: it is done and synchronised, or it
throws and was done or not (`Unsynced`). `files` is what any process reads.

Power loss: `survivors` is the set of contents of the three files that a loss of power may
bring back. A completed directory sync leaves one, for the three files share a directory; a
write that failed before its sync adds its own result. `PowerLoss` picks one and ends every
process. A `Crash` ends one process and keeps `files`.

A registry is an opaque value with a revision and a home projection. What a transition may
change inside it is the constant `Transitions`, so that the module covers every content rule
that `validateTransition` may enforce as long as it raises the revision by one. `base` in an
operation records what was in effect when it took the lock; nothing reads it but the proofs and
the refinement mapping.

`Downgrade(a)` is the older build of the app, which knows only the projection file and writes
its own active address to it.

### WalletGroups

The app is one sequential process: the view model runs on the main actor and its screens are
disabled while it is saving, so it starts an operation only when it is idle. It ends each one
with an adoption, except a selection that failed. Extensions only adopt. `op[p]` is the
operation a process is in, its place and its local variables.

| Code | Model |
|---|---|
| `registry.groups`, `homeSelectedAddress` | `groups` (lifecycle, accounts by derivation index with their lifecycle, `next`), `home` |
| `validate`, `validateTransition` | `Valid`, `ValidChange` |
| `registryStore.update` | `Update`: done, refused by its validation, or thrown with or without effect |
| private keys and seeds in the keychain | `keys`, `seeds` |
| connection state, balance files | `connected`, `default`; `cached` |
| `withClaim(groupID:)`, the adoption claim | `groupLock`, `ClaimGroup`; `adoptLock`, `ClaimAdoption` |
| `importWatchOnly`, `importPrivateKey`, `importSeedGroup` and the `defer` that takes a secret back | `StartImport`, `SaveSecret`, `Register`, `Discard` |
| the view model's selection of what it imported, and the accounts it offers for a new seed | `Select`, `Leave`, `StartDerive` |
| `deriveAccountsInternal` | `ClaimGroup`, `ReadSeed`, `Derive` |
| `deleteGroup`, `deleteAccount` | `ClaimGroup`, `BeginGroupRemoval` or `BeginAccountRemoval`, `Terminalize`, `DeleteSecret`, `RemoveConnections`, `RemoveBalances`, `FinishRemoval` |
| `ensureAdopted`, `resumeDeletingGroups` | `ClaimAdoption`, `ListRemovals` twice, `ResumeRemoval` for each, `Validate` |
| `walletGroups`, `addressHex` of the view model | `shown`, `hasWallet`: what the last adoption published |
| any step that throws (keychain, authentication, a file, a busy request) | `Fail`; `Catch` is the error leaving the operation |

A load followed by an update is one step: the update's revision check makes its success mean
that nothing changed between them, and its failure is a throw without effect, which `Update`
has. A balance is stored under the registry lock while the revision is the one its refresh
started with, so `StoreBalance` needs only that its account is active.

Abstracted: labels and dates, previews (they change nothing), the leftover files of the old
wallet (`forgetMigrationMaterial`), disconnecting, and everything before the registry is
complete. `WalletFactory` is the old single-wallet flow and is no longer called.

### SigningApproval and ChainSwitch

`op[p]` is a handler: its place in `approve`, `sendTransaction` or the removal of the group, the
request or payment it is for, and what it read. It may stop, and its process die, at every await
and every durable write.

| Code | Model |
|---|---|
| `approve` up to the account | `BeginApproval` (claim), `CheckRecord`, `ReadActiveChain`, `CheckAccount` |
| the app's own send, enabling and revoking a delegation | `BeginOwnTransaction`: the same path without a record |
| `TransactionSubmissionLock`, taken without waiting | `submission`, `LockSubmission` |
| `ensureBatchImplementation`, `resolveTransaction` | `ReadCode`, `ReadNonce`, `RPCFails` |
| `withPrivateKey`: account resolved, group claimed, account resolved again, secret read | `ResolveAccount`, `EnterGroup`, `Cancel`, `Sign` |
| `submitRawTransaction`, `broadcast` and the activity row | `Answer`; `Misanswer` (an invalid result, another hash, an error for what the node has taken); `LoseAnswer` (transport); `Receipt`, `NoReceipt` for the deployment a batch waits for |
| the record, and what follows it | `PersistFailed`, `PersistConsumed`, `WriteFails`, `Grant`, `FinishSwitch` |
| `ChainStore` | `chain`, `journal`, `switchLock`; `BeginSwitch`, `RecoverSwitch` |
| `NetworkStore.resumeRemovalUnlocked`, of a deletion or of any later use of the networks | `FindDeleted` reads the active chain, `ReplaceDeleted` replaces it: without the switch lock, and with the journal left as it is; `replacing` is what it read |
| reject, status | `DecideClaimed` |
| a scan of all records | `ScanReads`, `ScanWrites` |
| the node (external) | `wire`: sent transactions; `ledger`: accepted ones, by nonce; `Deliver` takes the next nonce or refuses, for funds, fee or gas as well as for a nonce that is taken; `Execute` includes a deployment or a delegation |

A signature and the call that sends the transaction are one step, `Sign`: no await separates
them. Whatever the node or the transport makes of `eth_sendRawTransaction`, the code throws an RPC
error unless it gets the hash it expects, and `broadcast` persists that as failed; so `Misanswer`
and `LoseAnswer` end like a refusal, while the transaction may be on its way or accepted.

Abstracted: one account, alone in its group, and one site; no nonce chosen by the site; a
message is signed but nothing is sent; of a network's deletion, what it does to the active chain.

The history variables carry the exceptions of the properties:

* `misheard`: payments that got no answer, or one that did not say what happened. The code writes
  failed, which may be untrue, but the payment cannot be approved again.
* `unrecorded`: payments whose handler died, or could not write the record, after it had signed.
  The code cannot know what became of them, and the user may approve them again.
* `settled`: the chain last decided, by a consumed switch, a direct one or the deletion of a network;
  `NoChain` from when that is disturbed to when the chain is next decided directly. A switch
  that had read an older chain disturbs it, a scan that overwrites the consumed record of a switch,
  and a deletion that changes the chain with a journal open or another chain active than it had read.

### BrowserLink

| Code | Model |
|---|---|
| the listener and `pollPending` of `bridge.js` | `bridge`; `Request`, `Interrupted`, `Poll`, `PollEnds`, `GiveUp` (the 600th poll) |
| `route` and `status` of `background.js` | `call`: `SendPrepare`, `Remember`, `Reply`; `poll`: `Owns`, `Get`, `Forget`, `Tell` |
| `connect`, `close` and the three minutes of a call | `port`, `Connected`, `Close`, `PortTimeout` |
| a suspended service worker | `Suspend`: its handlers are gone, and so is its port |
| a helper process, which lives as long as its port | `helper[g]`: open, closing (end of input not read), deaf, dead; `Disconnect`, `HelperDies` (also its `exit(1)` on a closed output) |
| the popup's Approve | `PressApprove`, `Validate`, `PostApprove` in the worker; `Register`, `Vouch`, `Accept` or `Deny`, `Claim`, `Sign` or `NoKey`, `Consume`, `Finish` in the helper |
| `invalidateTab` and the `invalidate` action | `Leave`, `InvalidateTab`, `PostInvalidate`, `Invalidate`, `InvalidateRejects` |
| unpairing | `Unpair` |

Abstracted: one request of one document; hello, frames and the signature of the context check
are one step with their message; the `summary` call after a consumed status is part of `Tell`; a
profile is not paired again.

### ConnectedSites

Each write of `ConnectedSitesStore` is one step under the locks of the registry and the state,
with the validation that ends it (`Mutate`). A page's disconnect reads what the site sees and
withdraws it later (`BeginDisconnect`, `Disconnect`); a popup's withdraws the account it showed,
if the site still sees it (`Review`, `DisconnectReviewed`). The app removes rows
(`RemoveExactRow`, `RemoveHostnameRow`); that an exact row may uncover the hostname grant of the
same account is how the code means it (`docs/engineering-handover.md:196-199`), so only the two
disconnects count as revocation. All accounts have a key. Registration and the default account
are in `ConnectApproval`.

### Secp256k1 and WalletKeys

The operators are the functions declared in `Sources/CSecp256k1/include` and do what
`third-party/libsecp256k1/src` does, over any curve `y^2 = x^3 + 7` whose prime order is smaller
than its field. A 32-byte string is a number that may be zero, reach the order or reach the field.
A failing function returns the object it zeroes. A nonce is any scalar, an HMAC any word.

`WalletKeys` imports a secret or derives one at the first index whose child is valid, derives it
again to sign, and signs a digest. An address is its public key.

### AtomicRegistry and the refinement mapping

`registry` is the stored registry, or what the journal will make it, and while an entry is in
progress what it was when that entry took the lock; `unsure` is that of every survivor;
`calls` is the call each process is in. Taking the lock and every step inside it is a stutter
or a `Drift` of `unsure`; `Return` is the `Load`, `Validate` or `Swap` of the register;
`Throw` is a `Fail`; crashes and losses of power map to their namesakes. `Fail` and
`Crash` may leave the swap done: a caller that saw an error does not know whether its
transition took place, and that is what the code promises, no more.

### GroupAuthority and the refinement mappings

A group is not yet registered, active, in deletion or gone (`phase`), its secret exists or not
(`secrets`), and something names one of its accounts or not (`named`). What each module maps to it:

| | `phase` | `secrets` | `named` |
|---|---|---|---|
| `ConnectApproval` | the lifecycle; removed is gone | `secrets` | grants, active accounts, the default, markers |
| `WalletGroups` | the lifecycle in the registry; without one, new before and during its import and gone after it (`Phase`) | the seed of a registered or importing group, or the private key of a registered one | connections, the default, stored balances |
| `SigningApproval` | the lifecycle of its one group | the secret | the connection |

The steps of a removal are `Begin`, `Forget` and `Finish`, those of an import `Save`, `Register`,
`Abandon` and `TakeBack`; a commit, a grant, a disconnect, a stored balance and each cleaning step
of a removal are `Relate`; all others change nothing that `GroupAuthority` sees. `TakeBack` is the
roll-back of an import whose update threw: the group may be active by then (section 7).

## 4. The runs

| Run | Instance | Question |
|---|---|---|
| `connect_safety` | 1 request, 1 rebind, 2 handlers, 2 groups with one account each, 1 crash, all operations | are answers, commits, rejections and deletions consistent in every interleaving? |
| `connect_progress` | 1 request, 1 group, 2 handlers, 2 crashes, no rebind | do handlers return, interrupted commits settle and interrupted deletions finish? |
| `registry_safety` | 2 processes, revisions 0 to 2, homes present and absent, old schema on disk or no file | are three files one register, through every fault? |
| `registry_progress` | 2 processes, revisions 0 and 1, a downgraded build | does every call return, and is a foreign projection repaired? |
| `groups_safety` | app and 1 extension, 2 groups, 2 indexes, one seed, the private key of its first account, the address of its second one to watch, 2 faults | does every operation propose only what the registry accepts and leave only what adoption accepts, wherever it fails? |
| `groups_progress` | app and 1 extension, 1 seed group with 2 indexes, 1 fault | are interrupted removals finished, and do the claims of app and extension never block each other? |
| `signing_safety` | 2 handlers, 2 items: a send, a batch, a switch, a sign-in, a message or a payment of the wallet, each beside another payment of the wallet; 2 chains, 1 fault; a direct switch and the deletion of the active network beside a requested switch; 1.5 million states | do signatures, transactions, records, answers and the active chain agree, whatever happens between two steps and whatever the node replies? |
| `browser_link` | 1 request, 2 presses of Approve, 2 helpers, 1 loss (suspension, timeout or death), 1 retry | is a request recorded once, never signed after it was stopped, and its page answered? |
| `wallet_keys` | the curve of order 31 over the field of 43, words to 47, 4 seeds, 2 indexes, 9 digests, all secrets and nonces | do signatures and public keys belong together at every edge? |
| `connected_sites` | 2 accounts, 2 Safari origins and 1 Chrome origin of one domain | does a disconnected account stay hidden, and does a disconnect remove only what it named? |
| two violation runs | as above | see section 7 |

Bounds. A hazard of `ConnectApproval` is a race of two handlers over one request or of one
handler with a deletion; the code compares a request only with the head of the queue and a
group only with its own accounts, so a second request or group shows the queue and the
cross-group effects and a third adds none. One rebind (`MaxRevision`) is what separates a
reviewed revision from the stored one. One crash separates two durable writes, two also cut a
recovery short. `RegistryStore` keeps at most one journal; three revisions allow two
transitions in a row, so that a survivor of the first meets the second. Its faults are not
bounded: every write of every call may fail and every process may die, again and again.
`MaxRequests`, `MaxRevision`, `MaxCrashes` and `Operations` are the only bounds in the guards;
the theorems hold for every value of them.

`WalletGroups` is bounded by `MaxGroups` (groups ever imported), `MaxFaults` (throwing steps
and process deaths) and `Limit`, which stands for the 2^31 derivation indexes. Two indexes allow
the removal of either account of a seed and the exhaustion of its indexes; the addresses are
chosen to collide (the key imported may be the seed's first account, the address watched its
second), for that is where `contains` and the registry's rules differ; two groups show what a
removal does to the other one. Two faults stop an operation and then the adoption that follows
it. `groups_progress` has one group and one fault: a second group would only be resumed after
the first.

`SigningApproval` is bounded by `Last` (requests and payments) and `MaxFaults` (deaths, failed
writes, lost answers; refusals and wrong answers of the node are not bounded). Its hazards are races
of two items for a nonce, the group or the chain, and `Mixes` pairs each kind of request, and a
payment of the wallet, with a payment of the wallet, which can meet it at any step; two requests
meet only when the first is decided or has run out, because only the head of the queue is approved,
and the larger `SigningQueues.cfg` checks the same properties of two sends, and of a switch before a
sign-in (1.8 million states). One fault separates any two durable steps. The properties exempt what
`misheard` and `unrecorded` name; a fault names one payment, so the other is still held to them
whatever the node answers. `SwitchMixes` limits the direct switch and the deletion of the active
network to the mix of a requested switch and a payment: the chain meets nothing else but the switch
that a request asks for. `BrowserLink` needs two helpers for a call that outlives its port, which
one loss gives, and two presses for a second review of the same request. On the curve of
`WalletKeys` every recovery id occurs, abscissas exceed the order, and s = 0 occurs, so that the
library draws another nonce; r = 0 does not, for no point has an abscissa of 0 or 31.
`ConnectedSites` has two origins for the shared hostname grant and a Chrome origin that must not use
it; a third account adds nothing, for every write names one.

The larger instance `ConnectTwoRequests.cfg` (two requests of one site, prepare, approve and
delete) checks `RemovedGroupHasNoAuthority` and `ConsumedWasCommitted` with a queue.

`CHECK_DEADLOCK FALSE` in the `ConnectApproval`, `SigningApproval`, `BrowserLink` and
`WalletKeys` configurations: with everything answered, the bounded system has nothing left to do.
That handlers do not block each other is `HandlersReturn` and `SomeHandlerGoesOn`. Deadlock is
checked in the other modules, which never stop.
`TypeOK` of every module but `WalletKeys` is a theorem (section 6) and not among the runs'
properties.
`SigningRemoval.cfg` checks on the instance of `signing_safety` that the removal in
`SigningApproval` implements `GroupAuthority`, which is a theorem as well.

What the safety properties say:

* `ConsumedWasCommitted`, `MarkerUntilConsumed`, `SingleCommit`: a connect request is answered
  with what was durably committed, a commit keeps its marker until the answer is written, and
  no crash or retry writes a connection twice, be it the same one (`commits` counts the writes).
* `RejectedNeverConnects`, `FinalDecision`: a rejection that races an approval wins or loses as
  a whole; only the expiry scan may overwrite a decision.
* `ApprovedWhatWasShown`: the group claim and the account are chosen from an unclaimed read; the
  revision check makes them still right at the commit.
* `RemovedGroupHasNoAuthority`: once a group has left the registry, no secret, grant, active
  account, default or marker names it. Only the order of the deletion's phases, the group
  claim and the validation against the registry give this together.
* `AlwaysRecoverable`, `ProjectionFailsClosed`, `SuccessIsDurable`, `RevisionNamesContent`,
  `ReturnsConsistent`: what every survivor of a power loss satisfies; that a reported success
  is never undone; that comparing revisions compares contents; what a returning call leaves.
* `NeverRefused`: the checks the manager makes before an update and the rules the store makes
  after it are written separately; where they differ, an operation fails for ever, and a
  removal can never be finished.
* `AdoptionAccepts`: adoption refuses inconsistent state in every process at every entry, and
  nothing repairs it; so no failure anywhere may leave such state behind.
* `Implements` (of `GroupAuthority`): whatever is imported, connected, derived, resumed or stored
  beside it, a removal that has begun gives nothing back, and a group leaves only when nothing of it
  is left. A balance or a grant that is written late, or a phase that is skipped, breaks it at that
  step, long before anything is left over.
* `RemovalLeavesNothing`, `RemovalIsLocal`: an account leaves the registry last, and the
  groups that stay keep their secrets, connections and a selected account.
* `PaidOnce`: a payment reaches the chain at most once, also when it was refused, misanswered or
  not answered and the user tries again; not so when its handler died, or could not write, after it
  had signed (`unrecorded`): it can then be approved and sent again.
* `AnswersAreTrue`: a record is consumed, and a payment in the activity list, only after the node
  accepted it, without exception. Failed means that it was not accepted only where the node
  answered plainly: an answer that was lost, malformed, for another hash or an error is written as
  failed whatever happened (`misheard`).
* `OneTransactionPerNonce`: the nonce is read several awaits before the signature, and only the
  submission lock, which requests and the app's own sends share, keeps it unused: "so app and dapp
  sends cannot race the same pending nonce" (`docs/engineering-handover.md:943`). It is about
  transactions that are on their way or accepted: a nonce that the node refused is signed again, and
  rightly. Two are live at once only if the handler of one died, or stopped without a plain answer.
* `KeyOnlyWhileActive`, `RemovedLeavesNothing`: a removal may take place while an approval waits for
  the group's claim, or between the consumed record and the grant of a sign-in.
* `ChainIsDecided`: journal, chain and record are three files; whoever takes the lock next decides
  from the record whether the switch counts. The deletion of a network writes the chain beside them
  without the lock: away from a switch its choice stands, and met by one the property says nothing
  until the chain is decided anew (section 7).
* `SomeHandlerGoesOn`: an approval holds its request while it waits for the group, a removal holds
  the group while it wants the requests; it gives up instead of waiting.
* `OneRecordPerCall`, `StoppedNeverSigns`, `PageIsAnswered`: the same prepare frame may reach two
  helpers; an approval may be anywhere between the worker and the key when the tab navigates, the
  port ends or the profile is unpaired; the worker may be suspended at any point of a call.
* `SignaturesNameTheirAccount`, `OneFormOfSignature`, `PublicFollowsSecret`: over the whole small
  curve, what the wallet writes into a signature is enough for a reader to find the account.
* `DisconnectedStaysHidden`, `OnlyTheNamedAccountLeaves`: both disconnects act on an account that
  was read earlier.

## 5. Fairness

* `HandlersRun`: a handler that has started runs on (weak fairness of its steps), and `flock`
  grants a waiting handler its group's claim in the end although others may take it first
  (strong fairness of `AcquireGroup`). A popup is decided or closed in the end, either way
  without anything being owed to the user's decision (`SubmitDecision`, `ClosePopup`).
* `Resume`: every launch of the app and every Safari message adopts the registry first, and
  adoption resumes each group it finds in deletion (`WalletRegistryAdoption.swift:131`). It is
  strong fairness because a resumption needs an idle handler. `resumeDeletingGroups` is
  sequential and stops at the first removal that throws; that only one is pending at a time,
  because a failed adoption shows no group to remove, is why none stands behind another
  (`Swept` in `WalletGroupsProofs`).
* `Poll`: the page that asked polls until it has an answer (`bridge.js`, `pollPending`).
* `RegistryStore`: the lock's holder runs on and `flock` is granted in the end. A failing
  write is a step like any other; nothing assumes that writes ever succeed.
* `WalletGroups`: a process that is in an operation runs on (weak fairness of `Continue`, which
  includes the user leaving the screen that offers a new seed's accounts: `OperationEnds` does
  not hold for a user who never does), and the file coordinator serves a waiting process in the
  end although others may come first (strong fairness of `Wait`). No process has to adopt:
  `RemovalFinishes` is conditional on some process entering the barrier again and again. Faults
  are bounded by `MaxFaults`, so it says that a removal finishes once steps stop failing.

* `BrowserLink`: a document that is still there keeps sending and polling, the browser runs the
  worker's handlers on, a helper answers the prepare frame it was sent, and a pending record
  expires. Nothing is assumed of approvals, and losses are bounded by `MaxLosses`: the code sends a
  request again twice and then tells the page of an error.

## 6. What is proved

Every safety property that a passing run checks is a theorem, except `SomeHandlerGoesOn`, and so
are the refinements of `AtomicRegistry` and of `GroupAuthority`. All theorems hold for any number of requests, handlers,
processes, groups, accounts, sites, chains, revisions, retries and faults, and for any curve of the
form, from the assumptions named in the modules, which TLC evaluates on every run:

| Assumption | What it says |
|---|---|
| `ConstantsAssumption` (`ConnectApproval`) | each account has one group |
| `TransitionAssumption`, `LegacyAssumption` (`RegistryStore`) | a transition raises the revision by one; a registry of the old schema migrates to one of the new schema, and no transition leads back |
| `AddressAssumption`, `LimitAssumption` (`WalletGroups`) | a derived address has one seed and one index, and there is at least one index |
| `SigningAssumption`, `ChainAssumption` | the requests were prepared for a chain the wallet knows; any mix of items |
| `LinkAssumption` (`BrowserLink`) | the user presses Approve finitely often; retries and losses are numbers |
| `CurveAssumption`, `PrimeAssumption`, `GroupAssumption` (`Secp256k1`) | the generator lies on the curve, no point has abscissa 0, and the order is below the size of the field and above half of it; both numbers are odd primes; the points are the multiples of the generator, and adding them is associative |
| `KeysAssumption` (`WalletKeys`) | a seed's parent secret is a scalar other than 0; the HMACs of its indexes and the digests are any words |
| `SitesAssumption`, `RegistryAssumption`, `ProcAssumption` | model values such as `NoProc` are none of the values they stand beside |

`ConnectApprovalProofs` proves `TypeOK`, `ConsumedWasCommitted`, `MarkerUntilConsumed`,
`RejectedNeverConnects`, `SingleCommit`, `FinalDecision`, `RemovedGroupHasNoAuthority` and
`ApprovedWhatWasShown`. None is inductive alone. `IInv` adds that two handlers never hold the same
new request (`InsertedOnce`), that a handler past the claim step holds its request's claim and that
what it read under the claim is still what the store holds until it writes, or the request has run
out (`HandlerInv`), and that a marker is the commit it stands for and nothing is stored, scanned or
committed for a request not yet created (`RecordInv`). The claim is what makes the steps of other
handlers harmless; the expiry scan, which takes no claim, is the case that weakens the properties
to "or has run out". For a removal, `Removed` says what each of its phases has already taken away
and that nothing can come back while the group is in deletion: connecting validates against the
registry, and the handler that deletes holds the group. For the reviewed account and revision,
`Shown` says that a handler under both claims has compared the record with what its popup showed.

`RegistryStoreProofs` proves the five safety properties, `TypeOK` and `Refinement`
(`Spec => Implements`). `IInv` says: every survivor is recoverable and fails closed, and is
at least as new as the last acknowledged transition (`FilesInv`); what any process was last
given is the stored registry or older (`KnownInv`); exactly the lock's holder is inside an entry
(`ControlInv`); and for the holder, what it intends (`Purpose`), where it stands relative to
the registry in effect when it took the lock (`Position`), when a commit found in place is
also in every survivor (`Settled`), and what it is about to return (`Finished`). `Settled` is
the part that a test cannot reach: it is why a failed write followed by a recovery that found
the transition in place may be reported as success.

`WalletGroupsProofs` proves `TypeOK`, `AdoptionAccepts`, `RemovalLeavesNothing`, `RemovalIsLocal`
and `NeverRefused`, in three layers. `Control` says where each operation is and what it holds: from
its claim on a derivation or a removal holds its group, a removal that has begun finds its group or
account in deletion, and the registry is `Valid`. `Kept` relates the registry to what lies beside
it: every active registered group has its secret (`HasKeys`), connections and balances are of
registered accounts (`Owned`), a removal has cleared what its place says (`Cleared`). `Orderly` says
that what was in deletion once is never active again (`Spent`), and that the app resumes every
removal before it shows a wallet and so before it begins the next one (`Swept`); without it a second
removal would meet a registry that already has one in deletion, and the store would refuse it. On
the three rest the acceptance lemmas (`RegisterAccepted`, `SelectAccepted`, `DeriveAccepted`,
`BeginGroupAccepted`, `BeginAccountAccepted`, `FinishAccepted`): each update the manager makes
yields a registry that passes `Valid` and `ValidChange`.

`SigningApprovalProofs` proves `TypeOK`, `KeyOnlyWhileActive`, `RemovedLeavesNothing`,
`ChainIsDecided`, `OneTransactionPerNonce`, `PaidOnce` and `AnswersAreTrue`, for `ChainSwitch` as
well. `Control` says what a handler has in hand at each step: its request's claim, the submission
lock from the nonce to the answer, the group's claim around the signature, and an undecided record.
It is inductive because no step of another handler touches what a handler holds (`Respects`, `Takes`).
Relative to it, `Removal` says how far a removal has come, `Journalled` which chain the journal and
its request's record amount to, `Nonces` that a handler's nonce is not that of a live transaction
it should know of, and that what is on the wire is awaited by its handler unless that one stopped
listening, and `Payments` where the one live transaction of a payment is: with the
handler that posted it, or decided. A refused transaction is in none of them: it is neither on the
wire nor in the ledger. The exceptions (`misheard`, `unrecorded`, `settled` = `NoChain`) are those of
the properties.

`BrowserLinkProofs` proves `TypeOK`, `OneRecordPerCall` and `StoppedNeverSigns`. `Held` says that
an approval a helper is busy with is registered there, so that it can be cancelled; `Barred` says
that an approval stopped before that will meet a document that is gone or a profile that is no
longer paired. Between them no order of navigation, port loss and delivery leaves a gap.

`ConnectedSitesProofs` proves `DisconnectedStaysHidden`, `OnlyTheNamedAccountLeaves` and that
validation never refuses a disconnect (`NothingIsRefused`) for any number of accounts, sites and
domains. `IInv` says that an active account is always among the site's grants (`Granted`), so that
validation never refuses a write, and that a revoked account has neither an exact grant at the site
nor the hostname grant of its domain that the site could fall back to (`Withdrawn`). The second half
is the one a test would miss: the grant may be written for another site of the domain.

`WalletKeysProofs` proves `SignaturesNameTheirAccount`, `OneFormOfSignature` and
`PublicFollowsSecret`. That a multiple of the generator depends only on its factor modulo the order
(`SumOfMultiples`, `MultipleOfMultiple`) is proved by induction on the factor, as a set of
counterexamples without a least member (`Counting`). It turns an equation between points into one
between scalars, and the primality of the order (`Distinct`, `InverseCancels`) solves it. A point is
known from its abscissa and the parity of its ordinate (`PointAtIs`), because the field has an odd
number of elements.
`SignatureOf` relates a signature to the digest, the secret and the point of its nonce; that it is
recovered (`RecoveredIs`) and verified (`VerifiedIs`) is arithmetic modulo the order from there, with
the sign of s and the reduction of the abscissa kept apart, since both are in the recovery id. The
invariant, `Keyed`, says that an account's key is that of its
secret and that a signature has `SignatureOf` with the account's secret and the signed digest.

`GroupAuthorityProofs` proves of the abstract specification that a group that is gone has nothing
left (`NothingIsLeft`) and that a removal that was begun gives nothing back and only ends
(`NothingComesBack`). The invariant it needs is that only a registered group is ever named, which is
why giving up an import leaves nothing. The refinements are `DeletionIsAuthoritative`,
`LifeIsAuthoritative` and `RemovalIsAuthoritative` (`Spec => Implements` in the three proof
modules), and `DeletionTakesEverything` and the two `RemovalTakesEverything` conclude from them that
the three modules have both properties of `GroupAuthority`. In each, one lemma per kind of step says
which abstract step it is:

* in `ConnectApproval` a handler commits only while the account's group is active, because the
  validation of the connection state reads the registry (`RelationsChange`), and a deletion removes
  the group only after what `Removed` says of its phases (`DeletionSteps`);
* in `WalletGroups` a step either moves one group on (`Moves`) or only changes what is named
  (`Relates`). A group is new, registered or gone by what was ever created, what the app is importing
  and what the registry holds (`LifeIs`), so every step of an import has its own lemma; secrets and
  names are kept by key and by address, not by group, so each needs `Control` or `Kept` to show that
  it touches no other group's: registration must not inherit a connection or a balance of its address,
  and `FinishImplements` needs that a removal has cleared what its place says;
* in `SigningApproval` a grant is written after the record was consumed, and only the check under
  the registry's lock keeps it a step of an active group.

Waiting. `HandlersReturn`, `OperationEnds` and `SomeHandlerGoesOn` are TLC's, but why they hold is a
safety property, and it is proved: `NobodyWaitsInACircle` (`Spec => []HoldersGoOn`) in the three proof
modules. `ClaimsAreNeeded` (`LocksAreNeeded` in `SigningApprovalProofs`) says that whoever has a claim
is at a step that needs it, so that returning, throwing and dying leave none behind. From it: who
waits for a group's claim, or the chain's lock, waits for a handler that is at work and itself waits
for nobody; who waits for the adoption claim waits for a process that waits at most for a group's. A
chain of waiting handlers, in however many processes, has at most two links and ends in one that can
run on. A request's claim and the submission lock are only ever tried, never waited for.

Only model-checked:

* every liveness property (`HandlersReturn`, `DeletionFinishes`, `CommittedConnectSettles`,
  `EntryReturns`, `RemovalFinishes`, `OperationEnds`, `PageIsAnswered`) and `SomeHandlerGoesOn`,
  which speaks of `ENABLED`: both are outside what TLAPS proves; of the latter `NobodyWaitsInACircle`
  is the part without `ENABLED`;
* that addition on the curve is associative and that the generator has prime order: they are
  assumptions of the proofs, which TLC evaluates on the small curve;
* what the violation runs and the configurations of section 7 show.

## 7. Where the code and its documents disagree

| Run | What it shows |
|---|---|
| `groups_partial_import` | an import whose registry update throws takes its secret back (`WalletGroupManager.swift:234`, and 156 for a private key), but an update that throws may be completed by the next load: the group is active without a secret, every adoption throws, the app shows nothing and so nothing can remove it |
| `registry_migration_stuck` | the migration of a schema-1 registry (`WalletRegistry.swift:523`) answers its own failed write by migrating again, recursively, while it holds the lock |

Five more are reproduced by configurations that are not among the runs:

| Configuration, property | What it shows |
|---|---|
| `ConnectLeftoverRequest.cfg`, `RemovedGroupLeavesNoRequest` | `prepare` (`WalletService.swift:739`) inserts a request after the deletion of its account's group has listed the queue: it stays pending, at the head, until it expires; `docs/engineering-handover.md:531` says the lifecycle "terminalizes matching pending requests" |
| `ConnectForeignFailure.cfg`, `OnlyOwnRequestsFail` | a deletion (`WalletGroupManager.swift:798`) fails a request that was rebound to another group after it was listed |
| `ConnectAnswerLost.cfg`, `AnswersConverge` | the unclaimed expiry (`PendingWalletRequest.swift:275`) writes back the copy it read, and replaces a decision made meanwhile; `WalletService.swift:1318` says polling page and worker converge |
| `SigningExpired.cfg`, `ExpiredNeverConsumed` | an approval that began before the deadline persists `consumed` over the `expired` that a scan wrote meanwhile; `PendingWalletRequest.swift:244` says expired records are never consumable |
| `LinkAnswerLost.cfg`, `AnswerIsNotLost` | the worker removes the route of a decided request (`background.js:634`) before it answers; suspended in between, the page's next poll is refused as not its own, and the result is lost to it; `background.js:609` says a suspending worker never loses the answer |

Two things follow from the code and are no disagreement with a line of it; the properties exempt
them. An RPC error, a malformed or mismatched reply and a failed connection are all persisted as
failed (`WalletService.swift:2432`), whether or not the node took the payment. And the deletion of
a network reads and writes the active chain without the lock of a switch and does not settle its
journal (`NetworkStore.swift:230`): if a switch is in progress the one that writes last wins, and a
journal that is undone later brings back the chain it had replaced, which may be the deleted one.

The unclaimed expiry also overwrites a pending record whose connect commit is already durable;
its marker then never settles, which is the exception that `DeletionFinishes` and
`CommittedConnectSettles` carry.

## 8. Plan

Left to be done, in this order:

1. The one-time adoption of the old wallet, which ends in the state `WalletGroups` starts from. Its
   steps between registry, connections, cache and fallback are the one hazard without a property
   whose outcome in the code is not known (the other three do occur: the overwritten decision and the
   lost result of section 7, and the payment whose handler died).
2. The refresh of activity rows and balances, which discard late results by revision and refresh id.

## 9. Not modelled

* Views, wording, logging and layout; ENS, clear signing and RPC transport: network reads that
  decide nothing persistent.
* RLP, ABI, EIP-712, SIWE and decimal strings: pure encodings whose arithmetic checks every
  overflow; a model would repeat them. Hash functions, DER, the limb arithmetic and the side-channel
  protection of the curve library.
* Security.framework and LocalAuthentication beyond success and failure.
* Corrupted files: every store rejects a file that does not decode, and nothing repairs it.
* The refresh of balances, tokens and activity: what is displayed, never what is signed.
* The lists of networks, tokens and endpoint overrides. The deletion of a network has a journal of
  its own, which every later use of the networks resumes under their lock; only its effect on the
  active chain is modelled.
* The dialogue that pairs a Chrome profile, provider events, packaging and the example page.
