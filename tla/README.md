# Foundation Forge in TLA+

Specifications of the stateful parts of Foundation Forge (`src/packages/*`), the
TLC configurations that check them on small instances, and TLAPS proofs of what
matters most for every size. The repository is a set of 27 independent
TypeScript packages; most are pure functions over bytes, paths or graphs. The
specifications go where the difficulty is: files that several processes share,
callbacks that interleave at every `await`, retries, deadlines and crashes.

- `tlc -workers 2 -config <name>.cfg <MC module>` runs a configuration
- `tlapm <name>Proofs.tla` checks the proofs of a module (some minutes each):
  `SnapshotStoreProofs`, `CallbackProofs`, `RendezvousProofs`,
  `ArtifactPublicationProofs`, `GenerationStoreProofs`, `ConfigImportProofs`,
  `PolicyRepositoryProofs` and `ManagedReleaseProofs`

`PROJECT.json` maps every definition to the lines of code it translates.

## 1. Inventory

Paths are below `src/packages/`.

### Snapshot store (`source-snapshot/src/node/{publish,retention,pins,lock}.ts`, `src/retention.ts`)

- *State.* A target directory: `objects/…` (content addressed),
  `snapshots/<id>/{CHANGES.json,INDEX.md,READ-INDEX.json,SNAPSHOT.json}`, an
  entry file that names the current snapshot, a gc file with the time each orphan
  was first seen, a pins file, and a lock file with a pid and a token.
- *Operations.* `publishSourceSnapshot`, `publishPreparedSourceSnapshot`,
  `pruneSourceSnapshots`, `upsertSourceSnapshotPin`, `removeSourceSnapshotPin`;
  each under the lock. Verification and inspection take no lock.
- *Interaction.* Processes share only the directory. Writes go through
  `generated-artifacts` (`publishGeneratedArtifacts`, `atomicWriteArtifact`).
- *Hard.* A crash between any two writes; recursive removal is not atomic; the
  lock is a file that is created first and written afterwards, by calls that may
  fail like any others; the pins file is written by a promise nobody awaits under
  the lock.
- *Correct when* the current snapshot can always be read, no manifest is without
  its objects, metadata is immutable, orphans rest for the grace period, an
  acknowledged pin holds, the lock excludes, and only a fault makes it stay.

### Snapshot text (`source-snapshot/src/{text*,packing,manifest,content-dedup,read-*}.ts`, `src/node/{text-spool,text-verification,read}.ts`)

- *State.* The spool keeps one object open and counts its bytes and the offsets
  of its segments along. What results is content objects and a manifest with the
  locators of every file in them.
- *Operations.* Staging and normalisation, splitting into segments, packing in
  memory or by the spool, the manifest, verification, reading and unpacking.
- *Interaction.* The store writes, shares and deletes the objects; readers find a
  file by the manifest's locators alone.
- *Hard.* Offsets counted in two ways; lines and characters at the limit of an
  object; files that share a content; byte order marks.
- *Correct when* both packers agree, what verifies can be read as the normalised
  source, and a snapshot in the store unpacks to the whole of its text.

### Peer dial scheduler (`peer-network/src/discovery/peer-dial-scheduler.ts`)

- *State.* One dial state per advertised peer (next attempt, timer, abort
  controller), the set of connected peers, `closed`.
- *Operations.* `consider`, the timer's `connect`, the network's
  `peer-disconnected`, `close`.
- *Interaction.* Calls `network.connect` and `connection.close`, calls the
  consumer's `onConnected`, listens to the network's events. The libp2p network
  (`peer-network-libp2p/src/libp2p-peer-network.ts`) closes a connection by
  hanging up the peer, which comes back as an event.
- *Hard.* Disconnects, drops and `close` while a dial or a set-up is awaited.
- *Correct when* who is taken for connected is, no connection is forgotten, a
  peer is not dialled twice at once, and every dial ends.

### WebSocket rendezvous (`peer-network-websocket/src/{rendezvous-hub,server,client,protocol}.ts`)

- *State.* The hub: sessions, a map of scopes to peers to sessions, per session
  the advertisement, the time of the last sign of life and a message window. The
  client: a socket, a heartbeat and a reconnect timer, the last advertisement.
- *Operations.* `openSession`, `receive` (register, ping), `close` of a session,
  the sweep, `close` of the hub; client `publish`, reconnect, `close`.
- *Interaction.* Every change of a scope is broadcast to its sessions; a send that
  fails closes a session, which is another change. Registration awaits the
  consumer's `authorizeRegistration`.
- *Hard.* What happens during that await; replacement; limits; time; a connection
  that is gone at one end only, and what is still under way on it when the client
  registers again on another one.
- *Correct when* registry and sessions agree, limits hold and empty scopes go,
  everybody has been sent the current list, the expired are swept, and a client
  that stays ends up listed with its latest advertisement.

### Artifact publication (`artifact-publish/src/{publication,budget,receipt,transport-lifetime}.ts`)

- *State.* Per operation: workers, a budget (time limit, abort), a receipt per
  object and for the pointer. Outside: the remote objects and the pointer.
- *Operations.* `publishArtifactRelease`, `activateArtifactRelease`.
- *Interaction.* A transport with `createObject`, `replaceObject`, `readObject`
  and `close` (`artifact-publish-cos` implements one).
- *Hard.* Workers that fail side by side; writes that were given up and
  take effect later, even during the next operation; a transport that never
  answers.
- *Correct when* the pointer never leads to a missing object, receipts do not
  understate, a success is true and stays so, and every operation returns.

### Generation store (`repository-context/src/node/{store,build}.ts`)

- *State.* `.build-lock/` with an owner file, `generations/<id>.json`,
  `current.json`, temporary files of interrupted writes.
- *Operations.* A build takes the lock, prunes, writes a candidate, switches
  `current.json`, prunes again and releases; a reader follows `current.json`.
- *Interaction.* Processes share only the directory; an operator may remove a
  lock that was left behind.
- *Hard.* The reader takes no lock; the owner check and the change it guards are
  two steps; cancellation and failure at every step; crashes.
- *Correct when* what `current.json` names exists, leftovers do not accumulate,
  reported outcomes are true, a reader retries a bounded number of times, and a
  builder that lost its lock stops.

### Command runner (`command-runner/src/node/running-command.ts`) and process termination (`process-control-node/src/provider.ts`)

- *State.* One command: its child process, the first reason to end it, the
  identity of the process, the start gate, a termination under way, the deadlines
  of termination, output and reaping. The provider: where `terminateProcessTree`
  is between its identity checks and its signals.
- *Operations.* `startCommand`; the events `spawn`, `error`, `exit`, `close`;
  abort, timeout and overflow; `authorizeStart`, `terminate`; the scope's promises.
- *Interaction.* A direct command is ended through the provider, an owned one
  through its scope, of which the runner sees two promises and `terminate`.
- *Hard.* Exit, close, error, identity, termination and deadlines in any order;
  a provider that never answers; a pid that is given to somebody else.
- *Correct when* there is always one result, what it says of the processes is
  true, the start gate never opens late, and no signal goes to a process whose
  identity was not checked first.

### Owned process scope (`process-control-node/src/owned-scope/`)

- *State.* The supervisor in the caller's process, a helper process that is a
  subreaper, two queues of frames between them, the command's processes.
- *Operations.* Initialize, bind, authorize the start, inspect, terminate; the
  helper's answers; the closing with its one deadline, forced or not.
- *Interaction.* The supervisor spawns and may kill the helper; the helper starts,
  stops and reaps the command and leaves when the caller does.
- *Hard.* A closing entered with one reason and continued with another, answers
  that never come, a helper or a caller that dies at any step.
- *Correct when* the scope reports "closed" only if its processes are gone and
  nobody told it to stop, every closing completes, and no helper stays.

### Configuration import (`config-bundle/src/node/{apply,import-plan,backup,safe-target}.ts`)

- *State.* Targets, backups, temporary files, new directories; the lists of what
  was committed and of what this call must clean up; the result.
- *Operations.* `applyConfigBundleImport`: prepare, stage each entry, back up,
  look again, rename into place, undo on failure, clean up.
- *Interaction.* Other writers change the same directories; nothing is locked.
- *Hard.* A failure half-way, an undo that itself fails or meets changed files,
  and that knows its own by their bytes alone.
- *Correct when* the report is true, no original is lost under the backup policy,
  other writers' changes survive, and nothing unnamed is left behind.

### Managed release (`release-vercel/src/node/{managed-*,prebuilt-*,completion*}.ts`)

- *State.* A slot on disk: the state of the run, the archive of earlier runs, the
  receipt of the last publish, an anchor, the run lock. At Vercel: deployments,
  aliases, production and its last alias request.
- *Operations.* `publish`, `verify` and `recover` of a prebuilt candidate.
- *Interaction.* HTTP requests whose answers are lost, whose effects come late or
  are seen late; a completion job that runs a command.
- *Hard.* A crash between a request and its record; what a later run may conclude
  of an effect nobody confirmed; a completion that was interrupted.
- *Correct when* one remote write is open at a time, none is sent twice, the
  records are true, a completion neither forks nor runs against a production that moved on.

### Repository policy (`repository-policy/src/{relations,conditions,resolve}.ts`, `src/node/{prepared,bundle,check,read-sources}.ts`)

- *State.* None of its own for `resolvePolicyRequest`. A prepared session keeps
  the sources it has read and a map of the reads under way.
- *Operations.* Resolve, bundle, check; prepare (with or without preloading),
  then resolve and bundle in the session. Each looks at sizes first, adds them
  up, reads and looks again.
- *Interaction.* Calls of one session share its reads. Somebody edits, unlinks
  and relinks the files meanwhile; nothing is locked.
- *Hard.* Facts that are unknown, unverified or of another context; exclusions
  that depend on requirements of candidates; files that change between a look,
  a read and the next look; limits counted from sizes seen earlier.
- *Correct when* what a resolution says is so in every world that agrees with
  the request, answering what it asks for settles it, what is handed out was
  really there and is within the limits, and a session never mixes versions.

### Components with state that are not modelled yet

| component | state, and what is hard | correct when |
| --- | --- | --- |
| libp2p protocol channels (`peer-network-libp2p`) | handlers registered and removed asynchronously | a registered protocol has a handler |
| recovery lock and retirement (`release-vercel/src/node/managed-{recovery-lock,retirement}.ts`) | lock files with an owner that is inspected; leases of retired checkouts | one coordinator; nothing in use is retired |

### Components without state between calls

Archives and path safety, integrity and deterministic JSON, text integrity,
repository files, generated-artifacts inspection, stream codecs (JSON lines,
server-sent events, length-prefixed frames), workspace graph and checks,
context search and presentation, the COS transport, snapshot generation and
inspection. Section 6 says which of them could become operator modules and why
the others are left out.

## 2. Modules

| module | models | composition |
| --- | --- | --- |
| `CurrentSnapshot` | abstract: what a reader of the entry file may rely on | |
| `SnapshotStore` | publish, prune and pin over one directory | implements `CurrentSnapshot` (`ReaderSpec`) |
| `SnapshotStoreProofs` | proofs about `SnapshotStore` and `SnapshotLock` | extends the one, instantiates the other |
| `SnapshotText` | the text of a snapshot, as operators: normalising, splitting, the two packers, the manifest, verification, reading | |
| `SnapshotContent` | what the snapshots of a store contain | extends `SnapshotStore` and `SnapshotText` |
| `SnapshotLock` | the lock file as single file-system calls | justifies (and limits) the exclusive lock of `SnapshotStore` |
| `RendezvousHub` | the hub, one action per callback up to its await | |
| `DiscoveryClient` | clients, the network and the server's sockets | extends `RendezvousHub`; its steps take the hub's actions |
| `RendezvousProofs` | proofs about both | extends `DiscoveryClient` |
| `PeerDialScheduler` | the scheduler together with the libp2p network's connect, close and disconnect | scheduler and network in one module, as each step of one may call the other |
| `ArtifactPublication` | publication or activation against a remote that may be late | |
| `ArtifactPublicationProofs` | proofs about `ArtifactPublication` | extends it |
| `GenerationStore` | builders, an operator and a reader | |
| `GenerationStoreProofs` | proofs about `GenerationStore` | extends it |
| `ScopePromise` | abstract: what an owned scope promises the one who started it | |
| `OwnedScope` | supervisor, helper and the command's processes over two queues | implements `ScopePromise` (`PromiseKept`) |
| `RunningCommand` | one command, direct or owned, with the provider's termination | takes an owned scope's steps from `ScopePromise` |
| `CallbackProofs` | proofs about `RunningCommand`, `PeerDialScheduler` and `OwnedScope` | extends them |
| `ConfigImport` | an import and another writer | |
| `ConfigImportProofs` | proofs about `ConfigImport` | extends it |
| `ManagedRelease` | the slot, its coordinator and Vercel | |
| `ManagedReleaseProofs` | proofs about `ManagedRelease` | extends it |
| `PolicyResolution` | the pure part of the policy package, as operators | |
| `PolicyRepository` | calls, sessions and their reads, and an editor | extends `PolicyResolution`; its calls resolve with it |
| `PolicyRepositoryProofs` | proofs about both | extends `PolicyRepository` |
| `MC*` | model values and small functions for TLC | extend the module they name |
| `MCProcessControl`, `MCDialsAndPolicy` | two components each that share nothing, in one run | a behaviour is one of either, while the other rests |

### How state and actions correspond

**SnapshotStore.** `entry`, `files`, `changes`, `objects`, `orphanedSince`,
`pins`, `lock` are the files; `dirs` the directories, because a directory without
a manifest makes every later prune throw. `INDEX` stands for the two index files,
which are functions of the manifest. Reads under the lock form one step with the
decision they lead to (`PublishPlan`, `PrunePlan`, `UpsertPlan`), since nobody
else writes then; each write is a step (`WriteObject`, `WriteFile`, `WriteEntry`,
`RemoveSnapshot`, `RemoveObject`, `WriteGcState`, `WritePins`). Metadata files are
written in the order of their paths, as `defineGeneratedArtifactPlan` sorts them,
so the manifest comes last. `RemoveSnapshot` may remove any part of a directory
before it fails or crashes. `Fail` is a step that throws, `Crash` a process that
dies; both are bounded by `MaxFaults`, as are the failures of the lock itself.
`lock` is `Free`, held by a process, `Dead` (a file that names nobody alive), or
`Left(p)`: a file with the pid of `p`, which lives on but has no operation that
would give it back. It comes about when the acquisition throws at its sync or
close, after the pid was written (`AcquireFails`), when the release throws at its
read or unlink (`ReleaseFails`), or when the pid of a dead holder is given again
(`PidReused`); it refuses everybody until `p` exits (`Exit`). Apart from this the
lock is modelled as exclusive. `ReleaseBeforeWrite` is the `return writeState(…)`
without `await`.

**SnapshotText.** A text is a sequence of characters, each with its width in
UTF-8, and an object a sequence of bytes: those of its characters, and bytes of
metadata, of which only the length counts. A hash is what it is the hash of. The
operators carry the names of what they stand for (`Segments`, `MemoryPack`,
`SpoolPack`, `ManifestOf`, `TextVerified`, `TextRead`, `Unpacked`); loops over
segments are folds. Content keys sort by a hash, that is, in any order
(`Orders`).

**SnapshotContent.** Each snapshot of the store is given a tree of source files,
and its objects are the ones that the spool makes of it (`ContentAssumption`). The
comparisons of packers and readers are constant formulas over `Samples`, tied to
the states in which the store has a current snapshot.

**SnapshotLock.** A caller's `open(…,'wx')`, write, read with judgement, unlink,
and the three steps of its release are separate, and each may throw: a write that
fails leaves the file empty or, when it was sync or close, with the pid in it
(`WriteFails`), the others leave it as it is (`CallFails`). `Die` kills a process
with all its callers, and `Reuse` gives its pid to another, which `running` cannot
tell from it. `Misjudge` is a judgement that is wrong about a live process, since
the file could not be read or its process belongs to another user (`kill` then
throws, which counts as "not running"); the constant `Misjudged` allows it.
`quiet` is a history variable: no two calls were ever inside the acquisition
together, and nothing was misjudged.

**RendezvousHub.** `hub` is a record of the hub's own variables, so that a
callback that closes sessions, which broadcasts, which closes sessions again,
can be written as a composition of functions on it (`CloseSessions`,
`BroadcastScopes`). `authorizing` is the one await; its second field is the `now`
read before it. `view` and `missed` record what clients were sent. `options` are
chosen at the start, with three bounds among them: the sessions that may open,
the clock's last value, and whose sends may throw.

**DiscoveryClient.** `client` holds each client's variables, `socket` each
connection with the messages under way in both directions. The call of
`openSocket` in the constructor is the first "reconnect". `Opened`, `Deliver`,
`OnClose` are the socket's handlers, `Publish` and `Close` the methods, `Heartbeat`
fires once in a tick since its interval is shorter than the hub's time to live.
`Accept`, `Received`, `Disconnected` are the server's handlers; each contains the
hub's whole step and `Carried`, which puts the lists that the step sent on their
way (of several lists to one client in one step the last is kept; the earlier
ones are overwritten by it at once). A session that the hub has closed ignores
what still arrives. The network keeps the order of a connection; `Lost` tells the
client alone, `Disconnected` later tells the server, or never. `Restart` closes
the hub and puts a new one in its place. Tokens are right, so the server never
refuses a connection. `SocketsOf` and `Published` bound what a client does,
`Reserve` how many of its sockets are kept for the time after the last fault.

**PeerDialScheduler.** `Ids` are the dial state objects; `current` is the map from
peers to them. `pc` says which await a state's run is in. `up`, `inbound`,
`delivered`, `unclosable` are the network's side: a peer has a dialled connection,
one of its own, or both, closing hangs up both, and a dial may be answered with
the peer's own connection. The libp2p disconnect event is dispatched together
with the drop of the last connection. Retry delays are abstracted: a timer may
fire at any time.

**ArtifactPublication.** Slot 0 is the pointer, slot *i* object *i*. A request is
`queued`, `sent`, `landed`. A write that was sent and not answered stays `late`
when its request is given up, whether the budget ran out, the transport rejected
it or its socket was closed: it may take effect at any later time, or never. A
number in `store` or in `pointer` is the operation that wrote it. `confirmed`
says that no earlier receipt leaves the pointer's write `unknown`, which is when
the package's README asks for no reconciliation.

**GenerationStore.** `lock` holds the owner, `Left` for a directory whose maker
is gone. `SwitchCheck`/`Switch` and `PruneCheck`/`Unlink` are the two halves of
"assert owner, then change". The two directories that pruning lists are one set
of entries. `before`, `extra` and two fields of `reader` are history. `setting`
is chosen at the start: with a reader and an operator who removes what the dead
left, or without a reader and with one who removes the lock of live builders.

**OwnedScope.** `sup` and `helper` are records of the two programs' own variables;
`toSup` and `sup.out` are the queues. `sup.init` and `sup.fin` say which `await`
initialization and `finish` are in; both may be under way at once, and `finish`
may be entered a second time with another reason (`entered`, `final`). A request
fails when its channel closes or the closing deadline is over. `HelperBoots`,
`HelperReceives`, `StopEnds`, `OutputDrained`, `Abandon` and `HelperExits` are the
helper; `HelperDies` and `OwnerDies` are the faults. The refinement maps
`sup.authorized`, `told`, the processes and `sup.completion` to `ScopePromise`.

**RunningCommand.** `c` is a record of the command's variables; what its handlers
share (`beginTermination`, `finish`, `terminateOnce` …) are functions on it, as in
the code. `prov` is the provider's loop, `system` the process, its group and who
has its pid; `scope` the owned scope, whose actions are those of `ScopePromise`.
Output, heartbeats and diagnostics are left out, and the retries of the search
for an identity are one wait.

**ConfigImport.** A *version* of a file stands for bytes, inode and modification
time together, which is what `recheck` compares. Two of them have the bytes of the
bundle: "new" is what the import wrote or found, "same" somebody else's file. The
undo compares only bytes (`apply.ts:75`), so that `UndoRead` accepts both, and the
look after it holds the target against what `UndoRead` saw (`seen`). `pc` and `at`
say which call is next and for which entry; each call may throw (`Throw`,
`NotRestored`, the subset `left` in `Clean`). `Stage` and `Backup` end after any
number of `mkdir`s, and with or without the file. `committed`, `owned`, `made` and
`result` are the code's lists. `ChangeTarget` and `PlaceBackup` are somebody else;
`foreign` records what they did, and whether it fell into the gap between a last
look and the rename or unlink after it, which no code of this kind can close, and
whether the undo took a "same" for its own ("mistaken"): such a file may go, but
must then be reported as restored. The checks of paths, links and case aliases are
among the reasons why a call throws.

**ManagedRelease.** `co` is the coordinator, `state`, `history`, `receipt`,
`anchor` and `lock` the slot, `cloud` what Vercel shows and `requests` what is on
its way there. Each step of a coordinator ends with a write to the slot; the order
of `verify`'s receipt and settlement is abstracted. A request may arrive late or
never (`Arrive`), `Crash` ends the coordinator anywhere, `Recover` is a later
invocation. A publish continues the candidate of the latest receipt, which may be
older than a run that died and left none: then a promotion is sent twice, and
`OneWriteAtATime` does not count the promotions of such a deployment. Local
processes are reduced to whether their closure was proven; the candidate is
determined by its source. `posts` and `served` are history.

**PolicyResolution.** Manifests and requests are records; truth is one of
"true", "false", "unknown". The operators carry the names of the functions they
stand for (`validateRelations`, `addClosure`, `evaluateCondition`, …).
`addClosure` is the least closed set; `Extended` is one pass of the loop of
`stableTopologicalOrder`, which is a recursive function that repeats it. Schemas,
counts, wording and path patterns are left out: a path selector is the set of
path evidence it matches.

**PolicyRepository.** `calls` says what each call is, `call` how far it is, `reads`
which read is at which of its stages; `cache` and `reads` of a source are the
session's two maps. A file's content is the versions of its two halves, so that a
read or a write can be torn. An editor never returns to a version: edits that
restore an earlier content between two looks (A-B-A) are out of scope, here and in
the theorems. A check reads the sources of all policies and the documents its
checks name (`documents`); the half of it that looks for scripts in `package.json`
files, which it alone reads, is left out, so that a complete check is one in which
`checkPolicySources` found nothing. A gone file
stands for every reason why a source cannot be read. `inspectRepositoryFile` is
one step: it resolves the path and then looks at the resolved file, and a second
inspection after the read compares both. The end of a shared read and the
continuations that wait for it are one step too, as nothing but microtasks runs
between them. The manifest does not change during a run.

## 3. Runs

| run | instance | what it shows |
| --- | --- | --- |
| `snapshot_store` | 2 processes, 2 snapshots that share an object, 1 pin, clock 0–1, 1 fault (of a step, a process or the lock); texts of up to 3 characters of 5 kinds and pairs of some longer ones, 4 pack options, 2 read limits | `CurrentReadable`, `AbandonedOnlyByFaults`, `AckedPinsHold`, `LockHeldByWorker`, `PackersAgree`, `VerifiedReads`, `SnapshotsUnpack`, `OnlyRecordedOrphansGo`, refinement `ReaderSpec` |
| `snapshot_pins_race` | 2 processes, no fault | *violated*: `AckedPinsAlwaysHold` |
| `snapshot_lock_race` | 4 calls of 3 processes that may die, nothing misjudged | *violated*: `Exclusive` |
| `snapshot_orphans` | 2 processes, 2 snapshots that share an object, no fault | *violated*: `ReferencedRestAnew` |
| `rendezvous` | six hubs. Called in any way: 3 sessions that send 2 messages each; 3 sessions of 1 message, 2 sessions of 2, with sends that fail; 2 sessions, room for one scope of one peer, clock 0–2. With clients: one that moves into the scope of another, with 3 and 2 sockets; one alone with 4 sockets and a clock 0–2 | `RegistryConsistent`, `ListsCurrent`, `TimestampNeverDecreases`, `ExpiredAreClosed`, `LatestIsListed` |
| `process_control` | an owned scope with 1 descendant at a time, one death of helper and of caller; or one command: direct, owned, or owned with a manual gate; fair | refinement `PromiseKept`; `ScopeEnds`, `EndHonest`, `NoLateAuthorization`, `ResultComes` |
| `managed_release` | 3 runs over 2 sources, 1 crash, with an alias or a completion | `OneWriteAtATime`, `RecordsHonest`, `CompletionNeverForks`, `PendingCompletionBlocks` |
| `promoted_twice` | the same | *violated*: `NeverPromotedTwice` |
| `config_import` | 3 entries at three depths, all policies and first contents, any call failing, one foreign change per target, to the bundle's own bytes, too | `ResultHonest`, `OriginalsKept`, `ForeignSurvives` |
| `artifact_publication` | 3 objects, 2 workers, 2 operations, fair | `PointerAfterObjects`, `ReceiptHonest`, `OperationReturns` |
| `generation_store` | 2 builders, 3 generations, a reader, an operator who removes dead locks; or 2 generations and one who removes live locks | `CurrentReadable`, `StoreBounded`, `OutcomesHold`, `LostLockStops` |
| `dials_and_policy` | 2 peers, one of which also connects to us, 2 dial states for this one and 1 for the other, 2 retry delays, fair. Or 120 manifests of 3 policies, sound and not, under every request about 2 facts and 2 paths; or 2 policies with a source each, 2 calls of a session, a bundle or a check with a document, with and without preload, 2 or 3 changes of the files | `ConnectedIsUp`, `EveryConnectionOwned`, `DialsEnd`; `ResolutionSound`, `ResolutionUsable` (`AskedIsEnough`, `RequirementsFirst`), `DeliveryHonest` (`SourcesDelivered`, `WithinLimits`), `OneVersion` |

Each property has a mutant of the code in `PROJECT.json` under which it fails.
Every module states its `TypeOK` (`SystemTypeOK` for the composed rendezvous); TLC
confirmed it for each instance, and the configurations leave it out in favour of
the properties above. `process_control` and `dials_and_policy` put two components
into one run: the first state chooses which of them is at work, the other stays
where none of its fair actions is enabled.

**Bounds and why they are enough.** Two processes suffice for every race between a
holder and a newcomer; the lock needs a third (and a second call in one process)
because a takeover involves the dead owner, the reader and the one that came in
between. One fault is enough to stop an operation between any two steps and to let
a second one run over what it left, since the faults of an operation that starts
from a damaged store are those of the first again; that two faults abandon no more
than two directories, and any number no more than that, is proved. Two snapshots
sharing an object distinguish "not listed by this manifest" from "listed by none".
Texts of three characters have every way a line can end, a character that does not
fit where another does, and a mark at a boundary; the pack options make objects of
one segment, of several, and of chunks of a line. Three dial states let one peer
be dropped and considered again while its first dial is unfinished and another
peer is dialled. In the hub one advertisement pair shares a scope, one pair shares
a peer, so a session can move, replace and be replaced; three sessions are needed
for a broadcast that fails to a third party, and a second message of each for a
session that moves while another replaces it. What clients' listeners know
(`Quiet`) is claimed of connections on which the last send did not throw. A client
needs a socket that is lost, one that a late message of the first may cost it, and
one on which it stays; where its heartbeats may be late, a fourth that this costs
it. `Reserve` keeps these back, so that "ends up listed" is not refuted by running
out of sockets. Three objects with two workers make one worker take a second
object. Two operations let a late write of one land in the other. The clock needs
as many values as a period has ends: before and at expiry. One descendant of an
owned command stands for any number, as the subreaper only asks whether there are
some. In an import three entries allow one to be committed, one to fail and one to
be untouched, and to undo two; one of them two directories down shows in which
order directories are made and removed. Three runs of a release are a first one
that is interrupted, one that settles or retries it, and one that may wrongly
overtake; an instance with all four combinations of alias and completion (9.5
million states) agrees with the two that are configured. Three policies allow a
chain of requirements against the order, a shared one, a cycle and a conflict that
only arises through a requirement; the six assertions of a fact are those that
`Known` and the validation of requests tell apart. Of a source that is read, one
change between a look and a read, and one between that read and the next look, are
the two that could deceive; a third change lets a bundle meet both and one more.

`CHECK_DEADLOCK FALSE` is set where all actors may have ended: the callers of the
lock have returned, the hub is closed, the clients' sockets or the dial states
are used up, the last operation has returned, builders wait for an operator, a
scope, a command or an import has ended, all runs of a release were used, or all
calls about policies were answered.

**Fairness.** `SnapshotStore`, `GenerationStore`, `ConfigImport`, `ManagedRelease`
and `PolicyRepository` need none: their properties are safety.

- `DiscoveryClient` with the hub: the sweep, a `setInterval`; the server's
  handlers and the consumer's authorization, taken together; for each client what
  its socket delivers and its reconnect timer. Publishing, heartbeats, closing,
  losing a connection, telling the server of it, restarting and the clock are not
  fair. The first two are stated as "infinitely often not enabled or infinitely
  often taken", which is weak fairness with the enabling condition written out.
- `PeerDialScheduler`: the steps of a dial that has begun; `connect` and `close`
  settle by libp2p's own limits, `onConnected` by its consumer.
- `ArtifactPublication`: timers and the continuations of promises; no step of the
  transport is fair.
- `OwnedScope`: the supervisor's continuations and its closing deadline, the
  helper's reading of its queue, its answers and its exit; starting, terminating,
  the command, its descendants and all faults are not fair.
- `RunningCommand`: the continuations and deadlines of the command and the exit
  event of a dead process. The provider and the scope are not fair; `ResultComes`
  speaks of scopes that complete, which `ScopeEnds` shows of `OwnedScope`.

## 4. Findings and observations

1. `pins.ts:100`: `return writeState(…)` inside `try … finally` is not awaited; the
   lock is released before the pins file is written (`snapshot_pins_race`).
2. `lock.ts:9`: the lock file is created empty and read as stale by a contender
   before it is written (`snapshot_lock_race`). `SnapshotStore` therefore speaks
   of stores whose acquisitions do not overlap; the proofs show that the
   lock does its job then (`QuietLockExcludes`).
3. `retention.ts:62` of the package's core: an orphan keeps the time it was first
   seen unless a prune runs while a retained snapshot lists it. An object that a
   publication lists again, and that is dropped again before the next prune, is
   deleted without resting anew; `docs/packages/repository-tooling/source-snapshot.md:60`
   says that its orphan state is cleared (`snapshot_orphans`).
4. `prebuilt-publication.ts:120`: a run that died after its POST of a promotion left
   no receipt; after `recover` the next publish continues an older receipt
   (`managed-release.ts:54`) and promotes the same deployment again.
   `docs/packages/release-tooling/release-vercel.md:79` says that a lost response is
   not sent again automatically, and `tests/managed-prebuilt-publication.test.ts:24`
   that a candidate is never promoted twice (`promoted_twice`).

Observed while modelling, without a run of their own:

- *Snapshot store* (`publish.ts:208`, `retention.ts:179`). A recursive removal that
  dies half-way may leave a snapshot with its manifest and without its other
  metadata; publishing the same snapshot again then activates it as it is.
- *Snapshot lock* (`lock.ts:9`). When sync or close throws after the pid was written,
  or the release at its read or unlink, the file of a live process stays, and every
  later operation is refused until that process ends, also those of the process
  itself. `running` takes every error of `kill` for "not running": a lock held by
  another user's process is taken over.
- *Snapshot text* (`text-reader.ts:71`). `decodeBody` decodes each segment with a
  `TextDecoder`, which drops a leading U+FEFF, while `node/text-verification.ts`
  hashes the bytes. A file one of whose segments begins with U+FEFF after
  normalisation is published and verifies, and `readSnapshotText` then always
  refuses it for its integrity; `VerifiedReads` names the case (`Marked`).
- *Snapshot text* (`node/text-verification.ts`). The `endLine` of a segment is
  not compared with the newlines in its body; only the last line of a file and
  the order of the segments are.
- *Dial scheduler* (`peer-dial-scheduler.ts:136`). Over libp2p, closing the
  connection of a failed set-up disconnects the peer, so the listener drops the
  state before the scheduler looks at its remaining retries; with a network that
  does not report its own hang-ups the set-up is retried. In the model this is
  `HangUp` followed by `HungUp` of a state that is no longer current.
- *Rendezvous* (`rendezvous-hub.ts:223`). A registration of an old connection whose
  authorization ends late replaces the session of the client's new connection; the
  client is hung up and connects a third time. `LatestIsListed` holds all the same.
- *Command runner.* The result of a direct command that was never identified may
  be "abort" while its process still lives; and between the check of an identity
  and the signal the pid may pass to another process, which no code can exclude.
  Descendants of a direct root that has exited are not looked for.
- *Configuration import* (`apply.ts:75`). The undo takes a target for its own by its
  bytes: a file that another writer put there with the same bytes after the commit
  is undone, too, and reported as restored.
  `docs/packages/artifacts/config-bundle.md:63` leaves concurrent writers to the
  caller.
- *Managed release.* With a further run for another source between the two
  promotions of finding 4, the first of them, arriving late, would take production
  back. A crash between the acquisition of `run.lock` and the first
  write of the state leaves a slot that only an operator can free. Resuming an
  older receipt after a completed completion makes the state invalid and keeps
  the lock until `recover`.

## 5. Proofs

All proofs are for any value of the constants that meets the named assumptions,
which TLC evaluates in the runs. An induction over data that a proof needs (the
passes of a loop, a sum over a set) is made by a least counterexample, with
`WFMin` and the well-foundedness of the naturals or of the subsets of a finite
set, because the induction theorems of the library take an operator.

### Snapshot store (`SnapshotStoreProofs`)

For any sets of processes, snapshots, objects and pins, any `Grace`, `KeepCounts`
and number of faults; from `SnapAssumption` (identifiers are distinct, snapshots
and objects are numbered), `LockAssumption` and `BoundAssumption`:

| theorem | statement |
| --- | --- |
| `TypeCorrect` | `Spec => []TypeOK` |
| `CurrentAlwaysReadable` | `Spec => []CurrentReadable` |
| `ManifestsHaveObjects` | `Spec => []NoDanglingManifest` |
| `OnlyRecordedObjectsGo` | `Spec => OnlyRecordedOrphansGo` |
| `LockAccountedFor` | `Spec => []LockHeldByWorker` |
| `DirectoriesAreComplete` | `Spec => []AbandonedOnlyByFaults` |
| `AckedPinsAreKept` | `Spec => []AckedPinsHold` |
| `StoreImplementsReader` | `Spec => ReaderSpec` |

The inductive invariant is `SafeInv`:

- `TypeInv`: types, and a publication past its plan has a target. Neither is
  inductive without the other, as `ObjectsOf[target[p]]` must make sense.
- `LockHeld`: whoever is inside an operation's locked part holds the lock. It
  turns "somebody else could change the disk" into a contradiction.
- `StoreInv`: `CurrentReadable` and `NoDanglingManifest`, strengthened by what
  the steps of a publication and of a prune have established so far: a
  publication that writes metadata has all its objects, one that activates is
  verified; a prune's plan spares the current snapshot, its snapshots are removed
  before its objects, and what it will delete was recorded as an orphan for the
  grace period.

`LockHeldByWorker` says what may become of the lock file when its own calls fail: a
process keeps the lock only inside an operation, without a fault the file never
stays behind, and beside one that did nobody works in the store. Beside `SafeInv`,
`DirectoryInv` counts directories: a prune removes its snapshots newest first, so
that only one of them can be half removed when it ends (`NewestFirst`), and each
fault, in which an operation ends, adds that one or the one a publication was
making. `AckedPinsHold` holds as long
as nobody took the lock while a pin operation that had released it was writing
(`~acked.raced`); `PinInv` says that until then the writer of the pins file is
alone (`PinWriterAlone`), writes what the file has but for its own pin
(`PinWriterKnows`), and that a prune deletes no snapshot an active pin protects
(`PinsSpared`).

`LockStep` and `TypeStep` preserve the first two alone; `SafeStep` has one case
for each action that writes to the disk and treats the others at once. The
refinement maps `entry` and the set of verified snapshots to `CurrentSnapshot`;
`WriteFile` of the manifest is `Complete`, `RemoveSnapshot` of it is `Retire`,
`WriteEntry` is `Activate`, every other step a stutter.

### Snapshot store lock (`SnapshotStoreProofs`)

For any callers and processes (`ConstantsOK`), as long as `quiet` holds:
`QuietLockExcludes` (two calls never both hold the lock) and `WhoRefuses` (a call is
refused only by the written file of a call that holds the lock, that failed after
writing it, or whose dead process left its pid to a new one). Any of the calls may
fail, and pids may be given again; `quiet` also excludes a misjudged file. The
inductive invariant adds to the types that only running processes make calls and,
under `quiet`:

- `OneAcquires`, which is what `quiet` means for the program counters;
- `FileIsOwn`: the file of a call that writes it, or holds the lock, is its own,
  so that nobody's release unlinks another one's file;
- `FileIsHeld`: a written file belongs to a holder, or to a call that failed or died
  with it, so that whoever unlinks a file of nobody alive takes no holder's;
- `TakeOverIsSafe`: between the judgement and the unlink nobody holds the lock,
  and a second attempt meets a free path.

### Peer dial scheduler (`CallbackProofs`)

For any peers, callers, dial states and number of retries (`DialAssumption`):

| theorem | statement |
| --- | --- |
| `DialTypeCorrect` | `DialSpec => []DialTypeOK` |
| `ConnectedPeersAreUp` | `DialSpec => []ConnectedIsUp` |
| `ConnectionsAreOwned` | `DialSpec => []EveryConnectionOwned` |

Neither property is inductive. `StillLinked` says why a dial may take its peer for
connected after the await of a set-up: as long as its state is the peer's, the
connection stands, for its end would have dropped the state. `Placed` and
`Created` tie a state in the map to its peer, so that a disconnect of one peer
leaves the states of others alone; `TimersCurrent` says that dropping a state
clears its timer, so that no dial starts for a state that is no longer in the map.
Every action preserves the invariant in one lemma.

### Running command (`CallbackProofs`)

For a direct and for an owned command, in any order of events, deadlines and
answers:

| theorem | statement |
| --- | --- |
| `TypeCorrect` | `Spec => []TypeOK` |
| `EndsAreHonest` | `Spec => []EndHonest` |
| `StartGateNeverLate` | `Spec => NoLateAuthorization` |

`IInv` adds to the types what is known of a command's record in each of its
states (`Told`): what has closed has exited, only a scope that reported closed
leaves a closure that says so (`ScopeTold`), a direct command is finished before
its process exits only after a failure or without an identity (`ChildTold`); and
that what has closed and is not finished waits for its termination (`Awaits`),
without which a later event could report another end. `ScopeClosed` says what a
completed scope leaves, `Checked` that the pid of a process whose identity was
confirmed has not passed to a stranger. The functions of the code have a lemma each
(`FinishEffect`, `RequestEffect`), as one callback calls several of them.

### Owned process scope (`CallbackProofs`)

For any number of descendants (`ScopeAssumption`), and without fairness:

| theorem | statement |
| --- | --- |
| `ScopeTypeCorrect` | `ScopeSpec => []ScopeTypeOK` |
| `ScopeKeepsPromise` | `ScopeSpec => PromiseKept`, that is, `ScopePromise` is implemented |

What the completion says of the processes was found out earlier, by a helper that
may be dead by then: `proven` is read from an answer, the answer from the reaper.
The invariant `ScopeInv` says why it is still true. `Over` is what makes it so: no
process is left, finish was entered, and no start is on its way to the helper any
more. A true answer to `inspect` or `stop` on its way, `proven` and a completion
to come each imply it (`Knows`); it stays true because requests are handled in
their order and no start is asked for behind one that closes (`Ordered`). That
closed is said only of a scope nobody told to stop follows from `Natural`: once
finish is past its start, its reason is normal only after the command's own exit,
and a call of `terminate` changes the reason for good. `Listens` says which
`await` the answer to each request belongs to, so that none moves finish from a
place it has left, and `HelperKnows` what the helper's flags say of the command.

The functions the supervisor's steps are made of have a lemma each
(`FinishScopeMoves`, `ForceOnceMoves`, `AnsweredMoves` …): from a state that is
sound on its own (`Minds`) they lead to one that is, and neither authorize nor
complete. Then each action has a lemma: `Authorize` is the promise's `Authorize`,
`Terminate` its `Stop`, the start taken by the helper its `Start` (`StartedStep`:
nothing claims emptiness as long as a start is on its way), a process that ends
or is killed its `End` if it was the last, `Complete` its `Complete`; every other
step is a stutter.

### WebSocket rendezvous (`RendezvousProofs`)

For any sessions, scopes, peers, clients and options, the hub called in any way
or by its clients, from `AdAssumption`, `LimitAssumption`, `OptionsAssumption`,
`ClientAssumption` and `SocketAssumption` (every socket is a new object, and a
client speaks for one peer):

| theorem | statement |
| --- | --- |
| `TypesAreKept` | `SystemSpec => []SystemTypeOK` |
| `RegistryStaysConsistent` | `SystemSpec => []RegistryConsistent` |
| `TimestampsNeverGoBack` | `SystemSpec => TimestampNeverDecreases` |
| `ListsStayCurrent` | `SystemSpec => []ListsCurrent` |

A callback closes sessions, broadcasts, closes those whose send failed and
broadcasts again: the registry is consistent only when it is through. So the
parts of the invariant are stated for any state `h` of the hub, some of them
but for the sessions or the scopes still in work (`EnteredBut`, `CurrentBut`), and
`RemovalEffect`, `BroadcastEffect`, `ClosingKeeps` and `RegisterKeeps` carry them
from one intermediate state to the next; that a broadcast reaches an end is the
induction over the finite registry in `ClosingEffect`. `Clocks` says that a
registration awaiting its authorization will not get a time before its
session's: so timestamps never go back although the time is read before the
await.

For the clients, `ClientInv` relates both ends of a connection by what is under
way on it: the last list on its way is the last that was sent (`LastList`), and
the last registration on its way, else the one that waits for authorization,
else the registered one, is the client's advertisement (`Latest`). A step of the
server is taken in two parts, the hub's step and `Carried`. Connections on which
a send threw are not spoken of (`missed`).

### Artifact publication (`ArtifactPublicationProofs`)

For any number of objects, workers and operations (`PlanAssumption`):

| theorem | statement |
| --- | --- |
| `PointerNeverDangles` | `Spec => []PointerAfterObjects` |
| `ReceiptsAreHonest` | `Spec => []ReceiptHonest` |

Everything rests on `EffectKeepsGood`: an object that is good stays so whatever
lands late, as a write creates and never replaces. `PointerInv` then carries the
first theorem: a request for the pointer is made only when all objects are good,
so that it may land at any later time, in a later operation too. For the second,
`WorkerInv` relates what a worker recorded to the store, `PhaseInv` the place of
`run()` to the budget, `LateInv` says that a write given up in this operation
stays `unknown`, and `ClosureInv` what a success rests on: when no earlier receipt
leaves the pointer unknown, no earlier write of it can come late.

### Generation store (`GenerationStoreProofs`)

For any builders, generations and settings (`StoreAssumption`):

| theorem | statement |
| --- | --- |
| `TypeCorrect` | `Spec => []TypeOK` |
| `CurrentAlwaysReadable` | `Spec => []CurrentReadable` |
| `StoreStaysBounded` | `Spec => []StoreBounded` |
| `OutcomesAreTrue` | `Spec => []OutcomesHold` |
| `LosersStop` | `Spec => []LostLockStops` |

With an operator who only removes what the dead left, one builder at most is at
work (`OneBuilder`); under this, `PruneInv`, `CandidateInv`, `SwitchInv` and
`OutcomeInv` say at each of its steps which files there are besides the current
generation and its own, and what it has and has not done to the pointer. The
reader is bounded because each pointer that it finds stale stands for a switch
made after it was read (`ReaderInv`). With an operator who removes live locks
only `LostInv` is left: a builder that acted after it lost its lock has met the
check that stops it, and never gets to where it acts again.

### Configuration import (`ConfigImportProofs`)

For any number of entries and any paths (`SizeAssumption`, `PathAssumption`, and
`TreeAssumption`: a directory has the same depth and the same parent in every
path, as directories do):

| theorem | statement |
| --- | --- |
| `OriginalsNeverLost` | `Spec => []OriginalsKept` |
| `NobodysChangeUndone` | `Spec => ForeignSurvives` |
| `ResultsAreHonest` | `Spec => []ResultHonest` |

`IInv` is `Shape /\ ForeignInv /\ BackupInv`. `ForeignInv` says what the import
still takes for true of a target it has yet to change: it was not touched since
the last look, or the change fell into the window between that look and the call
after it (`AheadIsKept`, `WindowIsOpen`); then a change outside the window is
still there (`Survives`), unless it has the bytes of the bundle and the undo took
it for the import's own, which is noted when it does (`ReadIsOwn`) and reported.
`BackupInv` follows a backup from the list of what may be removed to the list of
what is reported: on the first it may be partial, on the second it is complete,
never on both (`BackupsAreTold`), and every target that is or may soon be
overwritten has one (`BackupsComeFirst`).

`ResultsAreHonest` adds three invariants. `ReportInv` ties what is reported of
targets to what they are: a target nobody else touched is new exactly while it is
committed and not restored (`TargetsFollow`), and the undo has dealt with the
commits behind its place (`UndoneSoFar`). `FilesAreTold` says of every temporary
file and incomplete backup that it is on the list of what must be cleaned up, or
reported. `DirsInv` does the same for directories, with their order: a parent is
made before and removed after what is in it, which is where the tree is needed.

### Repository policy (`PolicyRepositoryProofs`)

For any manifests, requests, files, calls and limits, from `RanksAssumption`
(sources are finitely many, ordered, and not callers), `RequestsAssumption` (the
fields of a request), `SizesAssumption` and `LimitsAssumption` (sizes and limits
are numbers) and `CasesAssumption` (the fields of a manifest; finitely many
policies with an order, each with a source; files that nobody is in the middle
of writing at first):

| theorem | statement |
| --- | --- |
| `ResolutionsAreSound` | `Spec => []ResolutionSound` |
| `AnswersAreEnough` | `Spec => []AskedIsEnough` |
| `ResolutionsAreUsable` | `Spec => []ResolutionUsable` |
| `SessionsKeepOneVersion` | `Spec => []OneVersion` |
| `SourcesAreDelivered` | `Spec => []SourcesDelivered` |
| `DeliveriesAreHonest` | `Spec => []DeliveryHonest` |

*Resolutions.* `ResolutionsAreSound` rests on `ResolutionIsRight`, a fact about the
operators alone: by the truth of selectors, facts, clauses and conditions
(`Right`) the policies taken for required apply in every world the request is
true to, and those that apply are required or candidates; closures are monotone,
closed and least, which carries this over to requirements and conflicts.
`AnswersAreEnough` compares the evaluation of a request with that of the answered
one: of each part of a condition, what was decided stays so, and what was
unknown for nothing but the facts and the paths now answered is decided
(`Better`, `Improves`); as everything asked for is answered, nothing is left to
ask. `Answers` and `Asking` are the
invariants that a call's resolution is that of its request.

*The order.* `ResolutionUsable` adds that policies come after what they require. A
manifest without a missing requirement and without a cycle is grounded: every
part of its policies has one that requires none of that part
(`ManifestIsGrounded`, by a least part without one). So each pass of the loop finds a
policy to append, `Sorted` is kept by a pass (`ExtendedIsSorted`), and as many
passes as there are policies place them all (`OrderIsSorted`).

*Sessions.* `SessionsKeepOneVersion` has the invariant `Keeping`. The property
itself speaks of what two calls were handed; inductive is that each was handed
what the cache holds (`FromCache`), for which a source that is in the cache must
not be read again (`ReadOnce`). A cache entry is made by preloading, before any
call (`Fresh`, `AfterOpening`), or by the shared read that a call waits for, while
session calls have no reads of their own (`NoOwnReads`); `Todo` and `Shape` say
that a waiting call waits for a source of its own, and keep the records in shape.

*Deliveries.* `SourcesDelivered` says that a complete call has all it selected,
each as it was on disk at one moment, as long as no file returns to an earlier
version. A read takes the halves of a file one after
the other, and twice; versions only grow, so that what it found equal in both
looks was there in between, whatever was half written (`ReadGood`). `CallsInv` and
`SessionInv` follow the sources a call, or a preload, has still to inspect and to
read. `WithinLimits` needs `Counting`: before anything is read, the sizes looked
at add up to no more than the limit, or what is charged to a session's call is
the size of what it was handed; a read ends with at most the size that was
looked at. Sums are over sets, so `SumIsNat`, `SumAtMost`, `SumChanged` and
`SumOfNothing` are proved for `MapThenSumSet` first.

### Managed release (`ManagedReleaseProofs`)

For any sources, any number of runs and posts, requests lost, late or seen
later, and a crash at any place (`ReleaseAssumption`):

| theorem | statement |
| --- | --- |
| `TypeCorrect` | `Spec => []TypeOK` |
| `WritesExclude` | `Spec => []OneWriteAtATime` |
| `RecordsTell` | `Spec => []RecordsHonest` |
| `CompletionsAgree` | `Spec => []CompletionNeverForks` |
| `CompletionBlocksWrites` | `Spec => PendingCompletionBlocks` |

None of them is inductive, and none can be shown without the others' parts:
`IInv` is `RecordPart /\ RemotePart /\ LinePart`.

- `RecordPart` is about the slot. `SlotOK` says whose `state.json` and the lock are
  before, during and after a run and its recovery. `RecordsOK` compares every
  record with what was ever done at Vercel (`World`), which only grows, so that a
  record once honest stays so; `PcGood` says what the coordinator has done to its
  candidate at each place, `ProofsOK` that proofs of earlier intents stay true.
- `RemotePart` is about what is under way. A request that may still arrive is an
  unresolved intent of its run's record, there is no trace yet of its effect, and
  no proof resolves it (`RequestOK`). That is why `MutationGuard` lets a write
  through only when no other is under way (`GuardAlone`). All this is claimed of
  requests that are not one of several promotions of a deployment (`Binding`,
  `Replayed`): what Vercel says of such a promotion may be true of the other one.
  The theorem counts every write but these.
- `LinePart` is about completions. The records of one origin are prefixes of the
  longest ones among them, which agree on whether they are done (`Prefixes`,
  `Rooted`, `Led`); a run works on a longest one. Four lemmas say what the steps
  do to such a line: a record copies its longest (`LineCopied`), starts it
  (`LineStarted`), adds an attempt (`LineExtended`) or ends it (`LineEnded`).
  `BlocksOK` keeps what the admission of a publish has seen of the others.

Each action has a lemma of its own; those that only save a record, go on, or post
a request go through `SaveStep`, `GoStep` and `SendStep`.

### Model-checked only

- Liveness (`ExpiredAreClosed`, `LatestIsListed`, `DialsEnd`, `OperationReturns`,
  `ScopeEnds`, `ResultComes`): fairness and ENABLED are beyond the prover.
- `PackersAgree`, `VerifiedReads` and `SnapshotsUnpack`: what folds over texts,
  segments and objects compute, for every text.

## 6. Not modelled, and plan

Left out for good, with the reason: system calls and job objects of the native
scope back ends, reading of git work trees and archives, HTTP, signing and XML of
the COS transport, argument parsing and presentation (input and output without
state of their own); byte formats, path rules and scanners (strings that tests
reach better); ranking in context search (real arithmetic); the scripts below
`src/scripts`, which build and release the repository itself.

Within reach, in order of weight:

1. `SlotLocks`: the locks of a release slot. `openManagedSlot` looks for
   `recover.lock` before and after it takes `run.lock`; recovery and retirement
   claim in the other order, inspect the owner, archive and unlink. To be shown:
   opener and recovery exclude each other, the lock of a live coordinator is never
   removed, and a run's lock goes only after its disposition is archived.
   `ManagedRelease` takes this for granted today.
2. `ProtocolRegistration`: handlers of libp2p channels, registered and removed
   asynchronously.
3. Operator modules: `WorkspaceGraph` (topological order, cycles, dependents),
   `LineDecoder` and the frame decoder against decoding of the whole input,
   paging of the repository context.
4. Listing of processes and listeners by the process control provider.
