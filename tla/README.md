# A TLA+ development of scorer

Scorer is a Lightning node built on LDK. Its purpose is to send *probes*,
payments that are meant to fail at their destination, and to keep the routing
scorer that learns from them; around that it is an ordinary node with a command
line, payments, peers and a bitcoind behind it. The modules here model the parts
of it that keep state of their own, as the source has them (`src/src/...`), with
LDK, bitcoind, the network and the file system as their environment.

## The system

| Component | State it keeps | Operations | Interacts with |
|---|---|---|---|
| probe tracker (`probing/tracker.rs`) | three hash maps under one `std` mutex: pending (oneshot senders), completed, timed out | `register_probe`, `complete_success`, `complete_failed`, `mark_timed_out`, the prune inside each | probing task, event handler |
| probing task (`probing/runner.rs`, `sender.rs`) | place in the loops over peers, amounts and random recipients; the probe it waits for | interval, attempt (send, register, await with a timeout), delays | tracker, LDK |
| outbound records (`cli/commands/payment.rs`, `cli/mod.rs`, `events/mod.rs`, `main.rs`, `state.rs`) | a map under an async mutex and its file | pay an invoice, an offer, a name, a keysend; `PaymentSent`, `PaymentFailed`; repair at start-up | LDK, `FilesystemStore` |
| inbound records (same files) | a map under an async mutex and its file | `getinvoice`, `PaymentClaimable`, `PaymentClaimed`, read at start-up | LDK, `FilesystemStore` |
| spendable-output migration (`sweep.rs`) | three directories and a sentinel file | move, concatenate, track, remove, mark done | file system, `OutputSweeper` |
| rapid gossip sync (`rapid_sync.rs`, `main.rs`) | the timestamp file; the graph it feeds | initial and periodic sync, retries | HTTP server, network graph |
| peer connections (`net/peer.rs`, `cli/commands/peer.rs`, `main.rs`, `events/mod.rs`) | the connections of LDK's `PeerManager`, the stop flag | reconnect, DNS bootstrap, commands, `ConnectionNeeded`, listener | `PeerManager` |
| start-up and shutdown (`main.rs`, `disk.rs`) | `keys_seed`, the files LDK's objects are read from, the chain tip; the background processor's handle | make or read the seed, read, synchronise, launch, follow the chain; select, stop, disconnect, last-ditch write, join | file system, bitcoind, LDK, all tasks |
| DNS bootstrap (`dns_bootstrap/`, `main.rs`) | the round: peers to ignore, seed, records, peers found | tick, query, go through the records, dial | DNS, connections |
| fee polling (`bitcoind_client.rs`, `convert.rs`) | eight atomic fee buckets | poll and store every minute | bitcoind, LDK |
| funding (`events/funding.rs`), channel commands (`cli/commands/channel.rs`), the other channel events (`events/mod.rs`), wallet and broadcaster (`bitcoind_client.rs`) | the event in hand | open, close; create, fund, sign, submit; accept; bump; track outputs; broadcast | bitcoind, LDK |
| configuration (`config.rs`, `args.rs`, `runtime_config.rs`, `dns_bootstrap/config.rs`) | none | load, validate, default | start-up |
| scorer key remapping (`persist.rs`) | none | the key of each store call | `FilesystemStore`, start-up |
| file logger (`disk.rs`, `logging.rs`) | open file and its date | log, rotate | everyone |
| hex utilities, display, types | none | conversions, printing | |

What is hard here: the tracker is called by two tasks in an order that depends
on the network; the payment maps are changed under a mutex but written after it
was dropped, by tasks whose writes may overtake each other; LDK replays events
after a crash and forgets others; the migration is seven file-system steps with a
crash between any two; the sync timestamp and the graph it describes are
persisted apart; dials begun before a shutdown end after it; a start puts together
files written at different blocks while blocks go on coming, and may be cut off at
any of its steps; channels come and go while the one event handler waits for
bitcoind to fund them. `PROJECT.json` has
each of these as a hazard at its line, with the properties that cover it.

## Modules

| Module | Models |
|---|---|
| `ProbeTracker` | the tracker: one action per method (each runs with the mutex held), time as the age of each timed-out entry |
| `Probing` | the probing task with the tracker, the event handler's probe arms, LDK, a poisoned mutex and restarts; EXTENDS `ProbeTracker` |
| `ProbeAttempt` | abstract: what one attempt promises, with no table, channel or mutex; `Probing` implements it (`ImplementsAttempt`) |
| `ProbingProofs` | theorems about `ProbeTracker` and `Probing`, the refinement of `ProbeAttempt` |
| `MCProbing` | the instances of `Probing` |
| `VersionedFile` | one file of LDK's `FilesystemStore` (external): the call orders the writes, which then run concurrently |
| `OutboundPayments`, `InboundPayments` | the records, their file, the commands, the event handler, LDK and crashes; EXTEND `VersionedFile` |
| `OutboundPaymentsProofs`, `InboundPaymentsProofs` | theorems about them |
| `SweepMigration`, `SweepMigrationProofs` | the migration, one action per file-system step; theorems about it |
| `RapidSync` | the sync, its files, the graph and its persistence, crashes |
| `FeePolling` | the fee buckets and the task that polls bitcoind |
| `PollingProofs` | theorems about `RapidSync` and `FeePolling` |
| `Connections`, `MCConnections` | the tasks that dial, the listener, the background processor's life and the shutdown |
| `Startup`, `StartupProofs` | the start from the seed file to the spawned tasks, stops and power losses, what earlier processes left on disk, the task that follows the chain; theorems about them |
| `NodeConfig` | the configuration as operators: parsing defaults, `validate`, `load`, `get_network`, the periods |
| `DnsBootstrap`, `MCBootstrap` | main as the user of a configuration, and the bootstrap task; EXTENDS `NodeConfig` |
| `PeersProofs` | theorems about `Connections`, `DnsBootstrap` and, through it, `NodeConfig` |
| `Channels`, `ChannelsProofs` | the commands and events of channels, the event handler's calls to bitcoind's wallet, broadcasting, crashes; theorems about them |

Two of the proof modules extend two independent specifications each. That is why
`FeePolling` calls its formulas `FeeInit`, `FeeSpec`, ... and `DnsBootstrap` calls its
own `BootInit`, `BootNext`, `BootSpec`, ...

### How they correspond to the code

*ProbeTracker.* `pending`, `completed` and `timedOut` are the three maps.
`Pruned(m)` is the set of results `prune_timed_out_probes` may have: ties of age
are broken by the hash map's iterator, that is, in any way. Ages saturate just
beyond the TTL, where all behave alike. `channel[h]` is the oneshot channel as its
receiver sees it.

*Probing.* `pc` names the await (or call) the task is at. One attempt is
`SendProbe`, `Register`, then `AwaitReady`, or `AwaitElapsed` and `MarkElapsed`; the
handler's `ProbeEvent` may come between any two. `tokio::time::timeout` polls the
receiver first, so a timeout is taken only on an empty channel. `reservoir_sample`
is any sample of the right size. `SortOrder` is an order in which the amounts ascend,
which is all the loop depends on. LDK answers a probe at most once in a process's
life, perhaps never; after a restart it may answer what it still knew. Hashes
nothing refers to are used again, so the number of probes is not bounded.
`orphan` and `ladder` are history: hashes whose timed-out entry was pruned or lost
in a restart, and the hashes sent to the current peer in this round.

*Payments.* A command or an event arm changes the map and calls
`fs_store.write` in one step under the mutex (`Update`), and goes on when the future
is done (`PendingPersisted`, `EventHandled`, ...). `VersionedFile` gives a write its
place at the call; a write that reaches the file after a later one is skipped and
reported as done. LDK delivers again an event not persisted as handled; a payment
whose HTLC was not committed before the crash never happened. BOLT11 ids are the
payment hash, so an invoice paid again meets its old record; other ids are fresh.
A file that cannot be opened or decoded is an empty map (`RestoreUnread`,
`RestartUnread`), which the start-up itself, or for received payments the next
command or event, writes over the file; the histories `unread` and `dropped` are the
records at stake in between and those lost so.

*SweepMigration.* `pc` is the step of `try_migrate_deprecated_spendable_outputs`;
`Faults` is the set of operations that may fail. A blob is the sequence of files it
concatenates; it decodes up to the first corrupt or unreadable one, and to nothing if
its length cannot be had (`"metadata"`). `Path::exists()` is false of what cannot be
looked at (`"stat"`, `SeenAbsent`). The store's temporary file lies in the directory that
is read later, so `RestartWhilePersisting` leaves a prefix there. The histories are
`warned`, `unsized` (skipped without a word) and `unfound` (there when no directory was
seen).

*RapidSync.* An update is known by its time. `stamp` is the file
`rapid_sync_state`, which `File::create` empties before it is written; `Finish` is
the return into the start-up or the periodic task, of which the second exists only
if the initial sync succeeded.

*Connections.* A connection is known to the `PeerManager` (`live`) once
`connect_outbound` or `setup_inbound` registered it, and `up` after the handshake.
Each task checks the stop flag where the code does: reconnect before each peer,
bootstrap once a round, the listener after `accept`, the commands and the
`ConnectionNeeded` task nowhere. `bgRes` is what the `select!` saw of the background
processor: only a panic it saw leads to the last-ditch write. `Reach` says which peers
each task may meet, `Addresses` how many addresses of a peer are known that are not
onion ones (the reconnect task and `ConnectionNeeded` try them in turn; a peer with none
is passed over); `MaxLive` and `MaxRivals` bound the connections and the other tasks at
work at a time.

*FeePolling.* A round is five calls (`Answered`, `NoEstimate` or `CallFails`, each an
await) and eight `Store`s, atomics that other threads read in between. `SatPerKw` is
the conversion of `convert.rs` from BTC/kvB, with the saturating cast. The tables
`Call`, `Previous`, `Fallback`, `Bucket` and `Source` are the arguments of the calls and
stores. `failed`, `before` and `first` are history. Every bucket exists from `new` on,
so the branches for a missing one are never taken.

*Startup.* `pc` is the step of `start_ldk`; a step that fails returns from `main`,
which is what a kill does too (`Stop`). ChannelManager, sweeper and the channel's
monitor are the height of their best block, on disk and in memory. The two branches
that take an error for absence are there: `GenerateSeed` is possible whatever the seed
file holds, `FreshManager` whatever the manager's. The store's files are named by
`RemapScorerKey`; `ReadScorer` reads the path `main` builds. `ConnectBlock` gives a
block to the listeners in their order; the sweeper asserts that it follows its best
block, and the panic ends the task, not the process.

*NodeConfig, DnsBootstrap.* An optional field or section is a sequence of at most one
value; `Toml` is all that `config.toml` can say of the fields that matter, with the types
serde gives them. A section left out takes the `Default` of its type, a field left out of a
section its own default. `StartTasks` starts the tasks of `Periods`; an interval of 0
panics in the task. In a round `ignore` is read once, at the tick; a record stands for
what its host name decodes and resolves to.

*Channels.* `h` is the event in the handler and the await it is at. `chan` goes from
`asked` over `ready` (the funding event is queued), `handed` (LDK has the transaction)
to `signed`; a peer that leaves, a closing command or a crash ends one that is not
signed. bitcoind chooses coins no transaction it accepted spends (`Unspent`) and locks
none. LDK persists no `FundingGenerationReady`, `OpenChannelRequest` or `BumpTransaction`
event; it delivers a `SpendableOutputs` event again until it has persisted that it was
handled. LDK may refuse a transaction for a channel that still waits for it. `forgotten`
is history.

## Runs

| Run | Shows |
|---|---|
| `probing` | a hash is in at most one map (`OneEntryPerHash`); the timed-out map exceeds its cap by one at most (`TimedOutBounded`); no sender is stranded (`NoStrandedSender`); a result that came before the registration is not waited for (`NoLostResult`); `completed_probes` leaks only what a prune or a restart made it forget (`BufferedIsExplained`); a larger amount is sent only after LDK reported success for all smaller ones (`AmountsClimbOnSuccess`); the attempt implements `ProbeAttempt`; every usable peer is probed again and again (`EveryPeerProbed`) |
| `outbound` | what is in flight is Pending on disk (`InFlightIsPending`); what was paid is Succeeded on disk (`PaidIsRecorded`); a stale Pending has one of three causes (`PendingIsExplained`); a success is never undone (`SucceededIsFinal`) |
| `inbound` | what was received is recorded (`ClaimedIsRecorded`) and stays so (`ReceivedIsFinal`) |
| `sweep` | with every fault and any number of stops: a descriptor is on disk, with the sweeper, named in a warning or in a blob whose length could not be had (`LossIsExplained`), and the sentinel means that the sweeper has all but the last two and what was there when no directory could be looked at (`SentinelMeansMigrated`) |
| `rapid_sync` | the saved timestamp claims only updates the node has had (`GapIsExplained`); every sync ends (`SyncEnds`) |
| `connections` | what a channel peer did is persisted at the end of the process (`EndsPersisted`); until a shutdown, which ends once begun, every channel peer with a known address is connected or dialed again and again, and the reconnect task gets away from each (`ServesOrEnds`) |
| `connections_stop` | violated: see the findings |
| `fee_polling` | at every call and every store: no bucket LDK sends with is below 253 (`FeesFloored`); the buckets of a failed call keep their values (`FailureKeepsFees`); the bound on peers' proposals exceeds the background rate in one window only (`MinBelowBackground`) |
| `startup` | through stops and power losses at any step: the seed the node ran under is the one on disk (`SeedKept`); on a running node every listener is at the block the chain is followed from (`ListenersTogether`); the scorer that was persisted is the one that is read (`ScorerSurvives`); a node that stays up catches up with the chain (`FollowsChain`) |
| `bootstrap` | over all the configurations of `McFiles` and all chains: a node that starts is on the chain its configuration names (`ChainMatches`) and no task is started with a period of 0 (`PeriodsPositive`); a round dials the first peers of what the seeds gave (`SampleIsFirst`) and ends (`RoundEnds`) |
| `bootstrap_port` | violated: see the findings |
| `channels` | a channel whose funding was reported as failed is never funded (`ReportedIsUnfunded`); the wallet pays only for channels the peer signed (`SpentOnlyForSigned`); a handled `SpendableOutputs` event is with the sweeper on disk, or reported (`OutputsAccounted`); every funding and inbound request is answered (`ReadyIsAnswered`) |

The exceptions that the properties name are what the code does and a reader
should know:

- `completed_probes` has no cap; a late result of a probe whose timed-out entry
  was pruned stays there for the life of the process.
- If the write of a `PaymentSent` record fails, the event is handled all the same:
  after a restart the record is Pending, and Failed once LDK forgets the payment.
- Paying an invoice a second time replaces its record, a Succeeded one too, before
  LDK refuses the duplicate.
- A payment file that cannot be opened or decoded counts as empty, with a warning in the
  log. The start-up writes the empty map over `outbound_payments` at once, in-flight and
  succeeded payments included; `inbound_payments` goes with the next `getinvoice` or claim.
- An offer or a name that cannot be paid stays Pending until the next restart.
- After a crash the timestamp may be ahead of the persisted graph; rapid sync will
  not ask for the updates in between, only P2P gossip can bring them.
- If the background processor ends in an error, or panics once the CLI has ended,
  the ChannelManager is not written at the end.
- A migration that fails logs "On-disk state is preserved" (`sweep.rs:130`), but a file
  it had to skip went with its directory before (a warning names it, unless it was its
  length that could not be had).
- Directories that cannot be looked at count as absent: the migration then writes the
  sentinel and never looks again, with their files still there.
- A channel peer of which the graph has no address, or onion addresses only, is never
  dialed by the reconnect task.
- The first fee poll whose background call fails lowers
  `MinAllowedNonAnchorChannelRemoteFee` from 253 to 3: the bucket is never read back
  (`bitcoind_client.rs:268`).
- A `keys_seed` that cannot be read, for any reason, is overwritten by a new seed; a
  start killed between writing and syncing it leaves one that the next start uses
  unsynced.
- A manager file that cannot be opened, for any reason, makes a fresh node: the
  monitors on disk are not watched, and a sweeper on disk that is behind ends the task
  that follows the chain, silently.
- `rapid_gossip_sync.interval_hours` times 3600 may wrap, to 0 too, in a release build.
- Nothing locks coins between `fundrawtransaction` and the broadcast: two channels
  opened in a row may be funded from the same coin, and only one confirms; the failed
  broadcast is in the log only.
- Outputs the sweeper could not write are in its memory and in the log; the event is
  not delivered again.
- `openchannel` reports an unknown flag (`cli/mod.rs:175`) and opens the channel all the
  same: the `continue` is that of the loop over the flags.
- The README of the repository calls `dns_bootstrap` "enabled by default"; that is so
  of the section's field, without the section the task is not started.

### Bounds

- `probing`: three hashes, a TTL of one tick and a cap of one: the prune
  by age, the prune by number, ties and the overshoot by one all happen, and an
  attempt meets two older probes in any state. Two amounts in the wrong order, three
  peer entries of the three kinds, one random recipient, one restart.
- `outbound`: an invoice and an offer, and the three tasks that write the file (a keysend
  goes the way of an invoice that is paid once; a third id makes too many states, and
  the theorems have any number of each kind); `inbound`: two invoices and a spontaneous payment. There
  is no bound on commands, failures or crashes.
- `sweep`: two descriptors (one is not enough to lose one of several) and a file
  with a foreign name, every kind of fault; stops without bound.
- `rapid_sync`: three times, the code's three retries.
- `connections`: three channel peers, with two addresses, one and none, so that a task
  held by one peer shows at another; a peer without a channel, which the other tasks
  meet; the bootstrap task as a rival for the first channel peer. Two connections at a
  time (`MaxLive`), and one task besides the reconnect task at work at a time
  (`MaxRivals`): a rival connection of the same peer is all that one of them can put in
  the way of another. The theorem has any number of both.
- `startup`: two seeds, three heights (so that files differ by one block or two), two
  scores; any number of stops, power losses and errors. One channel.
- `bootstrap`: each section with every combination of its checked fields left out, at 0
  and at a value, the others left out; answers of up to two records over two nodes, two
  seeds of which one may be mute, `num_peers` of two. `U64` is 2^16 for TLC's integers,
  and 4096 hours are what wraps to 0.
- `channels`: two outbound channels and an inbound one, one bump, one output and one
  coin, which is what makes transactions compete; one crash.
- `fee_polling`: a rate below the minimum and one beyond the width, and a width
  (`MaxU32`) of 60000, because TLC's integers have fewer bits than a `u32`. There is no
  bound on rounds.
- Deadlock is not checked in the `connections*` and `bootstrap*` runs: the process or
  the task ends.

### Fairness

`probing` assumes only that tokio polls the probing task and its timers fire
(`WF_vars(Task)`); LDK may be silent for ever. `rapid_sync` assumes the same of the
sync: the HTTP client has a timeout, so an attempt ends, but none need succeed.
`connections` assumes that the tasks and main are polled, that a dial and a
handshake end (`connect_outbound`'s timeout, and LDK's timer, which the background
processor drives, only while it runs; assumed of the reconnect task's connections
only) and that the background processor answers the exit signal. `startup` assumes
that of the polls for a new block one now and then succeeds (`SF_vars(ConnectBlock)`:
polls may fail without end in between), and only for a node that stays up.
`bootstrap` assumes that the task is polled; a query ends because of its timeout, an
answer need not come. `channels` assumes that the event handler is polled and that a
call to bitcoind returns, be it with an error; nothing of the peer or the user.

## Proofs

Every theorem is of the form `Spec => []P`, or `Spec =>` an action property or a
specification (of the tracker alone, `TrackerSpec`), for every value of the constants that satisfies the named assumptions.
The assumptions say what a name stands for and no more: sets of hashes and outputs
are finite, the numbers are numbers (the width of the fee atomics at least 50000), channels, bumps and outputs have different names
(`NamesAssumption`), the mark for "none" is none of the hashes
(`NoHashAssumption`), a configuration file holds values of the types that serde gives
its fields (`FileAssumption`) and a 64-bit integer holds an hour in seconds
(`U64Assumption`). Each proof module states the inductive invariant first, then one
lemma per operation, then `...Next` over all of them, and PTL concludes. Histories,
crashes, restarts and failures of `Next` are all in it; the bounds on restarts and
crashes are any number.

| Module | Theorem | States |
|---|---|---|
| `ProbingProofs` | `TrackerInvariant`, `TrackerTypes`, `TrackerDisjoint`, `TrackerBounded` | the tracker under callers that call any method in any order |
| | `Types`, `TrackerInUse` | types, `OneEntryPerHash` and `TimedOutBounded` under the code's callers |
| | `SendersAreAwaited`, `ResultsArrive`, `BufferLeaksOnlyOrphans`, `AmountsClimb` | `NoStrandedSender`, `NoLostResult`, `BufferedIsExplained`, `AmountsClimbOnSuccess` |
| | `AttemptsRefined` | `ImplementsAttempt` |
| `OutboundPaymentsProofs` | `Types`, `SentIsOnDisk`, `SuccessIsOnDisk`, `StalePendingHasACause`, `SuccessNeverUndone` | `TypeOK`, `InFlightIsPending`, `PaidIsRecorded`, `PendingIsExplained`, `SucceededIsFinal` |
| `InboundPaymentsProofs` | `ReceivedIsRecorded`, `ReceivedNeverUndone` | `ClaimedIsRecorded`, `ReceivedIsFinal` |
| `SweepMigrationProofs` | `Types`, `LossHasACause`, `SentinelIsTrue` | `TypeOK`, `LossIsExplained`, `SentinelMeansMigrated` |
| `PollingProofs` | `TimestampClaimsNoGap` | `GapIsExplained` |
| | `FeePollingInvariant`, `FeeTypes`, `FeesAlwaysFloored`, `FailuresKeepFees`, `MinAlmostAlwaysBelow` | `FeeInv`, `TypeOK`, `FeesFloored`, `FailureKeepsFees`, `MinBelowBackground` |
| `StartupProofs` | `Types`, `IdentityKept`, `ListenersAtOneBlock`, `ScorerFound` | `TypeOK`, `SeedKept`, `ListenersTogether`, `ScorerSurvives` |
| | `ChainTaskNeverPanics` | `TaskAlive`: the sweeper's assertion fails only on an orphaned node |
| `PeersProofs` | `PeersArePersisted` | `EndsPersisted` |
| | `RightChain`, `NoPeriodIsZero`, `SampleInOrder` | `ChainMatches`, `PeriodsPositive`, `SampleIsFirst` |
| `ChannelsProofs` | `FundsAreSignedFor`, `FailureIsFinal`, `OutputsNeverDropped` | `SpentOnlyForSigned`, `ReportedIsUnfunded`, `OutputsAccounted` |

*The tracker.* `TrackerInv` is types, disjointness and the bound together, because none
is inductive by itself: what the prune leaves is a map of the same type (`PrunedMap`)
whose entries are former ones, which disjointness needs, and it is at most the cap,
whatever the map had before, which makes the bound inductive although
`mark_timed_out` inserts after the prune (`OneMoreEntry`).

*The probing task.* `ProbingInv` adds where the result of the current attempt is at each
step (`Matched`: in the buffer before the registration, in the channel after it, or
still with LDK), where the timeout of every unanswered probe is (`Tracked`: with the
attempt, in the timed-out map, or forgotten), and that the probes of this round up to
the current one were successful (`Ladder`). A poisoned mutex
breaks parts of the first two, so these are claimed only while the mutex works. That the amounts ascend needs a sorting order to exist for
a list of any length: the prover has no induction over data, so `AllSortable` takes the
least length without one, by the well-foundedness of the naturals (`Least`), and
`SortOneMore` refutes it. The refinement maps `hash`, `pc` and `ldk` to the phase and
the answer of an attempt; each step of `Probing` is shown to be a step of
`ProbeAttempt` or to leave the mapped state alone (`BetweenMaps` to `EventMaps`), with
`Matched` to show that what is taken from the channel is LDK's answer.

*Payments.* The properties compare the file with what LDK believes, but what reaches the
file next are writes called some time ago. `Ordered` says that the writes under way are
totally ordered by their calls. For received payments `Carried` and `AgainstFile` say
that every later write, and the map, has what an earlier one or the file has. Outbound
records change more than once, so there is an order of records (`Le`: none, Pending,
then Succeeded or Failed) and `Chain` says that file, writes in their order and map
ascend in it, save for invoices sent again. Hence LDK's state, which bounds the map,
bounds all of them (`Bounded`). After a start that could not read the file the map is
below the file: until its first write the order is claimed of the other records only,
and `Unread` says that the map is empty (of received payments: that it says received only
of what was received again since) and that no write has reached the file; what is
gone then does not come back by itself (`Dropped`).

*SweepMigration.* `SafePending`, `SafeProcessing` and `SafeBlobs` say, for each step, where
the contents of each of the three directories have gone, so that a deletion deletes
only copies; `Complete` says that the sentinel is true when it is about to be written.

*RapidSync.* Between reading the file and writing it the sync counts on a prefix of the
updates: those before `last`, then those before the snapshot's own time (`SyncCounts`);
while the node is down the graph on disk stands for the one in memory (`DiskCounts`).

*FeePolling.* The properties speak of buckets only; what connects a round with the next
are the estimates (at least the minimum once returned), the split of the buckets into
those stored in this round and those as before it (`BucketsStored`), the value a failed
call has read (`FailuresRead`), and that between rounds the four buckets of the
background estimate agree (`Aligned`), which the initial map does not quite satisfy:
hence the exception of the first round.

*Startup.* `SeedSteps` follows `keys_seed` from the moment it is found missing: until it is
synced the node has not run. `ListenerSteps` follows what was read: the monitor in
memory is the one on disk, a fresh node that is no orphan has no files, and all are at
one block once `synchronize_listeners` has returned; from there `ConnectBlock` moves them
together. `Remapped` shows that the key the store remaps is the path the scorer is read
from and not the sweeper's.

*Channels.* A transaction is asked for once: its event is queued or with the handler, once,
and its coins are unset until the handler is done (`Once`); what bitcoind may know has
coins and, of channels, a signature (`Spending`). A report ends the one attempt there is:
what was reported has no coins, no event and no way to another (`Reported`), hence it is
neither signed nor broadcast.

*Connections.* `EndsPersisted` speaks of the end of the process; what leads there is the
order of the shutdown. The background processor is told to exit only after main has
disconnected the peers (`Exits`); from then on no peer is up but a late one (`Quiet`),
and only a peer that is up changes channel data; so the last write of a processor that
exited as told has everything (`Saved`). Without the exception for a late peer `Quiet`
is not inductive, which is the finding `connections_stop`.

*NodeConfig, DnsBootstrap.* A node gets past the load only with a configuration that
`Validate` accepted (`Accepted`), past the check only on the chain of its network
(`Compared`), and its tasks are among `Periods` (`TasksAskedFor`); the file does not
change. So `ChainMatches` is a fact about four names (`NetworkNames`), and
`PeriodsPositive` one about what `Validate` looks at, given that the numbers of the
configuration, defaulted or not, are natural numbers (`ConfigNumbers`): a period is
then positive because it is not 0. For the sample of a round the invariant counts the
records gone through: the peers found are those that the first `n` give (`Taken`), what
is left of the current answer are the records from `n + 1` on, and `n` falls short of all
only when `num_peers` are found (`Sampling`); while the task dials, the peers left are
the end of that list (`Dialling`). That the places of the giving records can be listed
in order is built up record by record (`ListsSkip`, `ListsTake`, `ListsLonger`), which
spares an induction over the answers.

Only model-checked: the liveness properties `EveryPeerProbed`, `SyncEnds`, `ServesOrEnds`,
`FollowsChain`, `RoundEnds` and `ReadyIsAnswered`, because fairness is out of the prover's
reach. Every invariant and every action property of a passing run is proved.

## Findings

- `connections_stop`: the comment at `main.rs:1056` says that disconnecting the peers
  "ensures we don't continue updating our channel data after we've stopped the
  background processor". A dial under way at that moment completes afterwards.
- `bootstrap_port`: the README of the repository says that `peer_listening_port`
  "defaults to 9735" (`README.md:79`) and that the section it is in is optional
  (`README.md:27`). `LdkConfig` derives `Default` (`config.rs:46`), so that without
  `[ldk]` the port is 0 and the system picks one.

Two comments disagree with the code without a run of their own:

- `sweep.rs:251` says that "corrupt or unreadable files are logged and skipped". A file
  whose metadata cannot be had counts as empty (`sweep.rs:298`), is skipped without a log
  line, and is removed with its directory: the exception `unsized` of `LossIsExplained`.
- `query.rs:9` says that "BOLT-0010 sampling treats every record as equal-weight (we
  reservoir-sample peers elsewhere)". The bootstrap takes the first `num_peers` usable
  records in the order of the answers, which is what `SampleIsFirst` states, and drops
  the rest, and the seeds after them, unseen; the only `reservoir_sample` there is
  (`probing/runner.rs:408`) chooses the recipients of random probes.

## Not modelled

Display and type aliases have no state. The file logger takes a date, a lock and
rotates; nothing in the program reads its files. Hex coding is a pure conversion
without state, and callers see a value or a refusal. The JSON conversions, command
parsing and the wording of logs are left out; amounts, secrets and preimages of
payments are abstracted to whether there is one. The node announcement and the gossip
verifier are wiring. A poisoned lock of LDK's scorer, which would end the probing task
(`sender.rs:54`), is left out: only LDK holds that lock to write. Chain reorganisations are LDK's to handle and not in `Startup`.
LDK, the sweeper, the store, the network and bitcoind are external and appear as the
environment they are to this code.

## Plan

The modules are written, and every safety property of the runs, the refinement of
`ProbeAttempt` included, is proved. Where the development could go next: chain
reorganisations in `Startup` and more than one channel monitor there; composing
`Connections` with `DnsBootstrap`, whose dials it now has as steps of its own.
