# A TLA+ model of htcondordb

htcondordb is a daemon that keeps ClassAd tables in an embedded database and serves
them to clients. Most of its own logic is *replication*: it tails the files of a
`condor_schedd`, mirrors tables between daemons, and exports change streams. Around it
are the managers that run all this, a SQL-like query language, a Flight SQL endpoint and
a C client for schedds. This project models these parts, checks them with TLC and proves
the core with TLAPS.

Contents: [Inventory](#inventory) · [Modules](#modules) · [Runs](#runs) ·
[Fairness](#fairness) · [Proofs](#proofs) · [Where code and comments
disagree](#where-code-and-comments-disagree) · [Not modelled](#not-modelled) ·
[Plan](#plan)

## Inventory

### The data path

```
 schedd files                      htcondordb (spoke)                  hub / followers / exporters
 job_queue.log --JobSync---------> jobs, clusters, ...  --watch-----> cedarsync.Runner -> federate.tableSink
 history       --HistorySync-----> history (archive)    --watch-----> cedarsync.Runner -> federate.archiveSink
 epoch_history --HistorySync-----> epoch_history        --watch-----> leaderfollower.Replicator
                                   job_metrics          --watch-----> kafkasync, opensearchsync, archivedropbox
```

The components talk through tables and watch streams: a writer commits, a watcher
gets the change with a cursor, and a cursor saved by the watcher is a promise that
everything before it has been taken over. Almost every hazard below is a saved
position (a file offset, a cursor, a sequence number) that promises too much.

| component | state | operations | hard behaviour | what makes it correct |
|---|---|---|---|---|
| `scheddsync.JobSync` | offset, file identity and sequence number, open transactions, `jobs.pos`, child index, conflict streak | start/restore, poll, apply an entry, commit, checkpoint, reconcile-reload, resync | compaction between any two reads; crash between commit and checkpoint; commit conflicts; shutdown inside a loop | a resume misses nothing; a caught-up mirror is exact; a reload heals; no wedge |
| `scheddsync.HistorySync` | open handle, offset, dedup flag, saved position, archive | restore by chain or by archive, poll, drain, rotate, flush, resync, truncate | rotation and retention between reads; lost position; torn record; refused record | each record archived once, in order, none missing; position never ahead |
| `cedarsync.Runner` + `federate.tableSink` | open transaction, committed and next cursor, replay bookkeeping | session, upsert, delete, Reset, Synced, flush, end | batch fails; session drops in a replay; HA peer lags; crash between commit and cursor | the cursor is covered; a synced sink is exact; no live row swept; convergence |
| `federate.archiveSink` | held-identity counts, retention floor, cursor | append, replay dedup, flush | a replay of records partly held; identical records | append once |
| `federate.Hub` | sources, runners, source rows | discover, admit, retire, refresh | retirement interrupted; a schedd that comes back; two spellings of one name | no rows that no runner owns |
| `ha/leaderfollower` | per-table cursors, local tables | session per table, apply, flush cursors | non-durable rows against flushed cursors; Reset cut short | follower equals leader |
| `ha/consistent` | raft log, member set, tables | bootstrap, register peer, apply batch, redirect | check-then-act on membership; multi-table batch | cluster size; replicas equal |
| `kafkasync`, `opensearchsync`, `archivedropbox` | cursor, export sequence, key versions, tarball sequence | session, produce, checkpoint, delete-sweep | at-least-once boundary; Reset replay with a timer flush | nothing lost; deletes inferred |
| `historyimport` | per-schedd cursors and their file, epoch keys | cycle, scan a schedd, append, flush, store the cursor | newest-first streams cut short; refused records; two writers with different durability | cursor behind the archive; import once |
| daemon and managers (`cmd/htcondordb`, `server/owners.go`) | table owners, child processes | reconfigure, claim, start, stop | a table moving between writers in one reconfigure | one writer per table |
| `capi` queue client | session pool, requests, chunk channels | open, begin, next, free, supervise | cancel against completion; restart of a stream after bytes went out | no resent, no silently missing ad |
| `scheddsync` metrics | pending triggers, predecessor cache, flush mark | note, build, flush, restore | a conflict between building a sample and committing it | one endpoint per run; no rate across runs; no sample twice |
| `repl` | session transaction, plans | plan, push down, read, join, set operations | many paths for one statement; a transaction some paths do not read | equivalence with the statement as written |
| `ansi` | template and slots | lower, bind | NULL against undefined, case folding | the constraint admits the rows the predicate does |
| `flightsvc` | schema cache, type memory and its file, prepared statements, streams | plan, prepare, fetch, flush | concurrent RPCs; schema told in one call and used in another; restart | what is fetched is what was promised |
| helpers (`locate`, `dbad`, `metrics`, `command`, `userfunc`, `dbdir`, `dbpeer`, `dbstatus`, `syncstatus`) | – | – | – | – |

The embedded database (`classad/db`, `dbrpc`) is a dependency outside the repository.
Its transactions, archives and watch cursors appear as external definitions, modelled
from how the code uses them.

## Modules

| module | models | theorems in |
|---|---|---|
| `JobSync` | `scheddsync/jobsync.go`, `position.go`: positions and durability | `JobSyncProofs`, `JobSyncSafety` |
| `JobAds` | `scheddsync/jobsync.go`: how a row is composed | – |
| `HistorySync` | `scheddsync/historysync.go`, `epoch.go` | `HistoryProofs` |
| `TableSink` | `federate/tablesink.go`, `cursorstore.go`, `cedarsync/cedarsync.go`, `watchfeed/watchfeed.go` | `TableSinkProofs` |
| `Delivery` | the abstract promise of every consumer of a change stream | `DeliveryProofs` |
| `ChangeFeed` | the source and its watch stream (external) | `FeedProofs` |
| `KafkaExporter` | `kafkasync` | `DeliveryProofs` |
| `OpenSearchExporter`, `DropboxExporter` | `opensearchsync`, `archivedropbox` | `FeedProofs` |
| `ArchiveSink` | `federate/archivesink.go` | – |
| `Replicator` | `ha/leaderfollower` | `FeedProofs` |
| `Consumers` | composes the five above over one feed; refines `Delivery` | `DeliveryProofs` |
| `Hub` | `federate/hub.go`, `discovery.go` | `ControlProofs` |
| `Coordinator` | `ha/consistent` | `ControlProofs` |
| `Managers` | `cmd/htcondordb` managers, `server/owners.go` | `ControlProofs` |
| `Exporters` | `cmd/htcondordb/exporter_manager.go`: supervisors and resyncs | `ControlProofs` |
| `JobMetrics` | `scheddsync/metrics.go` | `MetricsProofs` |
| `HistoryImport` | `historyimport` | `HistoryProofs` |
| `QueueClient` | `capi/queue.go`, `queuepool.go`, `queuefd.go` | `ControlProofs` |
| `Session` | `repl`: transactions and read paths | `ControlProofs` |
| `Join`, `Select` | `repl`: joins; SELECT, windows, unions, streams | – |
| `Ansi` | `ansi` | – |
| `Flight` | `flightsvc` | `ControlProofs` |
| `Services` | composes the modules from `Hub` on, and `JobAds` | – |
| `MC*` | the instances that TLC checks | |

Every definition that stands for code is listed with its lines in `PROJECT.json`
under `map`. A comment `(Mutant: ...)` marks a wrong variant of the definition after
it; it is used by no specification, and substituting it must make a run fail.

### JobSync

The log is a sequence of *generations* (`files`): the schedd appends to the last one
and compacts by starting another, whose number is the op-107 sequence number at the
head of the file. An entry writes a key, begins or ends a schedd transaction; it
carries, as history, the queue after it (`q`) and whether a transaction is then open
(`intx`). One value per key stands for a whole ad.

`pc` follows `Run`, `Poll` and `reconcileReload`: `idle`, `stat`, `probe`, `open`,
`read`, then for a reload `rlopen`, `rlread`, `rlfinish`, `rlsweep`, `rlsave`. Every
read of the path (sequence number, stat, prefix probe, open) is a step of its own, so
that the schedd can compact in between. `Read*` and `PassEnds` are `applyEntry` and
`readAndApply`; `PassConflicts` is `handleCommitConflict` with its rewind and escalation;
`Reload*` is `reconcileReload`; `Checkpoint` refuses inside an explicit transaction as
the code does, and `MaybeCheckpoint` is the throttled one. `CommitAll` commits one
transaction per table; a crash between two of them is in `Crash`, which may land any
subset of the tables. The saved position has inode, offset and sequence number;
`WouldResume` is `restore`'s test, and `SeqKnown` whether the head of the log could be read
for it. A checkpoint whose save fails leaves what a throttled one leaves, and one at `Stop`
what a crash leaves; the one failed save that leaves something else, after a reload, is
`ReloadSaveFails`. A row is one value, so that a reload replaces it; that the code merges
onto the stored row is the subject of `JobAds`.

### JobAds

The schedd's ads, the entries it logs, and the mirror's rows. `ApplyEntry` is the
incremental path: a new proc inherits the cluster's attributes, a cluster edit fans out
to `children`. `Reconciled`, `ChainReconciledProcs` and `SweepKeys` are the reload path,
which merges contiguous runs of one key onto the stored row. `MergedView` is what the
schedd itself shows of a proc: its own attributes over its cluster's.

### HistorySync

Record `n` is the n-th completed job; a file holds a range of them. The archive is the
sequence of what was appended; what came after the last flush may be lost in a crash.
`Restore*` is `restore` with its three ways to find the frontier (the saved position,
the chain of rotated files after it, the archive itself), `Poll*` is one poll,
`Ingest` is `appendRecord` with its one-flag dedup, and `Taken` what an append may have done.
The epoch tailer is the same machine
with another record key.

### TableSink

The spoke's table is a sequence of versions, each with the key it changed; a cursor is a
position in it. `feed` is the watch stream: it resumes at the cursor, or begins with a
Reset, replays the rows of some version (of a peer at most `MaxLag` behind) and says
Synced. `view` is the table as the open transaction sees it, `hub` the committed one.
`Flush` commits and then saves; `Fail` is the latch that drops the batch and its cursor
for the rest of the session, and leaves either of the two states a failed commit or save
may leave. A crash inside an event leaves what a failure inside it leaves, so `Crash` is
one action.

### Delivery and its consumers

`Delivery` has three variables: how many changes the source made, which of them have
*settled* (taken effect at the destination, been superseded by a later change of the same
row, or been reported as lost), and the position a restart resumes from. Its only promise
is that the position never passes a change that has not settled, and that nothing settled
is undone. `Consumers` chooses one consumer and a source, and implements `Delivery` under
the mapping `durable <- Durable`, the consumer's stored cursor (`AtLeastOnce`).

A source (`ChangeFeed`) is a log of changes; a stream resumes after a cursor, or sends
Reset, the rows of one version, and Synced. It may end or ask for a resync at any time.

* `KafkaExporter`: `produceBatch` and `checkpoint` in their order, `ExportSeq` as the
  version of a record, `KeyVersions` as the set of keys the delete-sweep works from.
* `OpenSearchExporter`: batches upload concurrently and finish in any order; the cursor
  follows the oldest acknowledged prefix.
* `DropboxExporter`: a tarball is renamed before the cursor is stored; rolls by size and
  by the timer; a refused cursor makes a loss report, whose extent goes by the times of
  records (`RecordTime`, 0 where a record has none); a full dropbox holds it back.
* `ArchiveSink`: appends are durable at a flush, then the cursor; until Synced, records
  are compared with what the hub held, by count (`held`, `remaining`).
* `Replicator`: rows first, cursors in memory, a timer that writes them; a row that cannot
  be decoded ends the session.

### Hub

One schedd. `hub.pc` follows `Run`: load, rewrite, discover, refresh, write, retire.
`Discover`, `PairedSpoke` and `Untrusted` are the pairing of a schedd with a spoke by its
addresses, `HubLoad` and `HubRevalidate` what a restart takes from `federation_sources`,
`StateOf` and `Stable` the state it shows, `HubRetireStep` one of the three removals of
`retire`, after which it may crash or fail. `hdata` is what the hub holds of the schedd
and `hcursor` whether a cursor vouches for it.

### Coordinator

`clog` is the committed raft log (external); a node has applied a prefix and holds tables
and a snapshot. `ApplyBatch` is `applyBatch`, one transaction per table, any of which may
fail at this node alone: the table then joins `lost`, until it is restored or replayed.
`CoordInstall` and `CoordRestart` go through `Restore`. A client's write is `HandleApply` (a redirect, a
refusal, a proposal), then `ApplyReturns`, where leadership may have been lost and the
fate of the entry is open.

### Managers and Exporters

`dman[m]` is a manager: its settings, whether its writers run, its lock. `Reconfigure`
starts `dapply`, which walks `Order`; `ApplyEnter` takes the lock and stops what runs,
`ApplyFinish` claims (`Claimed`, `Conflict` of `owners.go`) and launches, a refused claim
is retried at the end. Children exit by themselves (`ChildExit`, `MarkExit`). `downed` is
the registry. `Exporters` follows one exporter through its supervisors (at most two, an old
one draining), its child's saves and an operator's `Resync`.

### JobMetrics

One job, its transactions, and a tailer that samples it: `CommitAll` builds a sample from
the merged row before the commit and may conflict; `FlushSamples` stores the mark and then
appends, and either may fail (`mlapse` records it); a restart loses the cache and resumes from
the mark that was stored. A reported number carries, as history, the run that
reported it, so that a rate made of two runs is visible. The job ad keeps what an earlier
run's starter reported until the next one reports: counters, uptime and, from the starters
that send it, a clock (`dated`). A report may be bare of both, and a rate is then taken on the
clock of the ingest.

### HistoryImport

`RunJob` takes the schedds in turn; `YieldJob` and `YieldEpoch` are the callbacks of one
record, newest first; `FlushSchedd` and `SetCursor` end a scan; `ScheddFails` may end it
anywhere. With the RPC writer an append is durable at once, with the archive writer at the
flush.

### QueueClient

`qsup` is the supervisor (ensure a session, probe, judge, reap), `qpool` the sessions with
their use counts, `qgrow` the growth dial and the generation that a drop advances. A query
(`qreq`) streams rows into chunks and may fail on a row or at the server; `closing`, `closed` and `token` are the closed channel,
the flag and the notifications, set in the code's order, so that `hcdb_queue_next` meets
every state between them.

### Join, Session, Select, Ansi, Flight

`Join`, `Select` and `Ansi` are algorithms run step by step on small statements and stores
and compared with a reference: the definition of the join, of the SELECT, and of
three-valued SQL logic. Each starts in every statement of a list and every store of a list
(`MCServices`, `MCAnsi`). `Session` is one session, with BEGIN, COMMIT, writes by local
and consistent paths and reads by five paths, next to another session's commits. Its
statements may fail after they were done in part, and its commits after they were done:
`sack` and `smine` keep, for each key, the rows that the answers so far allow. `Flight`
has two clients, one privileged; each RPC is several steps (plan, sample on a cache miss,
reconcile, put, flush, finish). A direct statement gets a ticket that carries its schema;
`GetSchemaStatement` only reports one.

## Runs

`tlc -config X.cfg M` in this directory. Pass runs:

| run | asks | size |
|---|---|---|
| `restart` | Tail, compact, crash and stop at every step: `ResumeSafe`, `CaughtUpExact`, `NoPartialTxn`, `NoLiveRowDeleted`, and `IndInv`, the invariant of the proofs | 0.7 M states |
| `conflict` | Conflicts, retries, escalation to a rebuild, resync; `Converges` under fairness | 0.8 M |
| `heal` | All of `FaultKinds` but `no_sequence` at once: `ReloadExact`, a completed reload repairs whatever was left | 1.9 M |
| `history` | Rotation, retention, two crashes, failed flush, lost position, resync, truncate: `NoDuplicate`, `NoHole`, `PositionCovered`, `EventuallyArchived` | 1.3 M |
| `table_sink` | Changes, resets, lagging peer, dropped sessions, failures, crash: `CursorCovered`, `SyncedExact`, `NoVanish`, `Converges` | 0.3 M |
| `delivery` | The five consumers: each implements `Delivery` (`AtLeastOnce`), settles everything (`AllSettle`), and `TopicExact`, `ArchivedOnce`, `FollowerReflects` | 0.7 M |
| `control` | The services of `Services`, one per behaviour, with the properties below | 1.4 M |

`control` is one run because its parts share nothing: a behaviour chooses a part and only
that part moves, so the states add up and do not multiply.

| part | property | what it says |
|---|---|---|
| hub | `RowsVouchedFor`, `RetiredOnlyWhenGone` | a cursor, or a Synced source row, vouches for rows that are there, through every interrupted retirement; a source retires only after it was unseen for `RetireAfter` |
| coordinator | `ReplicasAgree`, `CommittedOnce` | the tables of a voter are those of the prefix it applied, except a table on which an apply failed; no batch commits twice and an acknowledged one is committed |
| managers | `WritersOwnTheirTables` | whoever writes a table has it registered and nobody else has, at every step of a reconfigure and a shutdown |
| exporters | `ResetStaysClear` | an operator's reset is never undone by a child that still saves |
| metrics | `SamplesSound`, `EndpointKept` | no sample twice, unless the mark could not be stored; no rate across runs, on any of the three clocks; each run that ended has one endpoint, or none if the archive refused it |
| ads, reloaded_ads | `TailShowsMergedView`, `ReconciledExact` | rows are the merged view; a reload leaves exactly the live ads |
| import | `CursorBehindArchive`, `ImportedOnce` | a stored cursor has everything older archived; no record twice |
| queue | `AnswerHonest` | DONE means every row once and in order; an error means a lost session, a failed socket, or a query that failed on a row or at the server |
| join, select, ansi | `JoinExact`, `SelectExact`, `LowerExact` | the answer is that of the statement as written: rows, groups and counts, DISTINCT, ORDER BY and LIMIT, executed or streamed; the statements that are answered differently are left out (below) |
| session | `ReadsOwnWrites`, `TablesShowAcknowledged` | a transaction sees its own writes on every path that asks for it (`txReads`); the tables hold what was acknowledged, or a later write that failed |
| flight | `SchemaPrefix`, `FetchedAsPromised` | a schema a client cached stays a prefix in its first `ColumnLimit` columns, across restarts, and names nothing private; rows come in the schema of their ticket, or in the one last reported for their handle |

`cancel_pass`, `ads_children`, `history_refused`, `reconfigure_hang` and `import_cut` are
expected to fail: they show where the code departs from its own comments (below).

Bounds. Two keys in two tables are what the per-table commit and the sweep tell
apart; three entries hold a transaction with a write in it, and four hold one after an
implicit batch; two generations give one compaction and, with one inode, its reuse. Two
conflicts reach `MaxConflictRetries = 2` (3 in the code). For the history,
three files with one kept is the smallest chain with a deleted file, and two crashes let
a recovery itself be interrupted. For the sink, `MaxBatch = 2` gives a batch that is
open, full and empty, and three versions give two changes after the initial table; the
undecodable value `v2` is one of the values. For the consumers, a few changes of two keys,
batches of two and one crash or failure reach a Reset in a filled state and a cut-off
replay; of the three records one has no time. For the services: two addresses give a move,
two nodes a change of leader and a
join, or an apply that fails before a restart, two configurations of every manager a table that moves, two runs
and seven transactions a rate across them on each of the three clocks (five where there is
also a conflict, a restart, a reload or a failed write, four with two of them, so that a
restart can follow a mark that was not stored), two records the oldest that can be missed, two
sessions and a chunk queue of one a full queue and a growing pool; three statements a transaction with another session's
commit inside; two RPCs at once a cache entry replaced under a plan, and three public attributes
a column past the limit of two. Every bound is a
named constant. The services, `TableSink` and the consumers may stop (every budget spent,
nothing to deliver), so their runs do not check for deadlock; that a reconfigure ends is
`ReconfigureEnds`.

## Fairness

* `JobSync`: weak fairness of `Start \/ Poll \/ Reload`. `Run` polls on a ticker for as
  long as the process lives, a reload is part of a poll, and the master restarts the
  daemon. Nothing is assumed of the schedd, conflicts, crashes or operators: they are
  bounded and may simply not happen.
* `HistorySync`: weak fairness of `Start \/ Restore \/ Poll`, for the same reason.
* `TableSink`: weak fairness of the `Runner`'s own steps: `Run` reconnects for ever with
  a capped backoff, and reads events and ticks in one select loop.
* `Consumers`: weak fairness of the chosen consumer's own steps (supervised and restarted
  for ever with a capped backoff), and of the process that empties the dropbox: without it
  a full dropbox holds the exporter back by design.
* `Managers` (`reconfigure_hang`): weak fairness of each manager's steps, of goroutines
  that return once cancelled, and of a cancelled child's exit (it is killed after a grace
  period). Nothing is assumed of configurations.
* The other services have no liveness property and assume no fairness.

## Proofs

All by TLAPS, for every set of keys, values and inodes, every number of generations,
entries, changes, sessions, conflicts, failures and crashes; from the named assumptions
on the constants in `JobSync`, `TableSink`, `ChangeFeed`, `Coordinator`, `Exporters`, `Hub`,
`Session`, `QueueClient` and `HistoryImport`. TLC evaluates those assumptions in the runs. A theorem that holds only without one
of the switches of the next section has that as its hypothesis.

**JobSync.** `TypeCorrect` holds under every fault; its content is that the parser reads
only a file it has open and that a conflict streak is escalated before it reaches its
bound. The rest hold when the environment has none of `FaultKinds`: `Inductive`
(`Spec => []IndInv`), `ResumeIsSafe`, `CaughtUpIsExact`, `PersistedIsBoundary`,
`ReloadIsExact`, `NoLiveRowIsDeleted`. `ResumeSafe` alone is not inductive: it speaks of a
process that is down, and what makes it true is what a running process holds.
`IndInv` says, for each phase, how the committed rows, the open transactions and the log
fit together:

* `FileOK`: each entry does to the queue what it says;
* `ProcessStart`: without a restored process nothing is in memory and the position is
  safe (`PositionOK`);
* `PassOK`: between reloads, `persisted` is what is on disk, and each row (`PassRow`),
  overlaid with the open transactions, is right for `offset` if an entry since
  `persisted` touched it, and otherwise covered as it was;
* `ReloadOK`: in a reload, a key that the log has mentioned is right in the overlay and
  is seen iff it is live; any other is unseen, and will be swept if it has a row.

The reason it works is `RowCovered`: a row may be *ahead* of the saved position, because
replaying the entries from there overwrites it.

`NoTransactionShowsInPart` (`JobSyncSafety`) needs a bound on how far ahead: a row that runs
ahead was left by a commit, and a commit happens where a transaction ends, so the entry that
overwrites the row is before a boundary that is in the file (`RowSettled`, `TxnInv`). It speaks of
a running tailer that has read to the end of its file. A crash between the commits of two tables
does leave part of a transaction in the rows, until the restarted tailer has read it again; that
it will is what `ResumeSafe` says of such rows.

**HistorySync** (`HistoryProofs`). `NothingArchivedTwice`, `NothingMissing` and
`PositionNeverAhead`, when there are no `Faults` (so no append fails), no record is refused and
the schedd keeps at least one rotated file; `history_refused` shows what one refused record does. The three need
one invariant: the files hold consecutive ranges and have distinct identities (`DiskOK`); the
archive is in order and dense but for a reported gap (`ArchiveOK`); the reader may go on from the
record where it stands, with its dedup flag as it is, and what it has consumed is archived
(`ReaderOK`); the saved position may be resumed over every prefix of
the archive that a crash can leave (`PosOK`). The last is the point: flush and save are two
steps, and what a crash takes is not known when the position is saved.

**HistoryImport** (`HistoryProofs`). `CursorStaysBehind`, unless a first scan is cut short
(`import_cut` shows that it must not be), and `ImportsOncePerFailure`, always. Streams are
newest first, so half-way through one the cursor that is coming has already passed records that
are still to do. `Reached` says that what it passes over is in the table or in the rest of the
stream; `ScanHoles` that in a first scan the table has holes only below what is still to come;
`CursorsInOrder` that the cursor file is not ahead of memory. A record's count exceeds one only
by failures: what awaits a flush is new to the cursor in memory (`Unflushed`), and a scan
leaves out exactly the cursor's second and keys.

**TableSink.** `TypeCorrect` holds whatever the source does. Without `FaultKinds`:
`Inductive`, `CursorIsCovered`, `SyncedIsExact`, and the action property
`NothingVanishes`. Here the central notion is `Reflects(vs, t, n)`: table `t` is version
`n` but for undecodable rows and for keys that changed after `n`. Three lemmas carry it:
`Grows` (another change at the source does no harm), `WriteLater` (writing the key of a later change
does not disturb an earlier cursor), `Advance` (applying the next change gives the next
version). `IndInv` adds that every cursor, saved or about to be, is reflected by the rows
that would be committed under it (`CursorsOK`), that the live stream is not behind a
cursor (`TailOK`), and that a replay runs without any cursor and has delivered what it
recorded (`ReplayOK`): the last is what makes the sweep exact. `NothingVanishes` needs
one more invariant, that the open transaction deletes only what some version lacked.

**Consumers** (`FeedProofs`, `DeliveryProofs`). `ConsumersDeliver`: the follower and the
Kafka, OpenSearch and dropbox exporters implement `Delivery`; `FollowerDoesReflect`:
`FollowerReflects`; `TopicIsExact`: `TopicExact`. The Kafka results assume that
`reset_unsaved` is not among `KafkaFaults`, the dropbox part that record times, where records
have one, increase (`TimesOrdered`); the archive sink is excluded by the hypothesis on
`Consumers` in the first one. Each consumer has an invariant of its own over a common part
(`FeedOK`, `StreamOK`: what the log, the epoch, the floor and a stream can be), and each of
its actions is one step of the proof; `Covers(c, S)`, that every change up to cursor `c` is
in `S`, is the notion they share.

* `ReplicatorInv`: a resumable cursor in memory is where the stream is and every row is
  current up to it (`CurrentTo`: the row is what some change left and no later change up to
  the cursor touched its key); the cursor on disk is never ahead of it; in a replay each live
  row is here or still to come, and nothing else is here. `FollowerReflects` is the case where
  nothing is left to come.
* `OpenSearchInv`: batches finish in any order, so the position cannot be a maximum. What is
  preserved is that the acknowledged prefix `ackSeq` has settled, and that a failed batch
  leaves a hole in the sequence numbers which the prefix never passes; the handler's steps
  (submit, drain, write) each carry what must hold when they are reached (`HeadClaim`).
* `DropboxInv`: tarballs up to the stored sequence number are complete and are never written
  again, and a crash re-creates only later ones (`Kept`). A replay owes the records between
  the last exported and the first one it is sent, and the loss report covers exactly those: the
  time it starts from is that of a record up to which all is exported (`Dated`), so that a first
  record which is no later has lost nothing before it.
* `KafkaInv`: a session that resumes gives its records the versions that an earlier session
  gave the same changes (`Resuming`: the change at position p has the version of p), so a
  record that was acknowledged and not checkpointed is repeated and not overtaken. `GoodAll`:
  while the source accepts the stored position, what the topic shows of each key was the row at
  that position or at a later one. `KnownAll`: the topic's record of a key is older than the
  stored `ExportSeq` and the key is in the stored `KeyVersions` exactly if the record is not a
  tombstone (`InStep`), or a session that ended before its checkpoint published it, and the
  next one will give it that version again (`Ahead`). `Replaying` says what the sweep at the
  end of a replay finds: nothing may be `Ahead` then, which is what `reset_unsaved` breaks.

`Min` and `Max` of the community modules are defined by CHOOSE; `FeedProofs` gets their
properties (`MinIs`, `MaxIs`) from the theorem that a well-founded order has minimal elements. The lemmas about a component take its state as arguments, so that an
action's result can be named once and each conjunct shown for it separately.

**Control plane** (`ControlProofs`).

* `Coordinator`, `ReplicasDoAgree`, whatever applies fail at whatever nodes: that a replica's
  tables are those of its applied prefix is not inductive: a restart without a snapshot replays
  the log over tables that survived, which are then ahead of the prefix, up to the entry `seen`.
  `Replays` says instead that each table was left by some entry up to `seen` and, unless it is in
  `lost`, that no applied entry later than that one wrote it; once the replay has caught up with
  `seen` this is equality. That tables outside `lost` agree also needs that a snapshot carries
  the `lost` of the node that made it. `SubmittedIsCommittedOnce` needs that a request under
  way is not yet in the log and is the last one submitted (`ClientInv`).
* `Exporters`, `ResetDoesStayClear`, unless `reregister`: while the exporter is registered only
  the supervisor in the map lives (`OneSupervisor`), and once it has cleared the state it has no
  child that could save.
* `Managers`, `WritersDoOwnTheirTables`, unless a launch fails after it started a tailer: the
  claim made on entering `apply` is held across the wait for the old writers (`ClaimHeld`), and
  no table is registered twice (`OneOwner`).
* `Hub`, `RowsAreVouchedFor` and `RetiresOnlyTheGone`: the retirement removes the cursor, then
  the row, then the data (`RetireInv`); a runner that reports synced has the data
  (`VouchedInv`); what the hub remembers of its last contact is not behind what it was told
  (`HeardInv`). The second is an action property.
* `Session`, `TransactionReadsItself` and `AcknowledgedWritesShow`: a local
  transaction is open exactly while it is bound to a table, and what it holds for a key is the
  row of the last statement that was acknowledged or of a later one that failed
  (`TransactionInv`); a buffer is only a consistent session's, of the
  default table (`BufferInv`). The first assumes that
  every read takes a path that goes through the transaction, the second that consistent writes
  go to the default table; the switches below show that the code has other paths.
* `Flight`, `StreamsAsPromised`, with any `FlightFaults`: the pin of a handle is the schema that
  the last call on it reported, and every RPC that fetches carries such a pin, or that of its
  ticket, from its plan to its stream, whatever the cache and the type memory have become
  meanwhile. Nothing is promised of a later ticket by `GetSchemaStatement`, which has no pin.
* `QueueClient`, `AnswersAreHonest`, without `QueueFaults`, though queries fail on rows and at the
  server: the rows of a query are at any time
  cut into consecutive pieces (what the daemon has, the chunks in the queue, the buffer), unless
  the query failed or was freed (`Contiguous`); and a session in the pool counts exactly the
  queries that stream on it (`PoolCounts`), so that what is reaped has none.

**Job metrics** (`MetricsProofs`), both without `SamplerFaults`.

* `SamplesAreSound`: whose report a number is cannot be
  seen in the row, so `MetricsInv` follows each to the entry of the log that set it. The log has
  the runs in order; the row is what the entries that were read set, and at most one start of a
  run ahead of the saved offset, which is how far a conflict may leave it; until a run has
  reported, its observations are of what it inherited, and its uptime is stale; a clock that was
  observed is the run's or the last before it. The mark is stored before the samples are
  appended, so the archived positions of a generation are up to the mark, in memory and as stored,
  and below it while one is being appended: all but those whose own mark could not be stored
  (`mlapse.marks`).
* `EndpointsAreKept`: `EndpointInv` adds to `MetricsInv`
  what is known of each run that began since the sampler did (`RunFollowed`). Until its stop was
  read, the cache has an observation of it and it has no endpoint; from then on the run has ended
  for the sampler, and its one endpoint is archived, was refused by the archive, or comes with the
  flush under way, at a position after the mark. It needs that the row's status is the log's where the tailer reads
  (`RowStatus`), that no run still to be read looks ended or sampled (`UnreadInv`), and that
  what is read again before the mark is no change of state (`RereadInv`), which is where
  `reread_runs` breaks the argument.

**Only model-checked.** Liveness (`Converges`, `EventuallyArchived`, `AllSettle`), which is
out of the prover's reach. The archive sink, `ArchivedOnce` and its part of `AtLeastOnce`: it
compares by count, and the argument is an induction over the replay. `SchemaPrefix` of
`Flight`, and `JobAds`, `Join`, `Select` and `Ansi`: they compare folds and evaluators over
sequences and trees with a reference, which is induction over data. TLC's runs are small
instances of these.

## Where code and comments disagree

Five are runs that fail as expected, each with a finding in `PROJECT.json`:

* `cancel_pass`: a shutdown inside a read pass saves an offset past an implicit batch
  that is then rolled back (`jobsync.go:1341`, against 376-379);
* `ads_children`: after a reload the child index is empty, and cluster edits no longer
  reach proc rows (`jobsync.go:618`, against 110-111 and 1177-1180);
* `history_refused`: one record refused as too deep turns dedup off at every re-read
  (`historysync.go:722`, against 101-104);
* `reconfigure_hang`: a reconfigure that stops a running exporter or importer waits for it
  with the lock its supervisor needs (`exporter_manager.go:219`, `importer_manager.go`
  likewise, against 209-210);
* `import_cut`: a newest-first first import that fails half-way is taken for complete by
  the next one (`importer.go:216`, against 26-27 and 194-196).

Others were met while modelling. The passing runs and the theorems leave them out by a
named switch, so that what does hold can be stated; switching one on makes TLC show the
violation.

| switch | what happens | code |
|---|---|---|
| `JobSync`: `cancel_in_reload` | a cancelled reload leaves its parser's offset to the final checkpoint | `jobsync.go:692`, `642-660` against `600-602` |
| `crash_in_reload` | a crash in a rebuild of the same generation leaves older rows under the saved position | `jobsync.go:600-602` |
| `reload_error` | identity and offset are adopted before the last commit and the sweep succeed | `736`, `740`, `758` against `708-710` |
| `torn_reload` | a reload that ends inside a schedd transaction commits half of it | `763`, `920-924` against `186-188` |
| `no_sequence` | where the head of the log has no readable sequence number a resume goes by inode and length, and a reused inode passes | `455-463`, `1168` (as `1166-1167` say) |
| `save_error` | a save that fails after a reload leaves the persisted offset of the file before, to which a conflict rewinds the new one | `1284-1291`, `568-571` |
| `unapplied` | an error at a consumed BeginTransaction leaves the explicit flag unset | `1374-1379` against `102-103` |
| `JobAds`: proc override of a cluster attribute | a cluster edit overwrites the proc's own value | `1463` against `1743-1745` |
| `JobAds`: `Deletes` with `Compacts` | a reload merges onto the stored row, so an attribute deleted before the compaction survives; sets are applied before deletes | `1027`, `954` against `880-886` |
| `HistorySync`: `rotate_unseen`, `rewind_rotated`, `inode_reuse`, `no_position`, `unrewound` | see the header of the module | `historysync.go:304`, `374`, `444` |
| `HistorySync`: `append_error` | a record that the archive could not take is logged, passed over and covered by the next position | `historysync.go:742-743` against `746-749` |
| `TableSink`: `overlap` | a source that delivers earlier changes again, and a crash before the next cursor | `cedarsync.go:309` |
| `TableSink`: `late_error` | a save that fails after the rename | `cursorstore.go:60` |
| `KafkaExporter`: `reset_unsaved` | the source refuses the cursor while produced keys are not in the saved `KeyVersions`: deleted keys stay in the topic | `kafkasync/exporter.go:244` |
| `ArchiveSink`: `twin_resume` | two records of one identity on both sides of a resumed cursor count as one | `archivesink.go:249` |
| `ArchiveSink`: `overlap` | after a resync the spoke delivers again what lies after the committed cursor, and the sink, no longer comparing, appends it again | `archivesink.go:32-36` |
| `DropboxExporter`: `RecordTime <- MCSameSecond` | a record of the second of the last export hides the loss of others of that second | `archivedropbox/exporter.go:276-282`, `ad.go:14-25` |
| `Replicator`: a row in `Opaque` (in the run; `AllSettle` excepts it) | a row that cannot be decoded ends every session at the same event, and the follower stays there | `replicator.go:287-289` against `watchfeed.go:29-31` |
| `Coordinator`: an apply that fails (in the run; `ReplicasAgree` excepts the table) | the error of `FSM.Apply` is logged by that node and nobody else learns of it; a batch of two tables may land in one of them, on every replica or on some | `fsm.go:59-63`, `96` against `mutation.go:48-50` |
| `JobMetrics`: `reread_runs` | usage of a run is read again after its end is in the row: the endpoint is taken there and dropped as flushed; a counter read again may be of another run | `metrics.go:695`, `jobsync.go:568` |
| `JobMetrics`: `old_clock` | a starter that sends its clock follows one whose clock is still in the job ad: there is no guard like `staleLifetime` on this clock, and the first rate spans both runs | `metrics.go:869`, `1013` against `987-994` |
| `JobMetrics`: `no_stats` | a starter that sends neither clock nor uptime follows one that did: the counters left in the job ad meet the clock of the ingest | `metrics.go:48-49`, `33-37` |
| `QueueClient`: `last_flush` | the last flush of a stream fails and the query is reported complete | `capi/queue.go:766` |
| `QueueClient`: `late_check` | the stream ends between `hcdb_queue_next`'s receive and its check of `closed`: DONE with a chunk left | `capi/queue.go:825-829` |
| `Managers`: `LaunchFaults = {"tailer"}` | a launch that fails half-way leaves its tables claimed and some writers running | `scheddsync_manager.go:1014` |
| `Exporters`: `reregister` | an exporter registered again while its old child drains inherits that child's late save | `exporter_manager.go:241` |
| `Join`: `JoinStatements <- MCPushdown` | an ON condition of a later step on the right side of an earlier LEFT step is pushed below it | `repl/join.go`, `planStep` |
| `MCDistinctColumns` | DISTINCT compares all that the statement reads, its ON and WHERE columns too | `join.go:1178-1180` against `docs/repl.md:77-78` |
| `MCEmptyCount` | a COUNT over a join of no rows has no row | `join.go:1728-1801` against `exec.go:1910-1911` |
| `MCUnselectedGroup` | a join grouped by a column that is not selected is not grouped by it | `join.go:1728-1801` against `sql.go:2030-2036` |
| `Select`: `SelectStatements <- MCStreamedShapes` | `streamable` asks for neither UNION nor windows: a UNION ALL streams its first branch, a window its rows without ranks; a JOIN would stream its first table, and a row that does not parse ends the stream like its last | `repl/stream.go:92-103`, `44-47` against `14-22`; `capi/ads.go:60-85` |
| `Session`: what `ReadsOwnWrites` says | the help and the Python driver say that a SELECT does not see the writes of its transaction; the code lets it on most paths | `exec.go:400` against `repl.go:401-404`, `python/README.md:284-286`, `connection.py:45-47` |
| `Session`: `ReadShapes` with `"bucket"` | time_bucket aggregates, windows and computed groups read the committed store inside a transaction | `repl/exec.go:1114` |
| `Session`: `ConsistentTables` with another table than the default | a consistent write carries no table and lands in the default one | `repl/exec.go:268` |
| `Ansi`: `NegatedNulls` | a NULL bound below NOT renders as `!(false)` and admits rows | `ansi/lower.go:298`, `param.go:20-25` |
| `Flight`: `flush_fails`, `stop_before_flush`, `late_write` | the type memory is marked clean before it is written, and two writes may overtake each other | `columntypes.go:523` |
| `Flight`: columns past `ColumnLimit` (in the run; `SchemaPrefix` is about the others) | a column past the limit has no lasting position | `columntypes.go:326-329` against `43-44` |

## Not modelled

Text and wire formats, parsing, logging, metrics, backoff timing and status snapshots; the
request handlers of `server`, which dispatch to the database; the interactive shell,
diagnostics and DDL of `repl`; the encoding of values in `arrowtype`; the other bindings
of `capi`; `MirrorOut` and the queue log writer. The embedded database and raft are
libraries. Attribute values are opaque: expression evaluation plays no part in
replication, and in the query modules a predicate is a tree over a few typed cells. Each
part is in `PROJECT.json` under `components` with its status.

Within modelled parts: `RegisterPeer` checks the cluster size (0: no limit) before it adds a
voter and counts only what its own process saw; the actions are in `Coordinator` and no property
bounds the membership. A `Restore` that fails, a metrics store that cannot be read at a start
(`restoreMark`) and jobs that leave the sampler's cache (`forget`, `discard`) are left out, as are
Flight's `planAnalytic` and the eviction of schemas. The loss of a machine (rows committed without a sync under a flushed
cursor) is not among the crashes of `Replicator`. `MAX_RECORDS_PER_CYCLE` of the importer
is not modelled.

## Plan

Done: `JobSync`, `HistorySync` and `TableSink` with proofs, `JobAds`, the consumers with their
abstract specification and the proof that four of the five implement it, the services with the
failures of their own steps, and
proofs for the control plane, the importer, the sampler, the queue client, sessions and the
schemas of Flight streams. Next, in this order:

1. `ArchivedOnce`, from an invariant that relates the counts still to be matched to the records
   still to come.
2. `MirrorOut` and the log writer, as a round trip with `JobAds`.
3. An abstract `Mirror` specification (a table that follows a source, ahead or behind,
   never wrong where it vouches) that `JobSync` and `TableSink` implement.
