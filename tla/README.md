# remotecache in TLA+

A verification development for remotecache, a self-hosted Nx remote cache
server (Bun, TypeScript). It models the parts of `src/src` whose correctness
depends on interleavings, crashes, failing calls and limits; TLC checks them on
small instances and TLAPS proves the most important properties for instances of
every size.

Line references below are to files of the repository: `main.ts` is
`src/src/main.ts`, `file-system.ts` is
`src/src/cache/storage-strategy/file-system.ts`, and so on. `PROJECT.json`
lists, for every definition, the lines it translates.

## The system

One Bun process serves HTTP. It is single-threaded: a handler runs without
interruption from one `await` to the next, and everything else (other requests,
timers, the clock, the operating system) moves in between. That is the grain of
atomicity of every module here.

| component | state it keeps | operations | properties that make it correct |
| --- | --- | --- | --- |
| upload handler (`write-cache.ts`) | per request: expected length, counted bytes, source reader | `PUT /v1/cache/:hash` | one winner per hash, 409 only against a winner, no partial artifact, always answered |
| download handler (`get-cache.ts`) | per request: open stream | `GET /v1/cache/:hash` | serves one whole upload, no spurious 500 |
| filesystem strategy (`file-system.ts`) | `CACHE_DIR`: entries and `<hash>.<uuid>.tmp` buffers | `exists`, `getStream`, `getSize`, `writeStream`, sweep of orphans in the constructor | append-only, buffers never shared, no orphan after a restart |
| eviction (`eviction.ts`) | timer, `sweepRunning`; no index | `sweep` | limits enforced, never trims further than asked, always ends, gauge counts what is there |
| auth throttle (`auth-throttle.ts`) | two `Map`s of failure times, `#nextReleaseAt` | `recordFailure` | bounded, live blocks last, no release missed, the least recently failed client is forgotten first |
| graceful shutdown (`main.ts:166-184, 266-300`) | `activeRequests`, `drainWaiters` | `trackRequest`, `shutdown` | drains what began, ends in bounded time |
| token store and administration (`token/`) | SQLite table of hashed tokens, `user_version` | add, remove, list, find, migration at startup | unique ids, revocation takes effect, migration is atomic |
| S3 strategy (`s3.ts`) | `#client`, `#expiration`, `#refreshPromise` | conditional PUT, credential refresh | append-only, one refresh at a time, no expired client used, a failed refresh holds nobody |
| GCS strategy (`gcs.ts`) | a client built once | conditional PUT | append-only |
| storage selection (`create-cache-storage.ts`, `main.ts:108-114`) | none | environment to strategy and credentials, or a refused start | no credentials the operator did not mean, no limits that nothing enforces |
| readiness (`get-ready.ts`) | none | token database, then `checkReady` of the strategy | settles; shares the credential refresh with the requests |
| metrics, health, TLS | counters; none | | reporting only |

Interaction: the handlers and the eviction sweep share nothing but the cache
directory, and they reach it by *name*. A hit looks its hash up four times
(`exists`, `utimes`, open, `getSize`), the sweep twice (`stat`, `rm`), an upload
twice (`exists`, `link`), and any of the others may move the name in between.
`authenticate` resolves the token and feeds the throttle before the handler's
first `await`. The evictor reports to the metrics registry through `onSweep`.
Between the body of an upload and the strategy stand two streams: the source
reader, which `writeCache` must cancel or release, and `countedStream`, which
the strategy pulls, cancels or abandons. With an object store the requests share
the client and its credentials, and the bucket decides about a conditional write
on its own, maybe after the handler has given up on it.

What is hard: the race of uploads of one hash between `exists` and `link`; the
race of the sweep with hits and uploads; a process that dies in an upload; calls
that fail half-way (`rm`, `utimes`, the scan); a tracker at its limit that is
attacked with many addresses; a stale lower bound (`#nextReleaseAt`) on which a
walk is skipped; the end, the failure and the cancellation of a body, which race
for the release of its reader; credentials that expire while requests wait for
their refresh; a write whose answer is lost and which is committed all the same.
`PROJECT.json` lists each of these hazards at its line.

## Modules

| module | models | state and actions |
| --- | --- | --- |
| `CacheDir` | the cache directory and the clock | `dir` maps a name to an inode, `data` and `mtime` an inode to its content and time. An upload stands for the uuid it draws and for the inode it creates. Content is the sequence of uploads the bytes came from, which is all the properties tell apart |
| `WriteCache` | `writeCache` over `writeStream` | one step per `await`: `PutArrives`, `PutChecked` (exists, Content-Length, 413), `TempOpened`, `ChunkPulled`, `BodyDone`, `BodyFails`, `WriterEnded`, `Linked`, `TempRemoved` |
| `GetCache` | `getCache` over `getStream` and `getSize` | `GetArrives`, `GetChecked`, `AccessStamped`, `StreamOpened`, `SizeRead`, `BodyClosed` |
| `Evictor` | `createCacheEvictor` | `SweepStarts`, `EntryStatted` per name, `ScanFails`, `ScanEnds`, `ExpiredEvicted`, `TtlPassEnds`, `OldestEvicted`, `SizePassEnds` |
| `FsCacheServer` | the composition: one process, its death at any step, its restart with the sweep of orphaned buffers, the cron job the docs suggest | `PutRequest`, `GetRequest`, `Sweep`, `Clock`, `Prune`, `Crash`, `Restart`; all properties, fairness and the refinement mapping |
| `AppendOnlyCache` | abstract: what any storage promises the clients | `Store`, `Conflict`, `Hit`, `Miss`, `Drop`, `Fail` |
| `AuthThrottle` | `AuthThrottle` | one action per outcome of `recordFailure`, which is synchronous: `Throttled`, `Recorded`, `RecordedAfterRelease`, `RecordedAfterEviction`, `Refused` |
| `Shutdown` | `trackRequest`, `waitForRequestsToDrain` and `shutdown` of `main.ts`; Bun's side of a request (refusing, sending, `pendingRequests`) is external | `RequestStarts`, `HandlerSettles`, `ResponseSent`, `ShutdownStarts` per signal, `Polled`, `TimesOut` |
| `TokenStore` | `TokenStorage`, `addToken`, `deleteToken`, `resolveToken`, `authenticate` | the committed table and its version marker, the open transaction of the migration. `Opened`, `RowRehashed`, `MigrationCommitted`, `Crash`; `AddArrives`, `BodyParsed`, `TokenInserted`, `TokenDeleted`; `Authenticated`. A text is named by what it is a digest of, so a plaintext may be the digest of another |
| `UploadSource` | the reader of the source, `countedStream`, `cancelSource` and `releaseSource` (`write-cache.ts:83-151`); the streams of the platform and the strategy are external | `Pull`, `ChunkRead`, `EndRead`, `ReadFails`, `ChunkTaken`, `CountedCancelled`, `CancellationSettles`, `WriteResolves`, `WriteRejects` |
| `StorageConfig` | `createCacheStorage` and its resolvers, the eviction check of `main.ts` | pure operators from an environment to the strategy and credentials, or `"refused"` |
| `S3Credentials` | `getClient` and the refresh of `S3Strategy` | `#client`, `#expiration`, `#refreshPromise`, who awaits it, and how many calls of the provider are under way; `getClient`, `Refreshed`, `RefreshFailed`, `TimePasses` |
| `ObjectServer` | uploads, downloads and readiness probes over `S3Strategy` or `GcsStrategy`, from the start (`Boot`) through deaths and restarts; the bucket is external | per request the storage call it awaits; per upload its conditional write on the wire, which the bucket settles (`Stored`, `Conflicts`) apart from its handler (`PutSettles`) |
| `MCFsCache`, `MCUploadSource`, `MCObjectServer`, `MCAuthThrottle`, `MCShutdown`, `MCTokenStore` | what TLC instantiates, with the symmetry sets | |
| `FsCacheServer_proofs`, `FsCacheAnswers_proofs`, `FsCacheEviction_proofs`, `UploadSource_proofs`, `ObjectServer_proofs`, `AuthThrottle_proofs`, `Shutdown_proofs`, `TokenStore_proofs` | the theorems and their proofs | |

`Foo_Bar` definitions next to `Foo` are mutants of `Foo`: plausible bugs of the
code, kept to show that each property notices one. Variables that the code does
not have are marked "history" and appear in properties only.

The composition is by shared variables: `WriteCache`, `GetCache` and `Evictor`
all extend `CacheDir`, their actions say what they do to the directory, and
`FsCacheServer` adds what each leaves alone. The refinement reads the abstract
cache off the directory: a hash stores upload `u` when its inode holds exactly
the bytes of `u`, an upload takes effect at its `link`, a download at the open
of the file. A torn file stands for no entry, so it has no abstract counterpart.
`ObjectServer` implements the same `AppendOnlyCache`: there an upload takes
effect when the bucket commits it, whoever still waits for the answer, and a
download when its lazy stream asks for the object. `writeCache` and `getCache`
are translated a second time in it, because over an object store they await
other calls (`getClient` before each) and their effects happen elsewhere. An
oversized body fails only after the announced length was handed on
(`write-cache.ts:120`), and the write announces exactly that length
(`s3.ts:99`), so the bucket may have and commit an upload that is answered 400;
what it stores is then the body up to the announced length.
`UploadSource` stands beside the composition and details what `BodyDone` and
`BodyFails` of `WriteCache` abstract: which party lets go of the body's reader,
and when. No refinement connects the two yet.

## Runs

| run | question | bounds |
| --- | --- | --- |
| `writers` | do racing uploads stay apart, whatever call fails and wherever the process dies? | 3 uploads of one hash, bodies of up to 2 bytes in chunks of 1 or 2, one crash, faults of exists, open, write, link, client |
| `serve` | is everything a client sees an append-only cache, and is a 500 ever the fault of an interleaving? | 2 uploads, 1 download, 1 hash, TTL 0 with 2 clock values, cron job, failing scan, failing stat and failing rm of the sweep, failing `utimes` |
| `sweep` | does the sweep keep its promises while uploads commit and hits stamp? | 2 uploads, 1 download, 2 hashes, cap 2, bodies of 1 or 2 bytes, TTL 0 with 2 clock values (the tick is longer than the TTL) |
| `live` | does everything end that must, and what does a power cut leave? | 2 uploads, cap 1 with bodies of up to 2 bytes, one crash, which may be a power cut, `rm` of a buffer may fail; `FairSpec`, no symmetry |
| `block` | is the throttle right at its limit? | 5 buckets, 3 slots, 2 failures, window 3, 7 clock values: room for a block, its release and a second one |
| `tokens` | do exactly the tokens in force authenticate, whatever database an older version left? | every old database of up to two tokens, the second possibly the digest of the first; 2 POSTs, 2 ids, 2 deaths of the process |
| `shutdown` | does a drain cut nothing, and does the process end? | 4 requests, 2 signals |
| `source` | does every upload let go of its body, once, and does a 200 mean a whole body? | Content-Length 1 to 3, bodies from empty to one byte too many, in chunks of any size; client may go away, `releaseLock` may throw, the strategy may reject or cancel at any moment; `FairSpec` |
| `objects` | is a server over a bucket the same append-only cache, and are its credentials right? | every environment; 2 uploads, 1 download, 1 probe of one key, credentials that live 2 ticks with a window of 1, one crash, lost answers, failing provider, clients that go away, lifecycle deletions; `FairSpec` |
| `scanfault`, `activehit`, `power` | counterexamples, see below | |

Two uploads of a hash are enough for every two-party race; the third in
`writers` lets a loser of one race be the winner of the next. Lengths up to two
units tell empty, partial, complete and excessive bodies apart. Two hashes with
a cap below the sum of their sizes are the smallest instance where the size pass
has a choice. Bounds that exist only for TLC are constants named for it:
`MaxClock`, `MaxNow`, `MaxCrashes`, `MaxLength`, `Horizon`; the proofs hold for every value of them.
`Faults` names the calls that may fail in a run. No run but `tokens` checks deadlock: a
server with no more requests in the instance, or one that exited, is at rest.

Fairness (`FsCacheServer!Fairness`): every handler that is waiting for a call
that can settle goes on (the event loop), the sweep's timer fires, and a dead
process is restarted (Docker or Kubernetes do that). A body stream ends one way
or another because Bun closes idle connections. Nothing forces a new request, a
crash, the clock or the cron job. In
`Shutdown` the poll of the drain is fair, and its two promises each name what
else they need: `TimeoutEndsProcess` that the timeout fires, while requests may
stall for ever; `DrainEndsProcess` that requests end, while the timeout may
never come. `TokenStore!FairSpec` starts the process again after each death;
its constructor then runs to its end. In `UploadSource` the platform pulls a
stream that has room, a body delivers bytes, its end or an error, the strategy
takes what is queued and settles once `countedStream` is over, and a
cancellation settles; that the strategy rejects or cancels early is never
forced. In `ObjectServer` every storage call and the provider settle and the
bucket decides about a body it has; nothing forces an answer to be lost, a
deletion or a restart, and `RequestsSettle` holds all the same because a death
takes its requests with it.

What the runs found:

- `activehit`: a hit after the sweep's `stat` does not save the entry, against
  `configuration.md:48` ("artifacts in active use survive the TTL").
- `scanfault`: a scan that fails publishes a size of 0 for a cache that is not
  empty, against the comment of `totalBytes` (`eviction.ts:7`). A single
  `stat` that fails has the same effect for one entry (`eviction.ts:85` takes
  every error for a deleted entry): the published size leaves it out, and
  neither limit applies to it in that sweep. `GaugeIsRight` and
  `LimitsAreEnforced` therefore need the assumption that it succeeds.
- `power`: neither the file nor its directory is synced, so a power cut can
  leave a torn artifact under a hash, against `storage-strategies.md:16`; the
  append-only rule then keeps it there. The link may be lost as well: the entry
  of an upload that was answered 200 is gone, and another upload of the hash is
  answered 200 after it. What a cut cannot do is mix two uploads
  (`CommittedUnmixed`, which `live` checks).

What a power cut may do (`PowerCut`) is an assumption about the file system
under `CACHE_DIR`: each name is as it was, gone, or back to a file it once led
to, independently of the others; each file is a beginning of what was written to
it; a time stamp may be any. Blocks that were never written do not appear in a
file, as with data journalled in order.

`security.md:46-47` says that the tracker forgets "the least recently failed"
client first. The comment at `auth-throttle.ts:130-134` accepts an exception:
clients whose block was released are appended behind clients that failed after
them. `ForgetsInOrder`, which `block` checks, states the order with that
exception (the history variable `appended`).

## Proofs

Every safety property of a passing run is also a theorem, for every value of the
constants; in brackets the property where the theorem states one. An assumption
`"x" \notin Faults` is written "where x succeeds" or "without x"; a theorem has
one only where the property needs it.

`FsCacheServer_proofs`, for any sets of uploads, downloads and hashes, any
limits and any faults:

- `BuffersAreSafe` (`BufferSafe`) and `RequestsAreTyped`, power cuts included;
- `EntriesAreUnmixed` (`CommittedUnmixed`), with power cuts that undo links,
  removals and writes: an entry, and a file that a download has open, is the
  beginning of one upload;
- `EntriesAreIntact` (`CommittedIntact`) and `DownloadsAreIntact`
  (`ServedIntact`), without power cuts (the `power` run shows why): it is all of
  one upload;
- `EntriesAreNeverReplaced` (`NeverReplaced`), without power cuts: a cut may
  bring back the entry that an earlier upload had.

None of these is inductive: that a committed file is whole follows from what the
upload did long before. The invariant `IInv` follows an upload's inode instead.
Until the link it is *private*: no hash and no download leads to it, its upload
was not answered 200, so that no cut can bring it back under a hash, only its
own upload has it open, and while it is written it holds exactly the bytes
counted. From the link on its upload has closed it, and it is complete unless a
power cut shortened it. Every action either moves one upload along this line
(`PutFrame` carries the others over) or only drops names and closes descriptors
(`DropPreserves`), which cannot publish anything.

`FsCacheAnswers_proofs` builds on `IInv`. Its invariant `AInv` adds how answers
go with entries and descriptors: the file under a hash is the upload that was
answered 200 for that hash, a request that is still open has no answer, a
download has a file open exactly from the open on. Each step of a request is
first reduced to what it can come to (`PutEffect`, `GetEffect`: it moves on, it
enters, fails, conflicts, stores, misses, hits), each other step to "entries are
kept or one is dropped" (`OtherEffect`); invariants and refinement then argue
about these effects only.

- `ConflictsHaveWinners` (`ConflictHasWinner`), under any faults.
- `ServerIsAppendOnly` (`ImplementsAppendOnlyCache`), without power cuts: every
  step maps to a step of `AppendOnlyCache` or a stutter. `IInv` makes what a name
  or a descriptor leads to intact, so the mapping shows it as it is.
- `FirstWriterWins` (`OneWinner`), without limits, without the cron job and
  without power cuts: an upload answered 200 keeps its entry for ever, whatever
  fails and however often the process dies.
- `BuffersAreNotOrphaned` (`NoOrphanBuffers`), where `rm` and the startup sweep
  succeed.
- `ErrorsHaveCauses` (`NoSpurious500`), where the calls that are not best-effort
  succeed and the power stays on: a download past `exists` has seen a stored upload, and an upload that
  lost its entry never gets it back.
- `SweepDecidesOnTheCurrent` (`SweepSeesCurrent`), without the cron job: the
  sweep keeps one record of a name, so its own deletion never makes another
  record stale, and no writer has an inode open that a record names.

`FsCacheEviction_proofs` is about what the sweep computes. Its first part
derives what the properties need of `SumSizes` and `SizeOf` (the sum over a set
is that without one element plus that element, it depends only on the summed
values, a part sums to no more than the whole) from the definition of the folds,
each induction as the choice of a minimal counterexample. Its second part:

- `TypesAreRight` (`TypeOK`), under any faults: `totalBytes` and the gauge are
  numbers because each pass subtracts an entry only once (`TInv`).
- `SweepInvariance`, without the cron job: the invariant `GInv` says, for each
  point of the sweep, where the entries that were there when it began are: not
  scanned yet, recorded (if the `stat` succeeded), or gone from the directory;
  that every record describes the file under its name; and that in the size pass `totalBytes` is the total of
  a set of files (`Counted`) that contains them and is contained in the
  directory. A sweep alone deletes, so what it has not deleted is still there;
  the uploads that commit behind it are why the set is not the whole directory.
- `GaugeIsRight` (`GaugeCountsEntries`), where the scan and every `stat` succeed
  and without the cron job: the `scanfault` run is a counterexample to the
  first, a file the cron job takes after its `stat` would be one to the second.
- `LimitsAreEnforced` (`SweepEnforcesLimits`), where besides the `rm` of the sweep
  succeeds: an entry that cannot be removed stays.
- `TrimsOnlyOverCap` (`EvictsOnlyOverCap`), without the cron job, whatever fails.

`ObjectServer_proofs`, for any environment, requests, keys, lifetimes, crashes
and faults: `ObjectsAreTyped`, `RefreshesAreShared` (`RefreshIsShared`),
`CredentialsAreIntended` (`NoUnintendedCredentials`), `CallsAreFresh`
(`CredentialsAreFresh`), the refinement `ObjectsAreAppendOnly`
(`ImplementsAppendOnlyCache`), and `ClientsMeetStoredUploads`, which is proved
of the steps of the abstract cache and read back through the mapping: a 409 is
for another committed upload of the hash, a read is of a committed upload of the
hash it asked for. The invariant ties each request's answer to the
call it awaits and to its write on the wire: a write the bucket has not decided
belongs to a handler that waits for it or has answered 400 or 500, and a 200 or
409 of an upload is the bucket's word, or that of `exists`. It is assumed that
credentials outlive the refresh window when they are handed out
(`LifetimeAssumption`).

`UploadSource_proofs`, for any Content-Length and any faults:
`ReaderIsReleasedOnce` (`ReleasedOnce`), `NoReadIsAborted` (`NoReadAborted`),
`StoredUploadsAreWhole` (`StoredWhole`), `UploadIsTyped`, and
`RejectedSourcesStop`: after a rejected upload its source is no longer readable.
The invariant says that `countedStream` closes only at the announced length,
that what the strategy took and what is queued add up to what was counted, and
that the lock is released only when no read waits.

`AuthThrottle_proofs`, for any finite set of clients and any limits:

- `TrackerIsBounded` (`TrackerBounded`), `AttemptsTellTheMap`
  (`AttemptsMatchMaps`), `NoReleaseIsMissed` (`ReleaseNotMissed`),
  `LiveBlocksLast` (`BlockLasts`), `RefusalMeansFull` (`RefusedOnlyWhenFull`),
  from an invariant that adds to the type that the list lengths tell the two Maps
  apart and that `nextReleaseAt` is below every release. `RefusalMeansFull` then
  says that a walk skipped on the word of a stale `nextReleaseAt` would have
  released nobody.
- `RoomIsMadeInOrder` (`ForgetsInOrder`), from `OrderInv`: any two clients of a
  Map are ordered, and a client below the threshold that no release appended
  failed last after everybody ahead of it. What a recorded failure does to each
  client is stated once (`Stored`) for its three variants.
- `SomebodyIsOldest`, from `StrictInv` (the order is strict): where `makeRoom` has
  clients to drop, one of them comes first. So no state leaves `recordFailure`
  without an outcome.
- `BlockedMeansFailures`, from `AscendInv`: the remembered times ascend, as the
  comment at `auth-throttle.ts:77` claims. That is why the one entry the code
  compares tells whether `maxFailures` failures are in the window, and why the
  model may take a suffix where the code filters.

`TokenStore_proofs`, for any ids, tokens, requests, crashes and faults:
`TableIsNeverHalfMigrated`, `LookupsAreRight`, `OnlyGuessesCount`. The
invariant: under the old marker the committed table is the set of issued tokens,
under the new one the set of their digests; the open migration holds some
digests and has the rest to insert; nothing is served under the old marker. That
digests do not collide is how texts are modelled (`HashInjective` is a lemma),
and that no token equals `ADMIN_TOKEN` is an assumption.

`Shutdown_proofs`, for any finite set of requests and any signals:
`DrainsCutNothing`, `NoWakeupIsLost`. The invariant says that `activeRequests`
counts exactly the running handlers, so that 0 means none, and that a shutdown
that waits is registered while one runs. The assumptions are the named ones of the modules.

Only model-checked: liveness under fairness (`PutAnswered`,
`CapReached`, `SourceLetGo`, `RequestsSettle`, `ServesInTheEnd`,
`TimeoutEndsProcess`, `DrainEndsProcess`), which needs ENABLED and is out of the
prover's reach, and the three counterexamples. `ActiveSurvivesTtl` is false of
the code, `CommittedIntact` and `GaugeCountsEntries` are false where a power cut
or a failing scan or `stat` is allowed; that is what their runs show.

On `sweep`: the TTL pass acts on the `mtime` its `stat` read, and a hit whose
`utimes` settles late can make an entry look older again after that. So
`SweepEnforcesLimits` promises the deletion of the entries that were past the
TTL at every step of the sweep (the history variable `stale`), not of those that
are past it when the sweep ends.

## Not modelled

- `clientKey` (a function from addresses to buckets): a bucket is chosen freely.
- Parsing of limits and ports, TLS loading, responses, logging, metrics
  rendering, `/health`: no state that another part depends on.
- `AWS_REGION`, endpoint, project and session token: passed on to the SDK, they
  decide nothing here.
- The `Content-Length` of a hit over an object store: the handler sets it, but
  Bun sends a streamed body chunked and the header does not reach the client.
  Over the filesystem `rsize` follows the value `getSize` finds.
- The write probe of `CACHE_DIR` (`file-system.ts:16-52`): its files have names
  of their own, and both sweeps skip names that begin with a dot.
- Filesystem details: permissions, full disks other than as a failing call,
  hard-link support.
- What a stream of an object store holds on to when `getSize` rejects after the
  stream was opened (`get-cache.ts:33`): the model has the step, no document
  says what should become of the connection.

## Plan

Done: the filesystem server with its abstract specification, the throttle, the
shutdown, the token store, the lifecycle of an upload's source, storage
selection, the object-store server with its credentials, and the proofs above,
both refinements included.

Left:

1. The composition of `TokenStore` with an upload under way: a permission is
   resolved before the first `await`, and the token may be deleted during the
   upload (`main.ts:216`).
2. The composition of `TokenStore` with `AuthThrottle`: which failures feed which
   bucket.
3. `UploadSource` under `WriteCache` and `ObjectServer` instead of beside them.
4. Proofs about these compositions, once they are modelled.
