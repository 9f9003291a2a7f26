# Verification of learn-helm-oci

TLA+ models of the program in this repository: loading a Helm chart from an OCI
registry that a Flux `HelmRepository` describes, with the credentials handling,
the verification of signatures, the transport pool and the TTL cache around it,
and the two other programs of the repository that keep state: the chart syncer
and the printer of helm commands. TLC checks small instances; TLAPS proves the
safety properties and the two refinements for every value of the constants.

## 1. The system

| Part | Source | State it keeps | Operations |
|---|---|---|---|
| Chart loading | `main.go` (`LoadChart`) | locals of one call, its deferred calls | read the HelmRepository and its Secret or cloud provider, make a client, log in, resolve a version, pull, clean up |
| Credentials and URLs | `internal/helm/registry/auth.go`, `internal/helm/getter/getter.go`, `internal/helm/repository/utils.go`, `internal/oci/auth.go` | none | pure functions: URL or Secret to keychain, authenticator, login option |
| Registry client | `internal/helm/registry/client.go`; helm, oras and docker code under `vendor/` | a credentials file and its in-memory copy, the machine's own stores | `ClientGenerator`, `Login`, `Logout`, the credential a request presents |
| OCI chart repository | `internal/helm/repository/oci_chart_repository.go` | options, getter, client, verifiers | `GetChartVersion`, `DownloadChart`, `VerifyChart`, `Login`, `Logout`, `Clear` |
| Transport pool | `internal/transport/transport.go` | a `sync.Pool` of `http.Transport` | `NewOrIdle`, `Release` |
| TTL cache | `internal/cache/cache.go` | a map, an RWMutex, a janitor goroutine | `Set Add Get Delete Clear HasExpired SetExpiration GetExpiration ItemCount DeleteExpired`, janitor, finalizer |
| Verifier | `internal/oci/verifier.go`, cosign under `vendor/` | cosign's options, with a pool of intermediate certificates | `NewCosignVerifier`, `Verify` |
| Chart syncer | `chart-syncer/main.go` | helm's aliases and cached indexes, files in `/tmp`, tags of a registry | loop of search, digest, pull, push |
| FluxCD printer | `fluxcd/main.go` | an output buffer, the values file of the last call | `Do`, `ValuesFile` |
| Metrics, examples | `internal/cache/metrics.go`, `private-oci`, `cache-check`, `oci-ghcr` | - | - |

How they interact. `LoadChart` calls everything else in the chart path and
shares nothing with other calls in memory; what concurrent loads share is the
cluster, the registries and the machine (its registry and docker configuration,
a native `docker-credential-*` helper, the temporary directory). The transport
pool is global. An `OCIChartRepository` may be shared by its users: `VerifyChart`
hands a version that `GetChartVersion` made to its verifiers in turn, each of which
asks the registry anew, and all calls share a verifier's cosign options. The cache
is a library that nothing in the repository calls yet; its callers and its janitor
share the map. Runs of the syncer share helm's configuration, `/tmp` and the
registries. The printer is called by its owner and reads the cluster twice.

What is hard about it: failures at any step while a temporary file with a
password exists; deferred calls in the right order, the first of which writes
the file again that the second deletes; logins kept under a host name in stores
that several loads may share; two reads of a changing cluster, and a listing and
a pull of a changing registry; slices and getters reused between calls; locks
with early returns, a clock that is read several times in one call, and a
finalizer that waits for a goroutine; a tag that moves between resolutions, and a
certificate pool that every signature may change; a run of commands that stops
anywhere, is started again and finds what the last one left; a command line put
together piece by piece and cut at its end. PROJECT.json lists these hazards at their
lines.

What correct means, part by part:

* Chart loading: no credentials file outlives a load; the machine's own logins
  are not touched; a load presents its own login only; the Secret decides the
  login; what is loaded is what was asked for; a load that does not return waits
  for a registry.
* Transport pool: a transport has one user; it is sanitised between users; a
  pull goes through its own call's transport.
* Cache: bounded; linearizable as a TTL map; expired items are swept; the
  janitor ends; calls return.
* Verifier: what is verified was signed for a configured verifier; a failure has a
  reason; the credentials file is forgotten only once it was deleted.
* Syncer: the registry mirrors the source; a finished run synced all it listed; a
  run pushes its own chart.
* Printer: the command is whole, carries the changed values, names one source.

## 2. Modules

| Module | Models | Composed of |
|---|---|---|
| `RegistryAuth` | URL and Secret helpers, keychains and authenticators, as operators | - |
| `ChartVersions` | which version a request denotes | - |
| `LoadChart` | concurrent loads, their world, their failures | extends `RegistryAuth`, instantiates `ChartVersions` |
| `LoadChartProofs` | theorems about `LoadChart`: files, stores, logins | |
| `LoadChartInputsProofs` | theorems about `LoadChart`: from inputs to a login and a chart; the native helper | |
| `ChartDownload` | `DownloadChart`, the getter and the transport pool | - |
| `ChartDownloadProofs` | theorems about `ChartDownload` | |
| `TTLCache` | what a TTL cache promises: atomic calls | - |
| `Cache` | `cache.go` step by step, and its refinement of `TTLCache` | instantiates `TTLCache` |
| `CacheProofs` | theorems about `Cache`: lock, capacity | |
| `CacheRefinementProofs` | that `Cache` implements `TTLCache` | |
| `ChartRepository` | `VerifyChart` with its cosign verifiers, `Login`, `Logout`, `Clear`, `HasCredentials` | - |
| `ChartRepositoryProofs` | theorems about `ChartRepository` | |
| `ChartMirror` | what the syncer promises: a registry that gains published charts | - |
| `ChartSyncer` | the syncer's runs, and their refinement of `ChartMirror` | instantiates `ChartMirror` |
| `ChartSyncerProofs` | theorems about `ChartSyncer` | |
| `FluxCDPrinter` | `FluxCDCommandPrinter.Do` over several calls | - |
| `FluxCDPrinterProofs` | theorems about `FluxCDPrinter` | |
| `MC...` | values of the constants for TLC, one module per system above | |

The bodies named "Mutant" next to a definition are deliberate bugs: each run
is repeated with one of them in place of the definition, and the property it is
for must then fail. They are no part of any specification.

### LoadChart

One process per call. `pc` is the place in the function; `repo`, `secret`,
`login`, `cv`, `result` are its locals; `defers` is its stack of deferred calls.
Every call that can fail does so by a disjunct that goes to `"return"` with no
result, from where the deferred calls run last in, first out. `Crash` kills a
load at any step: no deferred call runs.

The credential stores follow docker's and oras' code. `disk` is the temporary
file, `mem` the client's in-memory copy of it, `machine` the logins in the
machine's own files, `native` those in a credential helper. A client's own store
is the helper when there is one and the file holds no login; otherwise its file.
`Presented` is the lookup of `Client.Credential`: the own store first, then the
machine's as a fallback. Saving a file renames a new file over it, so a save
creates it again if it was deleted.

The world changes by `EditRepository`, `EditSecret` and `EditRegistry`. A load
reads the cluster twice, in `GetHelmRepository` and `UseSecret`, and the
registry twice, in `ListTags` and `DownloadChart`; edits fall between.

Data is abstract: a URL is a record of what the code asks of it, a tag a core, a
prerelease number and a way of writing, a constraint an interval of cores.
Unions of intervals (`||`) and build metadata are left out; versions that differ
in build metadata only are equal, and any of the highest may be chosen.
`highs` of a load collects what is right from its read of the HelmRepository to its
listing (`Reading`). `shown`, `highs` and `stuck` are history variables for the properties: the
credentials presented, the versions that were right at some time, the files that
`os.Remove` failed on. No action reads them.

### ChartDownload

A thread calls `DownloadChart` over and over on the repository `RepoOf` gives it.
`cell` is the element of the backing array after the end of `r.Options`: `append`
writes there when the slice has spare capacity (`Roomy`), and allocates when not.
`getter` is the transport among the options the getter keeps from one `Get` to
the next. With a registry client among the options (`WithClient`, as `LoadChart`
does) no pull uses the transport at all; the pool still hands them around.

### Cache and TTLCache

Every method is cut where the lock or the clock can come between: taking the
lock, the lookup, the verdict against `time.Now()`, the write, the release, and in
`GetExpiration` the subtraction after the release. `Lock` is two steps, as in
`sync.RWMutex`: a writer keeps others out, then waits for the readers. The sweep
deletes key by key. `life` follows the `Cache`: in use, dropped (the
finalizer is sending on `stop`), stopped.

`TTLCache` has one action per call's effect; an expired item may vanish at any
time. `LinearizableTTLCache` is the refinement, with `op` and `ret` mapped to the
call and its answer. Of the two expiration calls the promise says what the code
keeps of their comments (section 5): `SetExpiration` answers and sets nothing,
`GetExpiration` answers some number and changes nothing.

### ChartRepository

A thread is in one call at a time. `turn` is the verifier that
is asked, `digest` what the tag resolved to for it (`Resolve`), `unchecked` and
`checked` the signatures of that image (`Fetch`). A signature under a key is one
step (`CheckKey`). A keyless one is two: `TakeChain` replaces the verifier's pool as
`VerifyImageSignature` does (nil after a chain of at most one certificate, filled
from the chain when it was nil), and `Trust` looks at the pool as it is then, which
another call may have replaced. `Conclude` is the end of `Verify` and the body of the
loop in `VerifyChart`: cosign's "no matching signatures" is an error, so `Answer` is
never "false" and the next verifier's turn never comes. The model keeps that branch.
`NewCosignVerifier` sets no `ClaimVerifier`, so a signature counts for the image it
is attached to, and its payload is not in the model. Cryptography is whether a key
or an issuer matches; the transparency log is a request that may fail.
`BeginClear`, `Remove` and `Forget` are `Clear`; `DeleteFile` is the `os.Remove` that
a caller such as `LoadChart` defers for the same file. `Login` and `Logout` are those
of a repository that its users share: each may save the client's configuration, which
creates the file again (`SaveFile`: `file` is "made" as the client got it, "absent", or
"saved" since). `MakeRepository` decides whether there is a file at all, and `given`
tells a repository that was made with the file's name from one that never had it. A
`Login` or a `Logout` is one step, its save of the file; which logins the file holds is
the business of `LoadChart`, and that two of them write one map at once, which Go does
not allow, is not modelled. `fault`, `quiet` and `denoted` are history variables for the properties.

### ChartSyncer and ChartMirror

A process per syncer, `off` between runs; `Kill` ends a run at any step and leaves
its files. Each command of the loop is an action, with a failure as a disjunct:
logged for `helm repo add`, "not there" for `crane.Digest`, a panic for search, pull
and push. A push that fails may have reached the registry all the same. `repos` and
`index` are helm's own files: an alias that exists keeps its URL, and its index is that
of the day it was added. `tmp` has a place for each file
name, name-version, whoever's chart is in it. Charts are published meanwhile
(`Publish`). The search returns every chart of the index; the code passes over those
whose full name differs (`NextResult`). The order of the results does not matter to
what is checked, so any remaining one may be next.

`ChartMirror` has two actions, somebody publishes a chart, and one chart is put in
its place. `MirrorsSource` is the refinement; the state of the mirror is `source` and
`images` themselves.

### FluxCDPrinter

The actions are the two reads of the cluster, the composition of the buffer and the
write; `Edit` changes the cluster between them. A line of the command is the set of
flags it gives and whether it ends in a continuation, which is also what the last
three characters of the buffer are, so `CutContinuation` is the code's `Truncate`.
The first line for a plain repository holds only the chart's name, which is no flag
(`<<"name", Nil>>`). How `values` compares and prints values is external: what comes of it is a list of
changed values, some with a newline in them, which the code refuses.

## 3. Runs

| Run | Properties | Instance |
|---|---|---|
| `load_inputs` | `TypeOK`, `SecretDecidesLogin`, `LoadedIsRequested`, `PullUsesOwnLogin`, `OnlyRegistryHolds` | 2 loads with a native helper; for the first 6 URLs x 2 types x 2 providers x 12 Secrets (one missing) x 7 versions, and a world in which both succeed on two hosts; no edits; registries need not answer |
| `load_shared` | `NothingLeftBehind`, `PullUsesOwnLogin`, `LoadedIsRequested`, `MachineLoginsKept` | 2 loads of one repository, 1 edit of anything |
| `download_own` | `TypeOK`, `Exclusive`, `IdleSanitised`, `PullUsesOwnTransport` | 3 threads with a repository each, 6 transports |
| `cache_core` | `TypeOK`, `CapacityKept`, `ReadsAreStable`, `LinearizableTTLCache` | 2 callers and the janitor, every method between them, 2 keys, room for 1, clock 1..3 |
| `cache_live` | `ExpiredIsSwept`, `JanitorStops`, `EveryCallReturns` | 2 callers, 1 key, `Set`, `SetExpiration`, `GetExpiration` |
| `verify_charts` | `TypeOK`, `VerifiedWasSigned`, `FailureHasAReason`, `ForgottenWasDeleted`, `EveryVerifyReturns` | 2 threads that verify, log in, log out and clear, and the maker's own removal of the file; no, one or two verifiers, by key or keyless, with and without a file; 3 signatures, 2 images, 1 edit of the registry |
| `sync_charts` | `TypeOK`, `DoneMeansSynced`, `PushesWhatItPulled`, `MirrorsSource`, `EveryRunEnds` | 2 syncers of charts of one name from two repositories, 2 runs in all, one chart published meanwhile |
| `print_command` | `TypeOK`, `AllOrNothing`, `ValuesReachTheChart`, `CommandNamesItsSource` | 2 calls of any of 16 requests, 1 edit of the cluster |

Violations, one property each, of what a comment says (section 5):

| Run | Property | Finding |
|---|---|---|
| `download_shared` | `PullUsesOwnTransport` | 1 |
| `sync_place` | `SyncedIsAtItsPlace` | 2 |
| `load_silent` | `EveryLoadReturns` | 3 |
| `verify_any` | `AnyVerifierSuffices` | 4 |

Bounds. Two loads suffice for every interference here: what a load can suffer
from others is a change of a shared store or of the world between two of its own
steps, and one other load and one edit produce each of these (`MaxEdits`, counted
in `edits`). The inputs of `load_inputs` take each branch of each helper: missing,
half and complete user names and passwords, an identity token, readable and
unreadable TLS material, a docker configuration that is broken, lacks the host,
or holds an empty or half entry for it; URLs that do not parse, carry another
scheme, an alias, or "oci" in the wrong place. Six transports are two for each
repository plus spare ones, so that a new transport is always at hand. `verify_charts`
has a signature for each way a verifier decides: its key, a certificate of the root,
and one of an intermediate that only the signature's own chain names, which counts
or not by what the pool has become; the second of two verifiers is the one that would
accept. A third thread adds no new order: what one call suffers from another is the
pool, the registry or the file changing between two of its steps. Verification and
credentials share no state, so one repository without verifiers has a file: two `Clear`s,
a `Login` or a `Logout` between their steps and the maker's removal meet there.
`sync_charts` has a
version with build metadata, which no digest check ever finds, a chart whose name
begins like the one asked for, a file of another repository's chart in `/tmp`, and an
image in the registry before the first run; two runs are a run and its repetition
after a kill or a panic, or two at once. In `print_command` two calls are one after
another on the same fields. In the
cache two keys with room for one make the full cache and the replacement of an
item both happen, and three instants let an item be fresh, at its last instant
and expired. `CHECK_DEADLOCK FALSE` is set where the system really stops: when
all loads have ended, when the `Cache` is dropped and stopped, and when the runs of
the syncer or the calls of the printer are used up; the download and the
verification loop never stop, and there deadlock is checked.

Symmetry is used in the download runs only, over transports, which nothing tells
apart; those runs check no liveness.

Fairness. `LoadChart` (`SilentSpec`): weak fairness of each load's own steps: a
goroutine that can run does; a request to the API server is taken to be answered; a
login or a provider answers or times out. Nothing is assumed of a registry's answers to
listings and pulls, which no timeout in the code bounds. `Cache`:
weak fairness of a call's own steps; strong fairness of taking the lock, because
`sync.RWMutex` lets no waiter starve; the ticker ticks; and strong fairness of
the two branches of the janitor's `select`, which picks at random when both
channels are ready. Neither the clock nor the callers are fair. `ChartRepository`
and `ChartSyncer`: weak fairness of a call's or a run's own steps, each of which is a
request or a command that answers or fails; nobody has to begin a call, start or
kill a run, change a registry or publish.

## 4. Proofs

All proofs are for any number of loads, threads, keys, hosts, inputs and edits.

* `LoadChartProofs`. The inductive invariant adds to `TypeOK` what a load's place
  says of its file, its deferred calls and its stores: which files exist at which
  place, that a deferred `remove` is queued exactly as long as a file of this
  load may exist, that `logout` is above `remove`, and that what `mem` holds
  after `Login` is the load's own login. From it: `TypeCorrect`, `FileIsDeleted`
  (`NothingLeftBehind`), and, assuming `~NativeHelper`, `MachineIsKept`
  (`MachineLoginsKept`) and `OwnLoginIsUsed` (`PullUsesOwnLogin`). The assumption
  is needed: with a helper and two loads on one host both fail (section 5).
* `LoadChartInputsProofs`. `SecretIsDecisive` (`SecretDecidesLogin`) goes through the
  chain of helpers that a Secret takes, one lemma each: what `SecretCredential` reads
  is what the Secret holds for the host (`ReadCredential`), a keychain for that host
  gives it back, as none when it is blank and as an error when it is half
  (`KeychainLogin`, `SecretDecides`). The invariant `SecretInv` carries the decision
  from `UseSecret` to the end. `LoadedIsAsked` (`LoadedIsRequested`) rests on one
  lemma about versions, that what the code's comparisons pick from a listing is what
  `Wanted` says without them (`ListedIsWanted`), and on `ChoiceInv`: until the listing
  what is right now is among `highs`, whatever edits come between, and from the
  listing on the version is as asked. `OwnLoginWithHelper` is the other half of
  `OwnLoginIsUsed`: with a native helper `PullUsesOwnLogin` holds as long as no two
  loads between their login and their last deferred call are on one host
  (`HostsApart`). That is so in every state of `load_inputs`, where two loads do log in
  on two hosts; the invariant is that the helper holds a load's login for its host from
  `Login` to the pull.
* `ChartDownloadProofs`. `TypeCorrect`, `TransportsAreExclusive`,
  `PoolIsSanitised`; and `OwnTransportIsUsed` assuming that no two threads share
  a repository, which is how `LoadChart` uses it and what `download_shared` drops.
  The strengthening says that the cell and the getter of a repository hold its
  thread's transport between the append and the pull.
* `CacheProofs`. The invariant `Inv` says what the lock excludes (`LockInv`: a
  process between `Lock` and `Unlock` is the writer or among the readers, and a
  writer at work has no readers) and what a call relies on (`CallInv`: a writer
  that found room still has it, what a reader saw is still there).
  `CapacityKept` is not inductive alone, because a `Write` relies on the `Check`
  before it. From `Inv`: `TypeCorrect`, `CapacityIsKept`, `ReaderIsUndisturbed`.
  Three lemmas on cardinalities rest on the library's theorems on finite sets.
* `CacheRefinementProofs`. `CacheKeepsItsPromise` (`LinearizableTTLCache`) maps every
  step of `Cache` to a step of `TTLCache` or a stutter, action by action.
  A call takes effect where `ret` gets its answer: at `Write`, at the `Judge` or `Read`
  that decides it, at the check that refuses it, for a `GetExpiration` that found its
  item after the release, for the sweep when it is done; a key that the sweep deletes is a `Vanish`. `EffectInv` adds to
  `Inv` what the mapping needs: an answer is there exactly from the effect to the
  return, an `Add` that writes still finds its key free, the sweep's keys are still there.
  No hypothesis on the specification is needed.
* `ChartRepositoryProofs`. `Inv` says what a call has in hand at each place
  (`CallInv`): the digest it resolved is one its reference stood for during the call,
  the signatures it has yet to check are that image's, those it has accepted are good
  for the first verifier, and `turn` is 1 throughout, since cosign never answers
  "false". It holds however others change the pool, because a chain changes no
  verifier's key and adds certificates that chain to the root only (an assumption on
  the constants, which stands for `TrustedCert`'s own check). From it: `Verified`
  (`VerifiedWasSigned`), and, with the clause that a thread forgets the file only after
  its removal, so that what is there then was saved since, `ForgottenOnceDeleted`
  (`ForgottenWasDeleted`); `TypeCorrect` on its own. `FailureIsJustified`
  (`FailureHasAReason`) adds `ReasonInv`: as long as no request failed and the registry
  is as it was, the digest in hand is the target's, and every signature of it that the
  first verifier accepts whatever its pool (`Certain`) is yet to be checked, being checked
  or accepted. For a keyless verifier those are the certificates of the root itself: what
  other calls make of the pool can take an intermediate from it, and never the root.
* `ChartSyncerProofs`. The strengthening (`LoopInv`) says that every result of the
  listing is still to do, at hand or synced, and that what was synced is in the
  registry, where the pushes of other runs leave it. From it, with
  `PushesWhatItPulled` and the clause of `TypeOK` that an alias's index holds charts
  of the alias's URL: `EndMeansSynced` (`DoneMeansSynced`), `PushOwnFile`
  (`PushesWhatItPulled`) and `TypeCorrect`. `ImplementsMirror` maps every step of
  `ChartSyncer` to one of `ChartMirror` or to a stutter.
* `FluxCDPrinterProofs`. Lemmas about sequences of lines come first: what
  concatenation, an appended last line and the cut of the last continuation do to the
  options of a command and to its being one whole command. From them `ComposeIsAsked`:
  for every request, URL and list of changes `Compose` gives one whole command with the
  options asked for and no others. The invariant says that a call that is about to
  write holds such a buffer, made of a URL that the HelmRepository had during the call,
  and that what a call that succeeded has printed is one. From it: `PrinterTypes`,
  `CommandIsWhole` (`AllOrNothing`), `ValuesArePrinted` (`ValuesReachTheChart`),
  `SourceIsNamed` (`CommandNamesItsSource`). A write that breaks off prints a proper
  prefix, and no line of that ends a command.

The assumptions on constants are named `...Assumption` in the modules; TLC
evaluates them in the runs. They say what kind of value a constant is (`WorldAssumption`,
`InputAssumption` and `CacheAssumption` of the cluster, the requests, the Secrets and
the calls), that names refer to what there may be, and that `Nil` is none of the
values it stands beside. Proving corrected the models in three places: alternatives of
a `CASE` in `Check` and in `LoadedIsRequested` overlapped, where the code has an order
of tests; `highs` went on collecting after a load's listing; and the line
with a chart's name was written like a flag, which a value of that spelling could have
been taken for.

Only model-checked: all liveness, since properties under fairness and ENABLED are out
of the prover's reach, as is induction over data; and that the four findings with a run in
section 5 are violations. Every safety invariant and action property of the passing runs is
proved. `MachineLoginsKept` and, for loads on one host, `PullUsesOwnLogin` do not hold
with a native helper. No module here uses recursive operators.

## 5. Where code and comments disagree

With a run that shows it:

1. `OCIChartRepository` is not thread safe: `DownloadChart` shares the spare
   capacity of `Options` and the getter (`oci_chart_repository.go:225`).
2. The syncer pushes a chart to another place than its comments say and than it looks
   at before: `helm push` appends the chart's name to `oci://<registry>/<name>`
   (`chart-syncer/main.go:74`). Every later run pulls and pushes it again.
3. The repository's timeout, which the CRD promises for remote OCI operations, bounds
   no listing and no pull (`main.go:320`): a silent registry holds a load for ever.
4. Of the list of verifiers only the first is ever asked (`oci_chart_repository.go:336`):
   that no signature matches it is an error, and the first error ends the loop.

In the models, without a property of their own:

* `SetExpiration` sets nothing: it changes a copy of the item (`cache.go:170`), where its
  comment says that it sets the expiration (`cache.go:161`).
* `GetExpiration` can answer a negative duration (`cache.go:191`): minus the current time
  for an item that never expires, whose `Expiration` is 0, and a small negative one for
  an item that expires between its two readings of the clock. Its comment says zero for an
  item that has expired (`cache.go:175`). `TTLCache` promises neither, see section 2.
* Calls of a keyless verifier are not thread safe (`verifier.go:132`): the pool of
  intermediates is one for all of them, and a signature that one call looks at may make
  another refuse a certificate of an intermediate that fulcio lists.
* After a `Clear`, `HasCredentials` says no although the client may be logged in
  (`oci_chart_repository.go:265`); a `Login` or `Logout` then saves the file again, and
  no `Clear` removes that one.

Seen with other values of the constants than the runs have:

* With a native credential helper (`NativeHelper = TRUE`) and two loads on one host, a
  load can pull with the other's login, or without one after the other's `Logout`
  (`PullUsesOwnLogin`, `main.go:247`), and a load replaces and erases the user's own
  login in the helper (`MachineLoginsKept`, `client.go:40`): in the instance of
  `load_shared` with a helper both fail.

Built into the models from the code, and contradicted by nothing:

* A chart of a digest or with build metadata cannot be verified: its reference does
  not parse (`oci_chart_repository.go:329`).
* Whether a keyless verifier accepts a certificate of an intermediate that fulcio
  does not list depends on the signatures it has seen before.
* After a `Clear` by one user another's deferred removal of the file fails, and the
  other way round a `Clear` whose removal fails leaves `HasCredentials` true.
* The printer may name a URL that the chart did not come from, when the HelmRepository
  changes between its two reads; `CommandNamesItsSource` only says that the HelmRepository
  had it in the course of the call.
* An alias that exists makes the syncer ignore `--url`, and nothing refreshes its
  index. Versions with build metadata are pushed by every run. The first version that
  fails to be pulled or pushed keeps all later ones from being synced.
* Two syncers of charts of one name overwrite each other's file in `/tmp`.
* `ValuesFile` keeps the answer of an earlier call when the last one used `--set`.
* The empty version denotes the highest release, so a repository that holds
  prereleases only has no chart for it (`oci_chart_repository.go:282`).

## 6. Not modelled

`NewClient` has no state of its own. The cache's metrics are a counter of a library
that nothing in the repository increments. `private-oci` and `cache-check` call a
library once and print its answer. The manifests, those in `oci-ghcr` among them, and
the CRD are data. Cryptography, the order of search results, and the words of a
command line are left out where they appear.
The old, non-OCI repository format is an error in the code and in the model. The
contents of charts and TLS configurations, logging, and what helm does inside a
pull are left out. A panic is not modelled apart from `Crash`.

## 7. Plan

Done, in this order: `RegistryAuth`, `ChartVersions`, `LoadChart` and its proofs;
`ChartDownload` and its proofs; `TTLCache`, `Cache` and its proofs; `ChartRepository`
and its proofs; `ChartMirror`, `ChartSyncer` and its proofs; `FluxCDPrinter`.

The proofs cover every safety property of the passing runs and both refinements.

Next:

1. Proofs: what keeps a call from waiting forever as a safety property, that in every
   state in which somebody waits for the cache's lock somebody else can take a step that
   leads to its release.
2. `LoadChart` over `ChartDownload`: a load's pull as a sequence of the pool's steps.
