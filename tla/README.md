# TLA+ models of keyobject-aws-kms

keyobject-aws-kms is an OpenSSL provider, and the npm package around it, through
which AWS KMS signing keys become Node.js `KeyObject`s: `createPrivateKey` loads
an `aws-kms:` URL through an OpenSSL STORE loader, and every signature with the
key is one `kms:Sign` request. This directory holds TLA+ models of its stateful
and concurrent parts, the TLC configurations that check them on small instances,
and TLAPS proofs that hold for every instance.

    tlc -config KeyStore.cfg MCKeyStore.tla      # one of the runs below
    tlapm ClientCacheProofs.tla                  # the proofs about one part

`PROJECT.json` lists the components, the runs, the source lines each definition
models (`map`), a plausible slip in the code that each property catches
(`mutants`), the disagreements between code and comments that the runs exhibit
(`findings`), and what is hard to test, line by line (`hazards`). A definition
marked `(slip)` in a module is such a mistaken variant; `Next` uses none of them.

## Inventory of the system

| Component | State | Operations | Hard behaviour | Correct when |
|---|---|---|---|---|
| AWS client cache (`src/kms_aws.cc`) | map of clients, LRU list, mutex; shared ownership | `cached_client`, construction unlocked, `publish_client`, use, release | races to build, eviction under use, reuse of addresses, `bad_alloc` half way | list and map agree, bound holds, right client, no use after destruction, no leak |
| Request routing (`src/uri.c`, `src/kms_aws.cc`) | environment, shared config files, provider section, key URI | `awskms_uri_parse`, `client_for`, credentials chain | requests with different settings share the cache; environment changes | the precedence table of `docs/INSTALL.md`, FIPS refusals, ARN region |
| Signature operations (`src/signature.c`, `keyspec.c`, `spki.c`) | algorithm context, digest stream, reference to a key | init, set params, update, final, one-shot, verify, dup, free | any order of calls, failures half way, size probes, copies | what is sent is what was asked for; probes cost nothing; FIPS everywhere |
| STORE loader (`src/store.c`) | loader context, key under construction | open, set params, load, eof, close | a failed fetch tried again, alias repointed | one complete object, once |
| Key objects (`src/key.c`), key manager (`src/keymgmt.c`) | reference count, immutable data | new, up_ref, free, load, dup, has, match, validate, export | unlocked sharing, partial copies, keys of one alias that are not one key | exact references, nothing published changes, equal keys are one key at KMS |
| Private runtime files (`npm/core/index.js`) | a directory, a marker, files; `tempDirectory` of each isolate | `privateTempDirectory`, `writePrivateFile` | isolates share only the file system; failures, terminated Workers, a deadline | one directory, one whole file, nobody stuck |
| Registration (`src/napi.c`, `register()`) | `run_once`, libcrypto's default query, provider handle | `napi_register_module_v1` | Workers at once, failure after the process's policy was changed | guard before provider, policy kept, one outcome |
| Provider entry (`src/provider.c`), errors (`src/err.c`) | provider context | init, teardown, FIPS request | text of property queries | modelled where it is used |
| Platform package (`npm/core/index.js`) | digests of three files, cached by each isolate; the private copies they share | `modulePath`, `opensslConfigPath`, `isSupported`, `register` | npm replaces the files one by one while the process runs; isolates that resolved different versions | what is handed out is what the package has, by a manifest of the caller's version; what isolates share agrees |
| Real KMS keys (`scripts/real-kms-keys.mjs`, `aws-cli.mjs`) | manifest, keys, tags and aliases at AWS | setup, teardown, reap | concurrent workers, lost answers, partial failures, aliases that others move | a cleanup touches its own only, leaves nothing enabled it does not report, and success means clean |
| Release lifecycle (`scripts/release-lifecycle.mjs`, `release.yml`) | payload artifact, attestation, stages and packages on npm, GitHub Release | `findPriorReleaseArtifact`, `reuseAttestationBundle`, `waitForNpm`, `publishGithubRelease` | attempts that stop anywhere and are run again, approvals at any time, builds that differ | what is published is exact and never changes; attempts end; re-runs of what failed finish a release they can finish |
| Release assembly (`scripts/lib/npm-packaging.mjs`) | artifacts, working, temporary and output directories | `verifyReleaseArchives`, `assembleRelease` | files read again and again while they are replaced; several assemblies; failures and kills | one build per target, never a partial output, nobody's files removed |
| CLI (`npm/core/bin/awskms.js`) | | `check`, `exec` | | not modelled |
| KMS stub, build, CI, tests, vendored ada | | | | not modelled: see the end |

Calls go downwards: Node → libcrypto → loader / key manager / signature → key
object → backend (`awskms_kms_sign`, `awskms_kms_get_public_key`) → `client_for`
→ client cache → AWS SDK. The provider gets into the process by an OpenSSL
config, which names a private runtime file, or by registration.

## Modules

| Module | What it models | Built on |
|---|---|---|
| `KmsClientService` | abstract: a thread that asks for a key is served through a client of that key, or fails; at most `Capacity` clients are kept | |
| `ClientCache` | the cache; implements `KmsClientService` | |
| `ClientCacheLru` | the cache with a history of use, for the order of eviction | `ClientCache` |
| `KmsRouting` | URIs, precedence, FIPS refusals, `ClientKey`, as pure operators; the documented table as a second, independent definition | |
| `KmsBackend` | requests of several provider contexts and environments through one cache | `KmsRouting`, `ClientCache` (INSTANCE) |
| `SignatureOp` | algorithm contexts, digest streams, what is sent to KMS | |
| `KeyStore` | loaders, keys and holders | |
| `RuntimeFiles` | the rendezvous and the publication of a file | |
| `Registration` | `register()` of every isolate | |
| `PlatformPackage` | the exported functions over files that npm replaces | |
| `RealKmsKeys` | set-up and cleanup of the keys of the tests | |
| `ReleaseService` | abstract: packages are published once, and a release once, of what is on npm | |
| `ReleaseLifecycle` | the attempts of a release; implements `ReleaseService` | |
| `ReleaseAssembly` | `assembleRelease` beside others of its kind | |
| `*Proofs` | theorems about the component of the name, see "Proofs"; `ScriptProofs` is about `RealKmsKeys`, `ReleaseAssembly` and `ReleaseLifecycle`, whose definitions have different names for that reason | the component |
| `MC*` | the finite worlds of the runs | |

**`ClientCache`.** A critical section under `clients_mutex` is one action; the
construction of a client between two of them is another, and so is what
`publish_client` destroys after it unlocks. A `shared_ptr` is an owner in
`owners[c]`; a client is destroyed when its last owner goes, and its address may
then be used again. `PublishThrows`, an allocation that fails in `push_front` or
between it and `emplace`, belongs to `SpecOutOfMemory` only; `MCClientCache`
bounds the nodes it may leave in the list.

**`KmsRouting`, `KmsBackend`.** Strings are members of small sets; `Null` and
`Empty` differ as they do in the code. Resolving a request is one action, since
`getenv` may not race with `setenv`. Between two requests the host may change
the environment. `wanted` remembers what a request resolved to, so that
`WantedConfiguration` says that `ClientKey` leaves out nothing that the
construction of a client depends on. The ambient credentials chain is the
profile name alone; the rest of what the SDK reads from the environment when a
client is made (`kms_aws.cc:319-323`) is not modelled, nor is it in the key.

**`SignatureOp`.** One action per dispatch entry. `SetCtxParams` applies the
parameters in the code's own order and keeps what came before one that is
refused. `asked` and `exchange` are history: what the application last asked of
a context, and what the last call sent. An application that was refused
something and goes on regardless is outside `SignedAsAsked` (`settled`). Of the
digest two things are remembered, what was asked for last (`digest`) and what had
been asked for when the stream was last initialised (`opened`): `SignedAsAsked`
and `VerifiedAsAsked` say that the first is named and that the second has hashed.
They do not say that the two are one, which the code does not ensure (below). A
message is a sequence of chunks, a signature two units long.

**`KeyStore`.** `awskms_store_load` is two steps, the request to KMS lying
between them, where an alias may be repointed. libcrypto sets a loader's
parameters before it loads (`OSSL_STORE_expect` and `OSSL_STORE_open_ex`
enforce it), which the guard of `SetCtxParams` states. An EVP_PKEY has a selection of a
private key, a public key and domain parameters; `original` is history, the key
at KMS it goes back to through loads and copies, and `MatchIsSameKey` compares
`awskms_keymgmt_match` and what export lets out with it. A key's spec matters
for one thing, whether it is an EC key, with domain parameters to keep.

**`RuntimeFiles`.** A step is a system call, or several that nobody else can see
between, since a candidate directory and its `.publish` file belong to their
creator. Each may fail, the clean-up included, and an isolate may be terminated
between any two. The directory is validated before each use, the file when it is
found and at every later call (`CallAgain`). Other programs do not tamper with the
files: the checks of owner, mode, link count and device serve that case and are
read here as "the file is the one that was published". The user's directory, which
outlives the process, is made and validated in one step (`RendezvousRoot`): that
`chmodSync` follows `mkdirSync` (`index.js:269-277`) only matters under a umask
that takes the owner's own permissions away.

**`PlatformPackage`.** A call of an exported function is the sequence of its
steps (`Steps`), each of which may end it. A `register()` that returns at once,
having been called before, has no step. The bytes of a file are the version it is
of, or `Partial` while it is incomplete or gone; npm replaces the files of the
package, and core's own, one by one, and may be killed half way (`Install`,
`Replace`, `InstallEnds`). Every isolate has a
copy of `index.js` of its own, with its cache. The package may be inside an
archive, and then the module is copied to a private file too. What
`RuntimeFiles` does in many steps, writing a private file, is one step here; the
`dlopen` of `register()` is where `Registration`'s `Register` begins. The two are
modules of their own because their product is out of TLC's reach and they meet
in one value only, the path. `quiet` is history: no file has been replaced since
the call began. What replaces the module after its last check and before the
`dlopen` is not excluded by the code, and not claimed. `VerifiedBytes` holds of a
package of any state, one that a killed npm has left half installed included: its
manifest is of core's version and what is handed out is what lies beside it.
That is all the code promises there. `index.js:188` compares the version of the
manifest and of no other file, so that with the manifest of one version beside
the module of another, or an incomplete one, the path of that module is handed
out; the model has these states, and `VerifiedBytes` does not exclude them. Of a
package that is whole it follows that the module is of core's version.

**`Registration`.** A property query is the sequence of its clauses. Every call
of libcrypto may fail; `CRYPTO_THREAD_run_once` lets one isolate run
`awskms_register` while the others wait. That it fails itself, for want of memory
or of a lock, is not modelled: that isolate is then refused with an error of its
own (`napi.c:328-331`), whatever the others are told, and `OneOutcome` does not
speak of it. The application changes its FIPS policy
before or after the registration only, as `README.md:115-118` demands.

**`RealKmsKeys`.** A call of KMS is one action, except that `verifyOwnedTarget`
describes a key and lists its tags in one. It may fail, and one that changes
something may have done so although the answer says otherwise; `withRetry` then
repeats it or gives up. The four tags of a key are one value: the label they were
made for, or `OwnerOnly`, or none. The workers of `mapLimit` are the number of
labels, or of targets, between their first and their last call; the two `await`s
of `teardown` are the barriers `StartAliases` and `StartKeys`. `Others` move
aliases, change tags and lose the manifest, and the pending window of a key may
end; all of that, and every failure, is counted by `trouble`. `moved` and
`untagged` are history: what others have changed since the cleanup last looked,
which no client of KMS can exclude.

**`ReleaseLifecycle`.** An attempt of the workflow is a sequence of jobs,
`passed` of which have succeeded; `Run` begins an attempt at any job whose
predecessors have, which is what GitHub's "re-run" does, and `Fail` ends one at
any step. A command that changes something may have done so before it fails
(`Stage`, `Create`, `Put`, `Publish`); an upload may leave an asset damaged or
half there. A file is the build it was made of, so that equal bytes are equal
values and two attestations never are. The requests of one poll are answered in
any order. Maintainers approve and reject stages at any time; the payload
artifact expires; a draft may be discarded at any time, damaged, or added to by
hand until it has been verified. Assumed of others: npm never changes a published
version, nobody edits the draft between the last verification and the publication
that follows it, and nobody but `publishGithubRelease` publishes it
(`release-lifecycle.mjs:501-505` would then verify a release that is public).
`calm` marks the moment, for `RerunsRecover`, from which no call fails, a poll
finds what is published, nothing expires, and maintainers only approve what is
pending and re-run what has not succeeded. It says nothing of two things that are
not this code's to decide: what compiling again gives (`Build`), and whether the
staging action, which is in another repository, accepts a version that is
published (`Stage`; it fails while a stage is pending, `release.yml:202`).
`RerunsRecover` holds without either, and so only from a state that needs neither
(`Recoverable`): the payload is kept, and so are the archives it was made of
unless the job that assembles has succeeded; npm has of each package what the
payload has if the stage job of that package has succeeded, pending or published,
and nothing if it has not; and nobody has added to the draft. What it leaves out
is listed below. The `preflight` job, which changes nothing, and the `integrate`
job, an action of another repository, are left out.

**`ReleaseAssembly`.** A step is one read of a file, by `readFileSync` or a `tar`
of its own, or one system call on the output directory; packing happens in a
directory nobody else knows. An archive is a build number and a kind: sound,
lacking a file, with files of an old tree, or with a module that is the stub's or
another target's; each check of `verifyReleaseArchives` sees its own part of the
archive that is there at that moment. Between any two steps an archive may be
replaced, an assembly may fail or be killed and started again, and somebody may
use the output directory. Nobody edits the tree during an assembly, and a build
is never replaced by itself, byte for byte. The `finally` block is two steps,
`RemoveWork` and `RemoveTemp`, each of which may throw: an assembler then ends
as `failed`, after the rename too, where the whole release is there and a
failure is reported. If the first removal throws, the second is left out, and the
directory beside the output stays (`npm-packaging.mjs:955-956`). `EndsCleanly`
therefore says of an assembler that was not killed and whose removals have not
failed that it leaves no directory beside the output; of one that returns, that
it leaves no working directory either; and of any, however it ends, that beside a
release it has made there is nothing. A failure of the second `mkdtempSync`
leaves the working directory, since both calls come before the `try`; the
property says nothing of the working directory then.

## Runs

Every run takes between a second and two minutes with two workers.

| Run | Instance | Question |
|---|---|---|
| `client_cache` | 2 threads, 3 keys, 4 addresses, room for 2, fair | are the most recently served keys the ones kept, do the bound and the ownership survive every interleaving, and does the cache implement the abstract service? |
| `kms_backend` | 2 threads, room for 1 client | does each request get its own settings, and do they follow the table? |
| `signature_orders` | one context of an RSA, Ed25519 or ML-DSA key, every order of parameters and data | is what is sent what was asked for? |
| `signature_streams` | 2 contexts of an RSA and a FIPS EC key | are references exact, do probes cost nothing? |
| `key_store` | 2 loaders, 3 keys, 3 holders, an alias that stands for an EC or an RSA key | are keys complete, counted and immutable, and equal when they are the same? |
| `runtime_files` | 3 isolates, 2 failures, 1 termination, fair | one directory, one file, and does everybody end? |
| `platform_package` | 2 isolates, 2 versions, 1 installation | is what is handed out what was verified? |
| `registration` | 3 isolates, any query of 2 clauses | is the policy kept, is there one outcome? |
| `real_kms_keys` | 2 labels, 4 keys, 2 workers, 2 troubles, 2 cleanups | does a cleanup touch its own only, and does success mean clean? |
| `real_kms_fallback` | the same, 1 cleanup | *violation*: the fallback sweep passes over a key |
| `release_lifecycle` | 1 target and core, 2 builds, 2 attestations, 2 polls, fair | is what is published exact for good, do attempts end, do re-runs of what failed recover? |
| `release_assembly` | 2 assemblers, 2 targets, 2 replaced archives | is an output whole, and nobody else's touched, and what is left beside it? |

Why the bounds are enough to be interesting: with three keys and room for two
clients a thread can evict the client another is calling through, or lose the
race to publish one; two clients in use, one candidate and a fourth address let
an address be used again. A third thread would only repeat these roles, and the
theorems hold for any number. With one cached client every pair of requests competes
for it. Two chunks and a limit of one give an empty message, one at the limit
and one past it. Two requests per loader let a failed load be tried
again. Three isolates are a winner, a loser and a late reader; two failures let
a clean-up fail after the failure it cleans up. Two clauses in a query are a
guard, a contradiction, a repeated guard, or a policy beside each. Of the four
keys of `real_kms_keys` two are set up, one is what a lost answer leaves, and one
is left from before; two troubles are a failure and an interference, or two
failures of which the second hits the cleanup of the first, which a second
cleanup meets. One target and core are two packages, of which one may be
published and the other pending; two builds are a first attempt's and a
re-run's. Two targets are a loop that is half done, two replaced archives one
before and one after a check, and two assemblers the race for the output.

**Bounds by name.** `MaxClients` is the code's `kMaxClients`. `MaxRequests`,
`MaxChunks`, `Failures`, `Deaths`, `MaxTrouble`, `MaxCleanups`, `MaxInstalls`,
`MaxAttests` and `MaxBuilds` cap what is unbounded in the program; `MaxPolls` is
how many polls fit before the deadline; `MaxMessage` stands for KMS's 4096 bytes,
`MaxContext` for the 255 bytes of a context string.

**Deadlock** is checked, except in `registration`, where the system stops when
every isolate is registered, in the two `real_kms` runs, which stop when the
set-up, the troubles and the cleanups are over, in `platform_package`, where npm
may leave a package nobody can use, and in `release_assembly`, which stops when
the releases are made.

**Types.** Every stateful module states its types in a `TypeOK`
(`AssemblyTypeOK`, `KeysTypeOK` in two of the scripts; `KmsBackend`'s, with
those of the cache, is part of the invariant in its proofs). The runs leave it
out: it holds under each of the configurations with one more line, `INVARIANT
TypeOK`, and the proofs show it for all.

**Symmetry** is used in runs without liveness only, over threads, addresses,
contexts, isolates and keys that `Init` and the constants do not tell apart.

**Fairness.** In `ClientCache` every thread inside `client_for` keeps running:
a critical section blocks on nothing, and the SDK call has time limits of its
own; a thread need not ask for anything. The liveness of `KmsClientService`,
that a request is served or refused, follows from that. In `RuntimeFiles` an isolate that runs
takes its next step, and one that waits is not kept beyond its deadline
(`TimeOut`), which is what `EverybodyEnds` rests on when the creator of the file
was terminated. In `ReleaseLifecycle` an attempt that runs takes its next step
(`Work`): every command and request has a time limit, and the job has one. That
maintainers re-run what failed and approve what is staged is assumed for
`RerunsRecover` only, and only once `calm`; `EveryAttemptEnds` needs neither.

## Where code and comments disagree

`EveryOwnedKeySwept` (run `real_kms_fallback`): when the tagging API is not
available, a key whose tags cannot be listed is passed over, and the sweep
succeeds while the key stays enabled. With the tagging API
`SuccessLeavesNothing` holds for every owned key.

Three configurations that are not among the runs show disagreements that Node's
own APIs do not reach as they are; TLC refutes the property of each in seconds:

* `tlc -config ClientCacheOutOfMemory.cfg MCClientCache.tla`: an allocation that
  fails between `push_front` and `emplace` leaves a list node without an entry;
  when that node is popped nothing is evicted, and the map stays above
  `kMaxClients` (`CacheBounded`; `kms_aws.cc:160` calls the cache bounded). What
  outlives any number of such failures is proved (`SurvivesExhaustion`) and holds
  under `tlc -config ClientCacheMemory.cfg MCClientCache.tla`, with up to
  `MaxNodes` = 4 nodes when an allocation fails: stale nodes then reach the back
  of a full cache, one that hides the oldest entry, and one whose key has been
  published again, which takes that entry from under its own node.
* `tlc -config SignatureDigestSwapped.cfg MCSignatureOp.tla`: setting the digest
  of an open stream to another of the same length signs the hash of the one under
  the name of the other (`HashedAsDeclared`; `signature.c:52` keeps the two as one
  selection).
* `tlc -config SignatureSilent.cfg MCSignatureOp.tla`: a malformed parameter is
  refused without an error (`EveryRefusalRaised`; `err.h:65-70` wants one always).

More that the models show, and no run states:

* A set-up that fails writes no manifest, so that `teardown` as
  `docs/real-kms-setup.md` suggests it after an interruption stops with an error,
  and only `reap` finds the keys.
* A stage that is rejected after its job has succeeded is not staged again by
  re-running the failed jobs, although `release-lifecycle.mjs:400` and
  `release.yml:202` suggest to "approve or reject" and to re-run them.
* A version that is approved after its stage job has failed, the action having
  staged it nevertheless, is published when that job is run again. Re-running
  recovers only if the action succeeds then, which the advice of `release.yml:202`
  takes for granted and nothing in this repository ensures.
* When the ci job has to run again, recovery needs the same bytes: otherwise
  `reuseAttestationBundle` refuses them while the earlier payload is kept, and
  `waitForNpm` once npm has the earlier packages. Nothing in `release.yml` makes
  that job reproducible.
* `RerunsRecover` leaves the last three cases out.
* A failure to remove the working directory leaves the directory beside the
  output too, and after the rename is reported as a failure of a release that is
  complete (`npm-packaging.mjs:954-957`).
* A package whose manifest is of core's version and whose module is not, which a
  killed npm can leave, is handed out (`index.js:188`; see `PlatformPackage`).

## Proofs

Every theorem is proved for all values of the constants that satisfy the named
assumptions of its module, so for any number of threads, isolates, keys,
versions, targets, requests and failures. In each module the proof goes the same
way. The properties of the runs are seldom inductive, so there is an invariant
that is; TLC checked it on the instance of the run, `Init` establishes it, one
lemma per action shows that the action keeps it, and the properties follow from
it.

| Module | Theorems | For any |
|---|---|---|
| `ClientCacheProofs` | `CacheInvariant`, `TypeCorrect`, `CacheConsistent` (list and map agree, the bound holds), `AlwaysRightClient`, `OwnershipSound` (no use after destruction, no leak), `AlwaysOneSharedClient`, `AlwaysDestroyedUnlocked`, `CacheImplementsService`, `LruInvariant`, `AlwaysLeastRecentlyUsed`, `MemoryInvariant`, `SurvivesExhaustion` (with failed allocations: no dangling iterator, leak or wrong client) | threads, keys, addresses; `MaxClients >= 1` (`MaxClientsAssumption`); `NoKey`, `NoClient` outside their sets |
| `KmsBackendProofs` | `BackendUsesCache`, `BackendInvariant`, `AlwaysWantedConfiguration`, `AlwaysRoutedWhereAllowed`, `AlwaysPrecedenceTable` | URIs, provider sections, environments, threads (`BackendAssumption`, `RoutingAssumption`) |
| `SignatureOpProofs` | `SignatureInvariant`, `SignatureTypeCorrect`, `AlwaysSignatureRefsExact`, `AlwaysSignedAsAsked`, `AlwaysAcceptedByKms`, `AlwaysFipsThroughout`, `AlwaysBilledSignatureDelivered`, `AlwaysVerifiedAsAsked`, `AlwaysOnlySigningConsumes` | keys, digests, parameters, limits, finitely many contexts |
| `KeyStoreProofs` | `StoreInvariant`, `StoreTypeCorrect`, `AlwaysRefsExact`, `AlwaysPublishedComplete`, `AlwaysMatchIsSameKey`, `AlwaysPublishedImmutable` | keys, loaders, `MaxRequests`, finitely many holders (`SpecAssumption`, `HoldersAssumption`) |
| `RuntimeFilesProofs` | `FilesInvariant`, `FilesTypeCorrect`, `AlwaysOneDirectory`, `AlwaysOneWholeFile`, `AlwaysRefusedForAReason` | isolates, failures, terminations (`BoundsAssumption`) |
| `RegistrationProofs` | `RegistrationInvariant`, `RegistrationTypeCorrect`, `AlwaysGuarded`, `AlwaysPolicyPreserved`, `AlwaysOneOutcome` | isolates, policies of any length (`PoliciesAssumption`) |
| `ScriptProofs` | `KeysInvariant`, `KeysTypeCorrect`, `CleanupTouchesOnlyItsOwn`, `NothingLeftUnlessFailed`, `SuccessIsClean` | keys, workers, troubles and cleanups, finitely many labels (`NamesAssumption`, `StrayAssumption`, `LimitAssumption`, `BoundsAssumption`) |
| | `AssemblyInvariant`, `AssemblyTypeCorrect`, `AlwaysOutputWhole`, `AlwaysEndsCleanly`, `AlwaysNeverClobbers` | assemblers, targets in any order, archives built meanwhile (`AssemblyAssumption`) |
| | `LifecycleInvariant`, `LifecycleTypeCorrect`, `AlwaysReleasedExactly`, `AlwaysImplementsService` | targets, builds, attestations, polls (`LifecycleAssumption`) |
| `PlatformPackageProofs` | `PackageInvariant`, `PackageTypeCorrect`, `AlwaysVerifiedBytes`, `AlwaysSharedFilesAgree` | isolates, versions, installations (`VersionsAssumption`) |

The inductive invariants, and why the properties need them:

* **`CacheInv`.** That an eviction finds the oldest key needs the agreement of
  list and map; that the loser's client may be destroyed needs that an
  unpublished candidate has one owner; both need to know which local of
  `client_for` is set where. The list is reasoned about in `TouchedIs`,
  `TouchedPermutes` (`splice` keeps the keys), `PushAdds` and `PopRemoves`.
* **`MemoryInv`.** When allocations fail, list and map no longer agree, so
  `CacheInv` is split: `ClientsSound`, about owners and the locals of
  `client_for`, is kept by every step that leaves the list a list (`SoundStep`),
  and in place of the agreement comes `FirstNodes`: the first node of a cached
  key is the entry's, since `splice` and `push_front` put it before all stale
  ones (`TouchedKeepsFirst`, `PushKeepsFirst`), and `pop_back` takes it only
  together with the entry (`PopKeepsFirst`).
* **`LruInv`.** What was ever served has no key twice, and the list is its
  beginning, as long as the bound allows. A served key moves to the front of
  both: from the same place when it is cached (`TouchKeepsRecent`), and from
  behind all that are cached when it is not (`InsertKeepsRecent`).
* **`CacheImplementsService`** maps the steps of the cache to those of
  `KmsClientService`: a lookup that hits, a lost race and a publication are
  `Serve`; construction and destruction are not seen.
* **`BackendInv`.** A thread's key and its wanted configuration were resolved in
  one environment (`Resolved`), and a client is configured as the key it was
  built for says (`BuiltAsKeyed`). That a `ClientKey` determines the client
  (`ClientKeyComplete`) is a lemma about the operators. That the client is the
  one of the key is `AlwaysRightClient`, which holds of the backend because its
  steps are the cache's (`BackendUsesCache`).
  `AlwaysPrecedenceTable` has a hypothesis, that no URI and no provider section
  gives the empty profile. A URI that says `?profile=` does: `client_for` takes
  it as given (`kms_aws.cc:253`), so that it hides the profile of the environment,
  on which the table of `docs/INSTALL.md:298-305` is silent.
* **`SignatureInv` and `ExchangeInv`.** The first relates each context to what the
  application asked of it, its key's references and the digest that is open;
  the second says of the last exchange what the properties do, and is kept since
  every action either exchanges nothing or answers from a context of which
  `SignatureInv` holds.
* **`StoreInv`.** References are counted (`Counted`), the FIPS flag of a load is
  that of its loader (`UnderFips`), a key that is being built has one user
  (`Building`), and what is published is complete (`Complete`). The counting
  rests on the library's theorems about finite sets.
* **`FilesInv`.** Which of the directories, and which file, an isolate has at each
  step (`DirectoriesMatchPc`, `FileMatchesPc`), that no other has it
  (`OwnFileOnly`), and that every directory left behind is paid for by a failure
  (`DebtCovered`).
* **`RegistrationInv`.** What the routine has done by where it is
  (`RoutineMatchesPc`), what the once flag and the isolates then know
  (`OnceMatches`, `IsolatesTold`), and that guarding and putting back keep the
  clauses of the application (`Preserves`).
* **`LifecycleInv`.** What is stored is whole (`StoredWhole`), a job is at one of
  its own steps (`StepOfJob`) with the payload it fetched (`PayloadAtHand`), npm has
  what the payload has once the job that waits has succeeded (`NpmFollowed`), and a
  release is a draft until all of it was verified (`DraftUntilVerified`).
  `AlwaysImplementsService` is the whole refinement: `ReleaseService` states no
  fairness.
* **`AssemblyInv`.** An archive is read up to five times and may be replaced
  between any two reads, so that no check says anything of what another read saw.
  What does hold: the archive that was read first never comes back, builds being
  new, so if the archive is still that one, every check in between was of it
  (`ReadOf`, `Checked`, `ArchiveVerified`). The comparison at the copy finds out
  whether it is, and what was packed before is then of the same build
  (`SourcesVerified`, `TempMatches`, `OneSoundBuild`). That the output is the
  assembler's own, and nothing lies beside it, is `LeftClean`.
* **`KeysInv`.** Whoever reads a manifest reads what setup knows (`SetupInv`), and
  a target of it is a key that setup made, under one label (`Targeted`). By where
  a target is, the tags and the alias are as they were last seen, or others have
  changed them since, or the failure was counted (`StageMatches`, in terms of
  `LookedAt`, `AliasLookedAt` and `AliasSettled`); that one target's look says
  nothing of another's rests on `LabelsDiffer`. That a key which goes takes its
  aliases with it, and that no set-up is at work on a label once the manifest is
  written, is what keeps an alias from coming back.
* **`PackageInv`.** How far the program of a call has come decides what the
  isolate has read (`Snapshot`); if nothing was replaced meanwhile, the files are
  still that (`Undisturbed`); and the private files agree with what any isolate
  has verified (`Shared`).

Only model-checked is liveness, which rests on fairness and `ENABLED`, out of the
prover's reach: `EverybodyEnds`, `EveryAttemptEnds`, `RerunsRecover`, and that
part of the cache's `ImplementsService` which says that a request does not wait
for ever.

No module declares a RECURSIVE operator, and no proof rests on an induction over
data: lists are described by their elements, and counts by the library's
theorems on cardinality.

## Plan

Done, in this order: the cache and its proof, routing and their composition,
signatures, key objects and the key manager, runtime files, registration, the
real keys, the platform package, the release and its assembly; then the proofs
about all of them. What is left are the parts below that are
not modelled.

## Not modelled

* Spelling: URL parsing and percent-decoding, DER and SPKI encodings, property
  queries as text, shell quoting. They are Booleans or members of small sets.
* The AWS SDK beyond what `client_for` asks of it; libcrypto beyond the calls it
  makes and the order it enforces.
* `get_params`, which asks the default provider about the key in memory, and the
  gettable parameters of a signature context.
* The options of `real-kms-keys.mjs`, `--dry-run`, `status`, which changes
  nothing, and the spelling of a manifest: one that does not validate is
  `CorruptFile`. `tag:GetResources` is taken to return every owned key.
* The KMS stub backend (tests only; every access holds its lock throughout),
  `provider.c`'s dispatch tables, the table of error reasons.
* The CLI: it decides over its options and starts another process; no state of
  its own outlives that.
* The manifests, legal files, module headers and policies that
  `npm-packaging.mjs` validates are kinds of archives, or failures, not contents;
  `packBuildPackages`, which packs one local build for the tests to install, is left out.
* The remaining scripts are sequential tools with one actor each:
  `real-kms-bootstrap.mjs` puts IAM roles and policies in place and may be run
  again (AWS evaluates them), `release-version.mjs` and
  `update-aws-sdk-components.mjs` rewrite files of a checkout, and
  `real-kms-audit.mjs` and `check.mjs` only read.
* A composition of `KeyStore`, `SignatureOp` and `KmsBackend`: they meet in
  values (a key, a request, its FIPS flag), never in shared state, and each
  assumes of the others what their own runs show.
* Build files, CI beyond `release.yml`, vendored ada.
