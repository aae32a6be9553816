# A verification of cookbook in TLA+

cookbook is a package registry: an HTTP server in C that stores uploaded
artifacts in an object store, registers them in a relational database, issues
and checks tokens, caches compiled objects and exchanges artifacts with peer
registries. This directory models the parts of it that keep state and that
several threads touch, checks them with TLC on small instances and proves the
most important results with TLAPS for instances of every size.

Paths of source files are relative to `src/src/main/c/` (headers: `src/src/main/h/`),
`docs/...` to `src/`.

## 1. The system

| Component | State it keeps | Operations | Interacts with | What is hard | What makes it correct |
|---|---|---|---|---|---|
| Artifact upload and publication (`cookbook_server.c`, `handle_artifact`, `try_publish`) | files in the store; tables `groups`, `artifacts`, `artifact_semver` | PUT, yank, GET | store, database, reconciliation, group administration | a PUT is some ten store calls and SQL statements without lock or transaction; most statuses are ignored | a key is accepted once; rows refer to rows that exist; a published row has its descriptor and stays |
| Reconciliation (`reconcile_stale_pending`) | the list of one pass | every 60 s | the same tables | works from a list collected earlier, at most 100 rows a pass | drops only pending rows; every pending row settles |
| Group administration (`handle_admin_groups`) | table `groups` | create, patch, delete | artifact rows refer to groups | a count and a DELETE in two statements | no artifact loses its group |
| Object cache (`handle_objects`, `evict_expired_objects`) | files; table `object_cache` | PUT, GET, eviction every 60 s | store, database | an upload between the evictor's steps | only expired objects go, and all of them |
| Build graph cache (`handle_graphs`) | files | PUT, GET | store | a file is rewritten in place while it is read | what is read is whole |
| Token revocation (`cookbook_auth.c`, `handle_auth_revoke`) | an array of 4096 entries in memory; table `revocations` | add, check, prune, reload at start | every authenticated request | an array without a lock; expiry; restart | a revoked token is rejected until it expires |
| Rate limiting (`check_rate_limit`) | a bucket per subject | check | every authenticated request | the time is read before the mutex is taken | no subject passes more than a known multiple of its limit; none is refused below it |
| Connection pool (`cookbook_connpool.c`) | idle connections | get, put, prune, destroy | grid requests, server stop | use from many threads; full pool; shutdown | each descriptor has one owner; limits hold; nothing stale is handed out |
| Device code flow (`handle_auth_device*`) | an array of 64 entries | issue, verify, redeem | credentials, token issue, an OIDC provider | swap-removal and compaction; expiry; a provider that comes and goes; no lock | a token goes once, to the device whose user verified |
| Authentication and grants (`cookbook_auth.c`, `cookbook_policy.c`) | - | JWT verification, grant matching, policy resolution | every request | wildcards, deny before allow | a grant covers what it says |
| Token issuing, credentials, policies, publisher keys | tables | CRUD, `/auth/token`, `/keys` | authentication, LDAP, OIDC | a request is several statements and calls, the tables change between them | a token has what was in force for its subject; a revoked key stays revoked |
| Grid federation (`cookbook_grid.c`, `/grid/*`) and downloads, `/resolve`, `/mirror/manifest` | table `peers` | look up here, then ask the peers in turn | connection pool, store, grants | peers down or waiting for each other, loops, clock skew, grants sent along | no holder is passed over; answers are true; a peer is authenticated; a request ends |
| Semantic versions (`cookbook_semver.c`) | - | compare, match ranges | `/resolve` | prereleases, boundaries | agrees with SemVer precedence |
| Database drivers, key-value backend, S3 store | the durable state | one statement or call at a time | all handlers | the key-value backend knows only part of SQL | statements do what the handlers expect |
| LDAP, OIDC, HTTP, sockets, TLS, import tool, hashing, signatures, formats, audit, metrics | none that a handler reads back | - | - | protocol encoding | - |

The server runs each request on a thread of the HTTP library's pool. One
background thread wakes every 60 seconds and runs reconciliation and then
eviction. Requests share the database handle, the store and the arrays in the
server structure. Only the rate limiter, the audit log and the connection pool
have a mutex. `PROJECT.json` lists every component with its status, and under
`hazards` the places where these facts can hurt.

## 2. Plan

The modelling, in the order it was done, the most important behaviour first:

1. `Catalog` and `Publish`: upload, publication, yank, reconciliation, groups,
   faults and crashes; `PublishProofs`: invariants and refinement.
2. `ObjectCache`: objects and graphs, upload, reading and eviction.
3. `Revocation`: the shared array at the granularity of single accesses.
4. `ConnPool`: the pool and the grid requests that use it.
5. `RateLimit`.
6. `DeviceCode`: the flow with one request at a time, with a provider or without.
7. `SemVer`, `Grants`, `KvTable` and `Algorithms`: the pure algorithms against
   reference definitions, the key-value backend against a table.
8. `Tokens`: token issue against the administration of credentials and policies.
9. `Grid`: downloads, resolution and manifests with the search among peers.

The proofs, likewise:

1. `PublishProofs`: references, provenance and the refinement of `Catalog`, then
   the properties of what was accepted.
2. `TableProofs`: the components that answer from a table of their own: versions
   and ranges, the object cache, the rate limiter, the key-value backend.
3. `CompactionProofs`, then `ConnPoolProofs` and `DeviceCodeProofs`, whose arrays
   are compacted by the same loop.
4. `RevocationProofs`: the list as long as nobody adds to it beside another thread,
   the table and restarts whatever the threads do.
5. `TokensProofs` (grants, then tokens and keys) and `GridProofs`.

Every invariant and every action property that a passing run checks is also a
theorem. Liveness is left to TLC.

`Publish` has `Catalog` as its abstract specification. `Tokens`, `Grid` and
`Algorithms` share `Grants`: one definition of what a token permits is used
where a token is issued, where it is checked, and at the peer that gets its
claims in headers. `ConnPool` is the inside of what `Grid` treats as one call
to a peer.

## 3. Modules and code

**Catalog** is what the registry promises of one artifact row: registered once
by a descriptor that names the coordinate, then promoted or dropped while
pending, and once published final except for the yank flag.

**Publish** is the same seen from the code. A worker's `pc` is its place in
`handle_artifact`. Every store call and SQL statement is one atomic step,
except that `fs_put` is two: opening truncates the file, writing fills it. So a
concurrent existence check sees a half-written file, and two writers may leave
a mixture (`Torn`). A file deleted while open is written to no name
(`unlinked`). The foreign keys of the schema, which `cookbook_db_sqlite.c`
switches on, refuse statements as they do there, and the handlers ignore it as
they do. `artifact_semver` has no key, so its rows are counted. `Age` is the
passing of the pending timeout; it stands for the clock. `IgnoredFault`,
`PutFails` and `ReconFault` are failing calls, `Crash` a process that dies and
starts again with its files and tables. A body is a model value that stands for
its bytes and its hash; `Names` says what it is when read as a `now.pasta`: it
names a coordinate, does not parse, fails validation, or lacks the fields, in
which case the code stores it and registers nothing. Descriptor and one other
file per coordinate are enough, because the handler distinguishes only those;
uploads whose name ends in `.sha256` or `.countersig` and so collide with the
files the server derives are not modelled. A request that fails its checks
without touching state (authentication, size, method) is no step, except for
the 409 and the rejected body, which take a worker through the same states.
Two history variables say what the properties except: `crossed` has the keys of
which two uploads were under way at one time, `aged` the coordinates whose row
outlived the pending timeout.

**ObjectCache** has the three calls of an upload (opening the file, which empties
it, writing, and the INSERT) and the four of an eviction pass: counting,
selecting, and per entry deleting the file and then the row. `partial` holds the
files that are open for writing or were left so; `FetchObject` and `FetchGraph`
say what a reader gets. A file deleted while it is open is written to no name.
Graphs share the store and are neither tracked nor evicted.

**Revocation** has no lock because the code has none: each access to an entry
or to `count` is a step, so that compaction, the search and `entries[count++]`
of several threads interleave. The array has some slots past its capacity so
that an overrun is a state, not an error of the model.

**ConnPool** has one step for each critical section of the mutex, and separate
ones for connecting, the exchange with the peer, and closing what found no room.
The test of the global pointer and the use of the pool are two steps.

**Compaction** is the loop with which the pool and the device codes drop entries:
those to keep are copied to the front in order. `Compact(seq, K)` says it by
positions: the n-th result is the n-th of the positions to keep. `SelectSeq`
says the same with a recursion that the provers cannot follow.

**RateLimit** has the two steps of `check_rate_limit`: the time is read, then
the mutex is taken. `Delay` bounds the time between them. `passed` lists the
seconds at which a subject's requests were let through.

**DeviceCode** has one step per request, and the array with stale contents past
`count`. The branch for a denied entry is left out because no code sets it.
With `Provider`, both requests of a device go to the OIDC provider first
(`ProxyIssue`, `ProxyRedeem`); since it may answer one and not the next, the
local actions stay enabled beside them. `Grant` is the user at the provider.

**SemVer** has versions as three numbers and a list of pre-release identifiers,
each a number or a word, and ranges by their form. `ToInt` is the conversion to
an int of `IntBits` bits, which wraps. Words are ordered as numbers. The loop of
`compare_pre` is `CompareLists`: the first position where both lists have
different identifiers decides, and after that their length.

**Grants** has groups as sequences of segments. `BestMatch` is the
end of `Walk`, which goes through the grants in the order of the JSON text and
keeps the best so far as `grant_match_cb` does. `GrantHeaders` and
`CheckGridAuth` are the two ends of the way to a peer. Both lists go into one
buffer of 2048 bytes, of which `HeaderRoom` entries stand for the length. Text
that does not fit is cut (`Spilt`): the last line is not ended, so the header
written behind it, the origin of the request, becomes part of it. The last
grant is lost or gets the letters of that text for its operations, an exclusion
is lost or stays, exclusions behind cut grants are all lost, and without an
origin the peer takes the request for unsigned (`whole`).

**KvTable** runs each statement twice: on `store` as `cookbook_db_kv.c` does, by
looking for patterns in the text, and on `table` as SQL would. Columns are
names, of which one may end with another, and a text may contain a column's
name with its `=` (`Inside`), because the code looks for a column with `strstr`;
what is then left of the text is `Spliced`. An INSERT gives some of its values
as literals (`lit`): the backend pairs the parameters with the columns from the
left all the same. NULL becomes the empty text. `Update` has two assignments,
each a parameter or a literal, and like `Delete` a condition beside the key that
the backend does not look at; an UPDATE with fewer than two parameters is an
error there. `lost` has the columns of a row in which these differences may
show, until a statement sets them right again, and `strayed` the rows that a
DELETE removed against its condition.

**Algorithms** puts these three together: a behaviour takes one question, or
runs statements.

**Tokens** has one step for each SQL statement and each call to LDAP or a provider
of `POST /auth/token`; administrators change the tables between them. `lives` and
`texts` record, for each request, the credentials and policies in force at some
time during it. Any read may fail: a failing query for a credential is no row, a
failing `cookbook_policy_get` no policy, and the handler goes on (`trouble`
records it). `found` has the policies in the order they were read, the subject's
own first: the recipe of the merge takes keys from the first `TeamMax + 1` of them
and at most `KeyMax` of each kind. `Resolved` gives the claims made of them in
every order the merge may list them, or `None`, since the merge may fail on what
it cannot resolve or for lack of memory; the token is then of version 1, with the
groups that the method gave. `Readable` is the part of the claims that fits the
verifier's buffer: entries stand for bytes. `POST /keys` stands for everything a
token permits.

**Grid** has several registries. A client's request is one step while it needs
only its own registry, then one step for loading the peers, and for each peer
one to send and one to receive or to give up. `Busy` counts the handlers that
hold a worker while they wait. The peer's handler is one step, because it asks
nobody else: what it reads from tables and store does not change under it in a
way it could notice. A signature is the signed text with the signer's key. Peers in
`Https` are asked over TLS, where the client library is given at most 511 bytes
of each header (`Shortened`), while the signature is over the whole; over plain
TCP an answer may be cut after 4 MB or by a timeout (`AnswerCut`): a list that
has lost its end is not read, a file is relayed as it is.
`tried`, `had` and the fields of its entries record what the properties speak
about.

`MCPublish`, `MCRevocation`, `MCConnPool`, `MCDeviceCode`, `MCAlgorithms`,
`MCTokens` and `MCGrid` give the constants their values. Definitions whose comment
says *Mutant* are changed copies of the definition after them, showing that the
properties can fail; no specification uses them.

## 4. Runs

Passing:

| Run | Instance | What it shows |
|---|---|---|
| `PublishRaces` | 2 workers, 2 coordinates in 1 group, 4 bodies (one not a descriptor, one without the fields), 2 uploads, 1 fault, 1 crash, ageing, group administration | in every interleaving tables stay consistent (`NoDanglingReferences`), rows record the hash of a descriptor that names them (`RowProvenance`), rows live as `Catalog` says (`CatalogSpec`), and a key of which no two uploads were under way at one time is accepted with one body (`AcceptedOnce`) and stays intact (`AckedIsIntact`) |
| `PublishSettles` | 2 workers, 2 coordinates, 2 uploads of well-formed descriptors under any URL, ageing, passes of 1 row, 1 fault, 1 crash; fair | a published row has a descriptor in the store, one accepted where it belongs can be resolved, and no row stays pending although a pass sees one row, a statement fails or its DELETE is refused |
| `Cache` | 2 workers, 2 objects, 1 graph, 3 uploads, 1 fault, 1 crash; fair | an expired row always goes or is renewed; what was not uploaded twice and met no fault is served whole, and, if an object, is tracked, is evicted only when expired, and is evicted |
| `RevokeApart` | 2 threads, 3 tokens, capacity 2, 1 failing INSERT, 2 restarts, never a thread in `cookbook_revocation_add` beside another in the array | a revoked token is rejected before its expiry, the array is not overrun, the table never holds more than a restart can load, and a restart loads every revocation that was saved |
| `PoolSafe` | 2 threads, 4 descriptors, 2 peers, room for 2 per host and 3 in all | one owner per descriptor, limits kept, nothing stale handed out |
| `RateFixed` | 2 threads, 2 subjects, window of 2 s, limit 1 | at most three times the limit in any window's length, and no refusal below the limit |
| `DeviceSerial` | 3 devices, 2 user codes, 2 subjects, array of 2, life of 2 s, a provider that may not answer | a token goes once, to a device whose user code its subject verified in time, here or at the provider; no entry is lost when others move |
| `Algorithms` | 14 versions, 81 candidates against 54 ranges, grants on 3 keys in every order, 3 statements on 2 rows of 3 columns, with literals, NULLs and conditions | comparison is SemVer precedence and one order (`PrecedenceLaw`), ranges are the intervals they stand for (`RangeLaw`), the longest grant decides, here and, if the claims fit the headers, at a peer (`GrantLaw`), the key-value backend differs from SQL only where literals, conditions and further assignments of a statement spoil a row (`KvAgrees`) |
| `Tokens` | 1 request at a time, 1 subject in 2 teams of which 1 is searched, 3 policies, 2 keys in a recipe, 2 passwords, failing reads and merges, 3 changes, 1 token | groups, grants and exclusions come from what was in force; keys need them and stay revoked |
| `Grid` | 3 registries (one signs and is known, one asks for signatures and is asked over TLS, one has no key and lists itself), 1 worker each, 2 clients, 2 requests out of 14 kinds with tokens of up to 4 entries, 1 change, 1 tick; fair | no holder that answers whole and got the grants is passed over (`HolderFound`), answers are true and were admitted (`AnswersAreTrue`), peers answer only fresh signatures by the key on record and never themselves (`PeersVouch`), every request is answered |

Violated, documenting where the code does not do what its documentation says:

| Run | Property | What happens |
|---|---|---|
| `PublishDuplicates` | `DuplicatePutsConflict` | two uploads of different bodies to one key find it free before either writes, and both are answered 201 (`docs/capabilities.md:63`: "Duplicate PUTs to the same coordinate return `409 Conflict`") |
| `GridRedirect` | `RedirectTargetHasIt` | HEAD `/grid/artifact` answers 200 for what is not there and 404 for what is, so that a client is redirected to a registry without the artifact (`docs/capabilities.md:181`: "existence check") |

### Bounds

- `MaxPuts`, `MaxFaults`, `MaxCrashes`, `MaxRestarts`, `MaxCalls` bound the
  requests and failures. Each race in these handlers is between two requests, or
  one request and the background thread; a third request sees what they left.
- `BatchCap` is 100 in the code and 1 here, so that a pass leaves rows over.
  `Capacity` (4096 and 64) is 2 or 3 and `MaxEntries` (128) is 3 or 4, so that
  full arrays are reached; `Slot` adds one slot a thread.
- `MaxTime` goes past the end of the longest-lived thing: a window, an idle
  timeout, the life of a code, the expiry of a token.
- `RateFixed` and `DeviceSerial` shorten 60 and 900 seconds to 2. The code only
  compares differences with the constant.
- `IntBits` is 32 in the code and 4 here; the numbers compared stay below 2^3, and
  their differences with them. Three versions at a time are enough for
  transitivity.
- `MaxPayload` (4095 bytes) is 3 entries, so that claims are cut within the
  grants, within the exclusions, or not at all. `TeamMax` (64) is 1 and `KeyMax`
  (256) is 2, so that a policy lies beyond the search and a key beyond the recipe.
- `HeaderRoom` (2048 bytes) is 3 entries and `TlsRoom` (511 bytes) is 2; the tokens
  have 1 to 4, so that claims fit, are cut over TLS only, or are cut anywhere.
- `Window` (300 seconds) is 0 and `MaxTime` 1 in `Grid`: an answer comes within
  the window or after it. `Workers` is 1, so that a registry waiting for a peer
  cannot answer; more workers only put that off. `MaxChanges` is 1: each
  property speaks of one request, and one change of tables, before or during it,
  is what it can meet between two of its steps.
- `CHECK_DEADLOCK FALSE` is set where the bounds let the requests run out. The
  runs of the connection pool check deadlock.
- Symmetry is used only in runs without liveness properties, over sets whose
  members no definition names.

### Fairness

Weak fairness of each worker's own steps: the HTTP library's threads run every
request they have accepted, and no step waits for another thread. Weak fairness
of the background pass: its thread wakes up every 60 seconds as long as the
server runs. Weak fairness of `Age` and `Expire`: time passes. In `Grid`, weak
fairness of a handler with a request of its own; its call to a peer ends by an
answer, an error or a timeout. Sending and receiving have a timeout of five
seconds (`cookbook_socket.c:52-64`); connecting has none of its own and relies
on the system's. Nothing is
assumed of clients, faults, crashes or administrators. `MaxFaults` is finite,
so that liveness is not claimed of a database that fails for ever.

### Assumptions of single runs

`RevokeApart` has the state constraint `Apart`: no thread is inside
`cookbook_revocation_add` while another is in the array. The code has no lock that
would ensure it, and without it a revoked token is accepted, the array is overrun
and more rows are saved than a restart loads (second item of section 7); the run,
and the theorems, show that this overlap is the only way to break them. INSERTs,
answers, restarts and any number of checks overlap freely. `AcceptedOnce` and
`AckedIsIntact` likewise except keys of which two uploads were under way at one
time; `PublishDuplicates` shows what happens there. `PublishSettles` has no
rejected descriptors, because a rejected one deletes the key whoever wrote it, and
no group administration, because an upload whose group is deleted under it is
answered 201 without a row. `AckedIsResolvable` excepts rows that outlived the
pending timeout, because of the first item of section 7. `PoolSafe` sets
`StopQuiet`, so that the server stops only when no thread is inside the pool; the
third item is what that hides. `HolderFound` leaves out artifacts at peers in
redirect mode, which `GridRedirect` is about, peers not set up for the request,
signed `/resolve` requests with a query, answers that were cut, and clients whose
grants and exclusions do not fit the headers (section 7). `ClaimsFollowPolicies`
excepts the exclusions of a policy that could not be read or merged, or has more
of them than a recipe names. `KeysFollowGrants` leaves out the exclusions of
tokens that do not fit the verifier's buffer. In `Cache` the history variable
`disturbed` takes keys with a repeated upload, failed call or crash out of four of
the properties; `ExpiredRowsGo` holds of all keys.

## 5. Proofs

The theorems hold for all values of the constants that satisfy the assumption of
each module, infinite sets of workers, threads or keys included. The assumptions
are on the shapes of the constants (numbers are natural, `None` is none of the
values it stands in for, lists are sequences, tables start well formed) and TLC
evaluates them in every run. What an assumption adds beyond shapes is said below.
Each inductive invariant was also checked with TLC, on the instance of the
module's run.

| Module | Theorem | States |
|---|---|---|
| `PublishProofs` | `TypeCorrect`, `ReferencesHold`, `ProvenanceHolds` | `Spec => []` `TypeOK`, `NoDanglingReferences`, `RowProvenance` |
| | `ImplementsCatalog` | `Spec => CatalogSpec`, the refinement of `Catalog` |
| | `PublishedKeepsDescriptor` | `[]PublishedHasDescriptor`, if always `NoRejects \/ CoordsApart` |
| | `DuplicatesNeedCrossing`, `AckedStaysIntact` | `Spec => []` `AcceptedOnce`, `AckedIsIntact` |
| | `AckedStaysResolvable` | `[]AckedIsResolvable`, if always `NoRejects \/ CoordsApart`, and `Calm` |
| `TableProofs` | `VersionsAreOrdered`, `RangesMeanIntervals` | `AskSpec => []` `PrecedenceLaw`, `RangeLaw` |
| | `CacheTypes`, `ObjectsAreTracked`, `FreshObjectsAreServed` | `Spec => []` `TypeOK`, `NoUntrackedObject`, `FreshIsServed` |
| | `EvictionIsJustified` | `Spec => OnlyExpiredEvicted`, an action property |
| | `BurstsAreBounded`, `RefusalsAreEarned` | `RateSpec => []` `BurstBound`, `RefusedOnlyOverLimit` |
| | `KvStoreAgrees` | `AskSpec => []KvAgrees` |
| `ConnPoolProofs` | `PoolTypes`, `DescriptorsHaveOneOwner`, `PoolStaysBounded` | `Spec => []` `TypeOK`, `OneOwner`, `PoolBounded` |
| | `NoStaleConnection` | `Spec => NeverHandedOutStale`, an action property |
| `DeviceCodeProofs` | `DeviceTypes`, `TokensAreVerified`, `CodesAreRedeemedOnce`, `CodesAreRemembered` | `Spec => []` `TypeOK`, `TokenNeedsVerification`, `RedeemedOnce`, `CodesRemembered` |
| `RevocationProofs` | `RevocationTypes`, `ListStaysBounded`, `RowsAlwaysFit`, `RevokedTokensAreRefused` | `Spec /\ []Apart => []` `TypeOK`, `ListBounded`, `ReloadFits`, `RevokedRejectedBeforeExpiry` |
| | `RestartsRestore` | `Spec => RestartRestores`, an action property |
| `TokensProofs` | `GrantsDecide` | `AskSpec => []GrantLaw` |
| | `TokensTypes`, `GroupsNeedAPassword`, `TokensFollowPolicies`, `KeysNeedAPolicy` | `Spec => []` `TypeOK`, `GroupsAreEarned`, `ClaimsFollowPolicies`, `KeysFollowGrants` |
| | `RevokedKeysStay` | `Spec => KeyStaysRevoked`, an action property |
| `GridProofs` | `HoldersAreFound`, `AnswersStayTrue`, `PeersAlwaysVouch` | `Spec => []` `HolderFound`, `AnswersAreTrue`, `PeersVouch` |

`CompactionProofs` holds lemmas only.

**Publish.** The inductive invariant is `TypeOK /\ NoDanglingReferences /\
RowProvenance`.
`TypeOK` contains `RequestOK`, which ties a worker's place in the handler to its
request: past the parsing of a descriptor, `Target(w)` is a coordinate. Without
it neither `GroupOf[Target(w)]` nor the row written is well defined, so no other
conjunct is inductive alone. `NoDanglingReferences` needs the condition of each
writing statement: an insertion refused by its foreign key, a deletion refused
while something refers to the row; that is why the statements between two of
them do not matter. `RowProvenance` needs that an upload registers the
coordinate its descriptor names, and that `INSERT OR IGNORE` never overwrites.
The proofs first show which actions write tables at all (`OthersLeaveTables`);
the others are dispatched at once. `RowSteps` then says what the writing
statements do to each row: register, promote, drop, yank, age or nothing.
`ProvenanceStep` and `RefinementStep` follow from it. The refinement mapping
forgets the age of a row, so an ageing step is a stutter of `Catalog`.

Two theorems have hypotheses about uploads under way, because the properties are
false without them (section 7). `CoordsApart` says that none registers the
coordinate another is stored under, `NoRejects` that every descriptor parses and
validates; either is enough. `DescriptorInv` adds to `PublishedHasDescriptor` that
the descriptor `try_publish` has seen is still there when the row is promoted, and
that one still to be validated lies under no published coordinate, so that
deleting it does no harm. `StoredInv` says that an upload past the immutability
check of a key that is not in `crossed` is the only one, that the key was not yet
answered, and that the file then has its body; `AcceptedOnce` follows since one
file has one body. `IntactInv` adds the `.sha256` and `.countersig` files; their
failures are ignored by the handler, so the property has them only while no call
has failed. `Calm` (no ageing, no group administration, no failing call) makes the
tables only grow: `NothingToDrop` shows that the background pass finds nothing,
and then each statement of the handler finds what the one before it left
(`RegistersInOrder`), whatever other uploads and crashes do meanwhile.

**ObjectCache.** The properties speak of keys that are not disturbed, and say
nothing of the moments between an upload's three calls or an eviction's four.
`CacheInv` fills these in (`Life`): at most one worker uploads such a key and
its row is not there yet (`Uploading`), afterwards the file is whole and there
until the row expires (`Stored`), and what the evictor's list names has still
expired when its turn comes, the row going after the file (`Listed`). That the
evictor's old list does no harm is the last of these; it needs that a second
upload is what disturbs a key. `KnownKeys` says that a key nobody uploaded is
in no table, so that a first upload finds nothing.

**RateLimit.** `WindowInv` relates a bucket to all requests let through before:
those of its window came after its start, those before it at most `Delay` after
it, and those before the last `Limit` and the last `2 * Limit` of them one and
two windows earlier (`BeforeWindow`). So any two requests `Spread` apart in the
list, which is twice or three times `Limit`, are a window apart in time, and this
bounds what any interval holds. `RateAssumption` has `Delay <= Window`: a thread
waits for the mutex no longer than a window of 60 seconds.

**KvTable.** `KvInv` says that a stored row has the first columns of the table in
their order (`IsRow`), that it is there exactly when the table's is, but for
`strayed`, and that a column not in `lost` has the table's value (`Matches`). An
INSERT without literals fills the columns with their own values, one with a
literal those before it. The text search of an UPDATE may hit a column whose name
ends with the one looked for; `KvAssumption` says, as the schema's tables satisfy,
that no such column comes before it. So the first hit is the column itself, unless
an earlier value contains the name, and then both are in `lost`.

**SemVer.** `TextShapes` says that the numbers fit an int, and those of a range
their successors too; without that the code wraps around. Under it parsing
keeps the numbers (`ParseKeeps`) and the difference of two has the sign of their
order. Lists of identifiers are then compared by where they first differ
(`ListsCompared`), which gives one order (`ListOrder`, `VersionOrder`) for lists of
any length. Of the ranges, caret and tilde reduce to equal leading numbers
(`CaretEnds`, `TildeEnds`), which is compared with the bounded range up to the
first version above. `SemVerAssumption` includes that a power of two is a
positive number, because no prover knows about powers.

**Grants.** `WalkFindsLongest` is an induction over the rounds of the walk: after
n rounds the best match is a longest one among the first n grants, or Star's if
none covers. It needs that no key comes twice in a list (`ClaimShapes`); the
keys of a JSON object made by `serialize_grants_json` are distinct.

**Compaction.** `EveryRound` is the induction the other modules use: a set of
numbers that has 0 and with each number below N the next has all up to N. Stating
it for sets rather than for operators is what lets the provers apply it.
`CompactionProofs` also proves that the n-th kept position exists and
is the only one, that positions are kept in order, and so that the result has
exactly the kept elements, none twice.

**ConnPool.** `OneOwner` and `PoolBounded` are inductive together with `TypeOK`,
which ties having a descriptor to a thread's place. Pruning and swap-removal
only leave out and rearrange entries (`Arranged`, an injection of positions), so
that neither the limits nor distinctness can be lost. `NoStaleConnection` uses
`OneOwner`: the entry that was pruned for its age and the one handed out could
otherwise have one descriptor. Nothing is assumed of when the server stops.

**DeviceCode.** `DeviceInv` adds to the properties that every entry in use
belongs to the pair issued to its device (`Genuine`), that there is one per
device and none for a device that got its token (`Entries`), and that a device
is with the provider or with the array but not with both (`Homes`). The last
makes `RedeemedOnce` survive a provider that comes and goes. The assumption says
that the three words for the state of a pair at the provider are not subjects.

**Revocation.** Four theorems have the hypothesis `[]Apart`, for any number of
threads; without it their properties are false (section 7). Threads still take
one step for each access to the array, and the clock moves, INSERTs of earlier
revocations come late and the server restarts between them. `RevInv`
therefore follows the loops: `Region` is the part of the array that holds
entries while the pruning loop has copied some of them, and each row that has
not expired is in it (`RowsCovered`); `Place` says for each step what the thread
may rely on, such as that a search has not yet passed the token it looks for.
`RowsAlwaysFit` follows by counting: every row has a slot of its own.
`RestartsRestore` has no hypothesis. `TableInv` says that a revocation that was
answered has its row unless the INSERT failed, which no race in the array can
change, and that the load fills a slot for each row that has not expired.

**Tokens.** A request reads credentials and policies one statement at a time.
`Watches` says that what it has noted is at least what the tables hold now;
`Authenticated` and `Reading` say where its groups and the policies it has read
come from. Tokens do not change, so a property of tokens follows from that of
the requests that make them. `ClaimsAssumption` says that `None` is no list of
exclusions, which a model value satisfies. The exclusions of the subject's own
policy survive because it comes first in `found` (`OwnFirst`), and teams are
appended behind it (`Appended`): its keys are the first the recipe takes, so that
`KeyMax` of them get in (`OwnRecipe`). A token of version 1 comes from a request
that has `trouble`, or found no policy that the merge takes. `KeysInv` adds for
`KeysFollowGrants` that a key's token authorises its group, and that a request
has found finitely many policies, so that the merge has a listing at all and the
claims are lists (`TokenShape`). The rest is that the part of the claims which
the verifier reads is a beginning of the whole, and that each of its grants comes
from a policy that was read.

**Grid.** `GridInv` says of a waiting handler that the request under way is the
one its question makes at some time up to now (`Sent`), so that what the peer
verifies is what was signed; that what it has found is there and who had the path
still has it or has yanked it (`Truth`); and the two properties of peers tried so
far. The tables change under it: `JobsAge` shows that artifacts only age (absent,
published, yanked) and that this preserves all of it, for all handlers at once.
`NewTry` relates what is recorded of a peer to what `verify_grid_peer_sig` looked
at, in both directions: `PeersVouch` needs one, `HolderFound` the other.
`GrantsSurvive` is why an admitted client passes at every peer that its claims
reach whole (`Carried`): headers that fit lose only empty lists, and those in its
favour or without effect. `Replies` collects what an answer says. The set of
registries must be finite, because the table of peers is listed.

### Only model-checked

Liveness (`PendingSettles`, `ExpiredRowsGo`, `ObjectsGo`,
`EveryRequestAnswered`), which needs fairness and ENABLED, and these are out of
the prover's reach.

## 6. Not modelled

Of the modelled components: the `?repro` side file of an artifact, answers 500
to reads, PATCH and the listings of the administration, which no other handler
depends on; requests to the device code array at the same time; `@include` in a
policy, and memory that runs out for a single key of its recipe, which drops that
key. Of the key-value backend: texts with a tab, tables of more than 32 columns
or 1024 bytes of names, integers beyond `int`, failing memory or disk, and
statements that address rows other than by their key.

Left out as a whole: the S3 store, whose calls are I/O and request signing; the
SQL drivers, which pass statements on; the encoding of LDAP, OIDC, HTTP and TLS;
hashing, signatures, compression and the document parsers, which are arithmetic
and text beyond what a model checker can enumerate; the audit log and metrics,
which no handler reads back; the import tool, a command line program that sends
one request after another.

## 7. Observations without a run

The first three are behaviours of the models. A run with the constants given
shows each.

- A row published after reconciliation collected it keeps its status but loses
  its semver row (`cookbook_server.c:1130`), while `docs/capabilities.md:308`
  says "cleans up stale pending rows". `MCPublish` with 1 worker, 1 coordinate,
  1 body, `MaxPuts = 1` and `Aging = TRUE` violates `ReconcileSparesPublished`.
- Two threads revoking at once take the same slot, or a prune moves an entry past
  a search, and a revoked token is accepted (`cookbook_auth.c:201`), while
  `docs/roadmap.md:94` says "revocation checked at verification time".
  `RevokeApart` without its constraint violates `RevokedRejectedBeforeExpiry`,
  `ListBounded` and `ReloadFits`.
- The server frees the pool before it stops serving, and a request then locks
  freed memory (`cookbook_server.c:5729`; `cookbook_connpool.h:11`:
  "Thread-safe"). `MCConnPool` with 2 threads and `StopQuiet = FALSE` violates
  `NoUseAfterFree`.

Reading the code for these models also showed the following.

- A `now.pasta` is never compared with its URL, although
  `docs/capabilities.md:68` says the fields "must match the URL path"
  (`cookbook_server.c:2291`). The models let it name any coordinate.
- Rejecting a descriptor deletes the key even if a concurrent upload has stored
  and published its own there (`cookbook_server.c:2280`).
- A group that ever had an artifact cannot be deleted: yanked rows are counted
  (`cookbook_server.c:5005`), while `docs/guides/admin.md:126` says "Remove or
  yank all artifacts first".
- An upload between the evictor's two deletions leaves an object without a row,
  which no pass finds again (`cookbook_server.c:1209`).
- In the second of its expiry a token still verifies (`cookbook_auth.c:534`)
  while its revocation may already be pruned (`cookbook_auth.c:178`).
- A pool created with 0 keeps four connections (`cookbook_connpool.c:38`), while
  `cookbook_connpool.h:21` says "0 = no pooling".
- Whether a connection is kept alive is looked up in the body of the answer
  (`cookbook_grid.c:365`), and the request has itself asked for
  `Connection: close`.
- The rate limit is a fixed window, while `docs/capabilities.md:77` says
  "sliding window".
- After a device code is redeemed the audit log gets the subject of the entry
  that was moved into its slot (`cookbook_server.c:3337`). The seventh character
  of a user code may be read past its alphabet (`cookbook_server.c:2989`).
- With a provider configured, a code issued by the array because the provider did
  not answer cannot be redeemed as long as the provider answers again: its 400
  is passed on (`cookbook_server.c:3275`). When a provider's answer names no
  subject the token is for the client identifier (`cookbook_server.c:3236`).
- HEAD's inversion also makes a search skip the peers that do have an artifact,
  and two registries that list each other in redirect mode send a client in a
  circle (`cookbook_server.c:4145`).
- A signed `/resolve` with a query is always refused by a peer: the sender signs
  the path with its query, the peer verifies it without (`cookbook_server.c:3964`
  against `cookbook_grid.c:453`). A signed request to a peer that has no key for
  the sender is refused even where signatures are not asked for.
- `grid=true` sends peers neither grants nor a token, so peers with a key answer
  401, and what the others list is merged unfiltered (`cookbook_server.c:3749`).
  `/grid/manifest` has no loop check.
- Claims without any grant become an absent header, which a peer takes for open
  access (`cookbook_server.c:808`). The first registry refuses such a token.
- Claims that do not fit 2048 bytes of headers are cut in the middle of a line
  (`cookbook_server.c:650`), and the header with the request's origin is glued to
  it: the peer takes the request for unsigned, may lose grants and exclusions and
  may read operations from the glued text. The position runs past the buffer when
  `snprintf` reports more than it wrote, and what is written there is undefined.
  Over TLS each header is cut at 511 bytes (`cookbook_grid.c:315`) but signed
  whole, so that a peer answers 401, or decides by what is left if the request is
  not signed.
- A peer's answer that is cut after 4 MB (`cookbook_grid.c:172`) or by a timeout in
  its middle (`cookbook_grid.c:178`) is relayed as a whole file with status 200.
- A token whose claims exceed 4095 bytes loses its exclusions and its expiry
  (`cookbook_auth.c:509`).
- Without a credential row, or with a revoked one, Basic authentication gives a
  token all the same, with no groups but with the subject's policy
  (`cookbook_server.c:2553`). A body without a password gives one with the groups
  the client wrote into it (`cookbook_server.c:2591`). A query for the credential
  that fails counts as no row.
- A policy that cannot be read, because the query's status is not looked at
  (`cookbook_policy.c:51`), or on which the merge fails (`cookbook_policy.c:409`)
  leads to a token of version 1 with the body's groups and without the policy's
  exclusions (`cookbook_server.c:2843`). Keys that only the texts behind the first
  65 have, and those beyond 256, are left out of a token (`cookbook_policy.c:259`,
  `cookbook_policy.c:283`).
- A policy that is a bare map is stored with 200 and left out of every token
  (`alforno_compat.c:261`).
- A bounded range has no rule for pre-releases, although the comment at
  `cookbook_semver.c:200` speaks of all ranges.
- The key-value backend pairs parameters with columns from the left, so that a
  literal in VALUES shifts the columns after it (`cookbook_db_kv.c:258`; the INSERTs
  for artifacts at `cookbook_server.c:2358`, credentials at `cookbook_server.c:5222`
  and peers at `cookbook_server.c:4334`). It applies only the first assignment of
  an UPDATE (`cookbook_db_kv.c:374`), with the first parameter even if that belongs
  to another, refuses one without parameters but the key (`cookbook_db_kv.c:296`),
  loses assignments to columns that were not inserted, so that revoking a
  credential has no effect, may find a column's name inside a value
  (`cookbook_db_kv.c:354`), stores NULL as an empty text, and looks at no condition
  but that on the key (`cookbook_db_kv.c:283`).
- A failure to read an object or graph that exists is answered 200 without a body
  (`cookbook_server.c:4438`).
