# TLA+ model of the ipam-operator

The operator is a pair of admission webhooks for core Services. When a Service of type
LoadBalancer is created, changed or deleted, the webhooks allocate, register and release its
addresses in the IPAM API, and keep one MetalLB `IPAddressPool` per zone in step with them.
There is no reconcile loop: what a webhook leaves behind, nothing repairs. The modules here
model the handlers call by call, with the API server, its informer cache and the IPAM API
around them.

## Inventory

| Part | Code (`src/internal/...`) | State | Operations |
|---|---|---|---|
| Pool manager | `utils/ip-pool.go` | the pools (in the API server) | add, remove, verify pool, verify addresses |
| Mutating webhook | `webhook/v1/service_webhook_mutation.go`, `get_address_ipam-api.go`, `reconile_annotation_addresses.go` | local to a request | `Default`: type, defaults, one or two addresses |
| Validating webhook | `webhook/v1/service_webhook_validate_*.go`, `update_secret.go`, `utils/prefixSlicesDiff.go` | local to a request | `ValidateCreate`, `ValidateUpdate`, `ValidateDelete` |
| IPAM client | `utils/ipam-api.go`, `update_address_ipam-api.go`, `remove_address_ipam-api.go` | none | POST /address, DELETE /service |
| Entry checks | `validate_*.go`, `get_*.go` | none | MetalLB is up, dry run passes, namespaces and secrets exist |
| Default secret | `utils/secrets.go`, `utils/generate-random-string.go`, `get_secret.go` | one immutable Secret (in the API server) | get or create |
| Annotations | `utils/annotations.go`, `utils/ip-tools.go` | none | defaults, prepend an address |
| Manager, TLS, health | `cmd/main.go` | none of its own | start-up |
| IPAM API (external) | the operator's use of it | who is bound to each address, and its secret | allocate, bind, unbind, change secret |
| API server (external) | `chart/.../admission.yaml`, client calls | Services, pools, resource versions | admission, commit, conflict, timeout |

How they interact. A create or update goes through `Default` and then `ValidateCreate` or
`ValidateUpdate`, two separate calls that share nothing but the Service; a delete goes
through `ValidateDelete`. The API server commits the Service after the last of them, so
every effect in IPAM and in the pools comes *before* the Service is stored, and stays when
the request is refused later. Reads of pools, Services and secrets go through
controller-runtime's informer cache, writes go to the API server directly. Handlers of
different requests run concurrently and share the IPAM API, the pools and the stored
Services; there is no lock.

What is hard: other requests between any two calls of a handler; decisions from stale reads;
one call of several failing and the rollback after it; releases whose errors are ignored;
answers nobody waits for; and the operator crashing with the list of what to roll back.
`PROJECT.json` lists these hazards at their lines.

What makes each part correct: a pool write loses no address of another handler and never
leaves an empty pool (pool manager); a stored Service has its addresses bound to it, under
its secret, in its zone and in that zone's pool (create, update, delete); a denied or
finished request leaves nothing bound or pooled that no Service lists (rollbacks); a Service
has the families it asks for (`Default`); all handlers that go on use one default secret;
every handler ends.

## Modules

- `IpPool`: the pool manager. `call[c]` is where handler `c` is between the Get, the List
  and the write; one action for each of them (`AddGet`, `AddWrite`, `RemoveGet`,
  `RemoveList`, `RemoveWrite`), `CallFails` for a call that fails without effect, and
  `AnswerLost` for a write that the API server carries out and whose answer does not arrive:
  the code returns the same error for both. Get and List answer from `poolCache` and
  `lbCache`, which lag behind by any amount when `InformerLag`. Update compares resource
  versions, Create refuses what exists, Delete compares nothing. A Create or Update that the
  server refuses is the error path of the code. The module has an `Init` and `Next` of its
  own, in which Services change freely, and is instantiated by `ServiceWebhook`.
- `AtomicPools`: the pool manager as its callers want to see it, the addresses of each zone
  a set that each operation changes in one step. `IpPool` implements it
  (`OperationsAreAtomic`; `Served` and `Operations` are the refinement mapping): an operation
  changes the stored addresses at most once, by exactly what it was asked, whatever was stale,
  and says that it succeeded only with that change. One that says it failed may have changed
  them too. Its `Clear` is the one exception the code has, the deletion of a pool that has
  grown since it was read.
- `DefaultSecret`: the default secret of `utils/secrets.go`. A handler looks it up in the
  cache of its process (`Get`) and, when it is not there, draws a random value and creates
  it (`Create`); any error of the Create denies the request. Processes may restart and
  several may run, as in a rollout; calls may fail before or after their effect.
- `WriteOnce`: a value that is chosen once, and readers who learn this value only;
  `DefaultSecret` implements it (`ChosenOnce`).
- `IpamApi`: the IPAM API, external. An address has the Services bound to it and a secret;
  the operators say when a call is granted and what it changes. Its requests name a zone and
  are refused for another secret or zone. Nothing here is claimed of the IPAM API's own
  code.
- `ServiceWebhook`: the webhooks, which composes `IpPool` and `IpamApi`. `req[r]` is request
  `r` with the old and new Service, the point its handler has reached, the loop it is in
  (`todo`) and what it has obtained (`got`). One action per IPAM call (each iteration of a
  loop is one), per pool read or write, and per decision between them. `store` is what the
  API server has.
- `MCIpPool`, `MCServiceWebhook`: the small instances.
- `IpPool_proofs`, `DefaultSecret_proofs`, `ServiceWebhook_proofs`: theorems about the
  module of that name.
- `StoredServices_proofs`, `PooledServices_proofs`: theorems about what `ServiceWebhook`
  keeps of stored Services in IPAM and in the pools; the second extends the first.
- `TidyServices_proofs`, `FreedAddresses_proofs`: theorems that the pools and IPAM keep
  nothing else. Both extend `PooledServices_proofs`.

`ServiceWebhook` uses the actions of `IpPool` as they are (`Pool == INSTANCE IpPool`), with
the requests as callers and the stored LoadBalancer Services as `lbAddrs`. A handler starts
an operation with `AddGet` or `RemoveGet`, `PoolStep` runs it, and `PoolReturn` gives its
result to the handler, which denies, ignores it or rolls back.

`DefaultSecret` is not composed with `ServiceWebhook`: a handler either gets the one value,
which a secret's name then stands for (`Agreement` is what allows this), or is denied before
its first effect, which is one of `EntryFails`' outcomes.

Next to some definitions stands a variant with a slip in it (`RemoveWriteNeverDeletes`,
`UndoFirstOfAll`, ...). Nothing uses them: they record, for each property of each run, a
plausible mistake in the code that the property detects.

### Decisions worth knowing

- The annotations of a Service are taken after defaulting: `addresses`, `zone`, `secret`,
  `ip-family`, and whether `retention-period-days` and `deny-external-cleanup` parse
  (`valid`). A secret's name stands for its value. `allow-local-shared-ip` (random by
  default) and the `metallb.io/*` copies do not influence the handlers, except that the
  random default key makes a ClusterIP Service that gets type LoadBalancer always look
  changed; with equal addresses the handler then does nothing anyway.
- An address is a value, not a text: that the code compares addresses as text, and an IPv6
  address has several spellings, is left out (it is among the hazards).
- `strings.Split` of an empty annotation is one empty string; it is modelled (`NoAddr`),
  since the code passes it to the IPAM calls, which refuse it unsent.
- An address is freed at its last unbind: the default retention is 0 days.
- `Ask` is every IPAM call: refused, granted, failed without effect, or (with `LostAnswers`)
  failed after its effect; pool writes fail in the same two ways (`Pool!CallFails`,
  `Pool!AnswerLost`). Faults are counted against `MaxFaults`.
- The IPAM API answers an allocation with a prefix. `UpdateAddressAnnotation` takes the
  address of it for the annotation, and `Default` keeps the prefix for the release it sends
  when the IPv6 request fails. `removeAddressIpamAPI` refuses a prefix as no address and
  sends nothing. `got` is therefore `AnsweredPrefix`, a text that is no address (`Texts`), and
  `UndoV4` ends without a call (`Sendable`). That the answer is a prefix is
  what the code takes it for; no answer of the IPAM API is in the repository.
- A Service whose status has ingress addresses keeps type LoadBalancer; whether MetalLB has
  set them is a free choice on update (`MayHaveIngress`).
- The API server: the webhooks are configured with `failurePolicy: Fail` in the chart, so a
  crashed operator means a denied request. (The markers in `service_webhook.go` say Ignore;
  the chart is what is deployed.) A request whose Service has changed since is refused when
  `Default`'s dry run or the final write notices (`Conflict`); a delete is validated again
  against the new object. `Abandon` is a webhook timeout or a rejection by something else:
  the handler that is running goes on unheard.
- A read through the cache can miss an object but does not fail; a pool operation that fails
  otherwise is `CallFails`.
- `EntryFails` stands for all checks a handler makes before its first effect.
- Dry-run requests return at once and change nothing: not modelled.

## Runs

Every passing run is finished by TLC over its full state space.

| Run | Question | Bounds |
|---|---|---|
| `pool` | Are pools never empty, updates never lost, reads consistent, successes real, operations atomic (`AtomicPools`)? | 2 handlers, 2 Services, 1 zone, 2 addresses, stale caches, failing calls, 3 writes |
| `default_secret` | Is one value chosen, do all who go on have it, and do denials end? | 3 handlers, 2 processes, 2 random values, stale caches, 2 failed calls or restarts |
| `serial_sharing` | Do IPAM, pools and stored Services agree in both directions when Services share addresses? | 3 Services, 1 request at a time, 2+2 addresses of which one is another cluster's, one family asked for, 6 requests |
| `serial_moves` | The same when zone, secret, family and addresses of a Service change | 1 Service, 2 zones, 2 secrets, 4 addresses, one family asked for, 5 requests |
| `concurrent_creates` | Is what creates store always registered and pooled, under stale caches, conflicts, faults, lost answers, crashes? | 2 at once, 2 Services, 2 secrets, dual stack, 4 requests, 2 faults |
| `concurrent` | Does a stored Service ever lose its binding to the rollback or delete of another? | 2 at once, 2 Services, all operations, stale caches, 5 requests |
| `one_fault` | Do the rollbacks work wherever one call fails? | 1 Service, dual stack, 2 secrets, 4 requests, 1 fault |
| `chaos` | Does every handler end, and stay within its zone, whatever happens? | 2 requests for one Service, 2 zones, timeouts, crash, lost answers, 3 requests |

Why the bounds are enough: each hazard needs at most two handlers on one pool or address,
two addresses to tell one from all (a Service has no more than one per family), two zones or
secrets to mix up, and a create, a change and a delete of the same Service, with a second
Service to share or take its address. Six requests let three Services be created, changed
and released. For the default secret, two handlers race and a third comes late, in the
process whose cache still misses what the other process has created; random values are told
apart by two. MetalLB pools of more addresses only add bystanders, which `pool` has one of.
`MaxRev` stops new pool operations and not those under way.

Symmetry is used for handlers, Services and (in `pool`) addresses, which nothing orders, and
in no run with a liveness property. Deadlock is checked in every run: `Rest` lets the
operator be idle when no handler is running, so a handler that is stuck is a deadlock.

Fairness (`FairSpec`): each handler takes its next step if it can. The Go HTTP server runs
each request in its own goroutine, and no handler waits for another one; what this assumes
is that each IPAM or Kubernetes call returns. The HTTP client has no timeout, so a silent
IPAM API is outside this assumption. In `DefaultSecret` a handler that has begun goes on
(`Handle`: the Create is answered, the handler returns), for the same reason, and each
informer cache catches up when it stays behind, which is what an informer's watch does;
lookups are begun without fairness. New requests, faults, timeouts, crashes and cache
updates are not fair in `ServiceWebhook`.

### What holds only under conditions

The properties of stored Services are about requests that are not in progress (`Quiet`), and
their runs say where they hold. Each is proved under conditions on the constants which say
this exactly (see Proofs):

- `StoredIsBound`: concurrently without faults, or with one fault and one request at a time
  (`BindingsLast`). With two faults the rollback of a delete can fail as well.
- `StoredIsManageable`: for Services that do not share an address while its secret changes
  (`SecretsLast`); the sharers are locked out otherwise. Lost answers are for creates only,
  unless there is one secret.
- `StoredIsPooled`: one request at a time, or creates only (`PoolsLast`). An update ignores
  pool errors, and see `realloc_race`.
- `BoundIsStored`, `PooledIsStored`: one request at a time, no faults, no rejections. A
  create that is denied after `Default` allocated, or after a pool error, leaves its address
  bound; sharers deleted at once leave it pooled. `BoundIsStored` also wants parameters that
  parse (`malformed`), secrets that no other Service changes, and Services that ask for one
  family, of which the user may still list an address of each (`NothingLeft`), and
  `PooledIsStored` zones that share no address (`TidyLast`): a removal counts the Services
  that list an address in whichever zone they are.

### Disagreements with the repository's own words

| Run | The code | The words |
|---|---|---|
| `pool_delete_race` | deletes a pool that has got an address since it was read | `ip-pool.go:196`: "if there is no more ip-addresses left in the pool" |
| `realloc_race` | takes an address out of the pool that a Service being created has just been given | `ip-pool.go:154`: "Check if the addresses is used by any Service" |
| `type_change` | does not register or pool the preset address of a ClusterIP Service that becomes a LoadBalancer | `service_webhook_validate_update.go:55`: "Allow change of .spec.Type (corner case) after creation" |
| `malformed` | admits an unparsable retention period on update, then cannot release the address on delete | `service_webhook_validate_delete.go:84`: "Remove old addresses that are not needed anymore" |

`Default` does not give back the IPv4 address of a dual stack that gets no IPv6 address
(`service_webhook_mutation.go:132`; the log line after it reports a failed release as the
exception, and with a prefix it always fails). No run is kept for it: with
`Families = {"dual"}` and `ValidParams = {TRUE}` in `malformed.cfg`, whose zone has no IPv6
address, TLC finds a create that is denied and leaves its IPv4 address bound.

Also noticed while reading, without a run: `err.Error() == IpamApiErrorMsgAddressNotFound`
is never true, since the error is wrapped (only a log line depends on it); the validating
webhook declares `sideEffects: None` although it changes IPAM and pools; the comment at
`prefixSlicesDiff.go:17` says "updated" of the addresses that are kept.

## Proofs

Every property below is also checked by a run on a small instance.

### The pool manager

`IpPool_proofs` proves, for all sets of handlers, Services, zones and addresses, for any
bound, with and without cache lag, that `IpPool`'s specification implies each property of
run `pool`:

| Theorem | Property |
|---|---|
| `TypeCorrect` | `PoolTypeOK` |
| `NeverEmpty` | `PoolNeverEmpty` |
| `ReadsAgree` | `SnapshotAgrees` |
| `NoLostUpdate` | `UpdateKeepsOthers` |
| `SuccessIsReal` | `OkMeansDone` |
| `Linearized` | `OperationsAreAtomic` |

They rest on `Invariance`, the inductive invariant `IInv`. `SnapshotAgrees` and
`PoolNeverEmpty` are not inductive: a step from an arbitrary state could read a cached pool
"from the future" whose version the server reaches later with other contents. `IInv` adds
that every stored pool, cached pool and read is a *copy*: its version is at most the
server's latest, version 0 means absent, and equal versions mean equal contents; and that
additions are of at least one address. What a write may do to the server is stated once
(`ServerMoves`), and `WritePreserves` and `ReadPreserves` show that such a write, and any
read, keep `IInv`; the step lemmas then go through the actions one by one. The two action
properties follow from the invariant and what each write does (`AddWriteEffect`,
`RemoveWriteEffect`). The only assumption is `IpPoolAssumption`, which types two constants.

`Linearized` maps each step to a step of `AtomicPools` or to a stutter: a write that the
server accepts was computed from what it replaces (`SnapshotAgrees` again), so its effect on
the stored addresses is that of the operation alone, and it is the operation's only one,
heard of or not. It does not say that a failed operation has no effect: the code cannot know.

### The default secret

`DefaultSecret_proofs` proves `SecretTypeCorrect` (`SecretTypeOK`), `HandlersAgree`
(`Agreement`) and `Refinement` (`ChosenOnce`) for all sets of handlers, processes and
values. The invariant adds to the two properties that a cache has nothing or what is stored:
without it a handler could find another value in a cache and go on with it. The assumption
used is `SecretAssumption` (the mark for no secret is not a value). `DenialsEnd` is liveness
and stays with TLC.

### The webhooks

`ServiceWebhook_proofs` proves, for all sets of requests, Services, zones, secrets and
addresses, for all bounds, and with every combination of faults (`LostAnswers`,
`InformerLag`, `Rejections`, `Crashes`), overlapping requests about one Service included:

| Theorem | Property |
|---|---|
| `WebhookTypeCorrect` | `WebhookTypeOK` |
| `OnlyValidatedPooled` | `PooledIsInZone` |
| `FamiliesStored` | `FamiliesServed` |

They rest on `WebhookInvariance`, the inductive invariant `WInv`. None of the three is
inductive: what a handler will do depends on the point it has reached and on the loop it is
in. `WInv` therefore says of each request (`Sound`) that it is in a phase of its own kind,
with the Services of its kind (`Phased`); that what a create or update will hand to the pool
is registered in its zone, but for what its loop has still to register (`Checked`); and
which families its Service has got so far, all of them once it has passed `Default`
(`Progress`). It says also that pool operations under way, stored pools and cached pools
have only addresses of their zone (`PoolsInZone`), and that stored Services have their
families. There is one lemma per action, and `Next` is split once. The pool manager enters
by the lemmas about its own actions.

`Only`, the filter of `PrefixSlicesDiff`, is a recursive function; that the function exists
is proved from a least counterexample in the naturals (`LeastNat`), since the library's
induction theorems take an operator that no installed prover instantiates. In the same way
`OnlyElements` (in `StoredServices_proofs`) proves that its result has exactly the elements
of the sequence that are in the set, and none twice when the sequence has none twice;
`PrefixSets` says what this means for the three lists of an update.

The assumptions are `WebhookAssumption`, `IpamAssumption` and `NoAddrAssumption`: they type
the constants, and say that a zone's addresses are addresses, that another cluster's name is
none of this one's Services, and that the empty string is not an address.

### What stored Services keep in IPAM

`StoredServices_proofs` proves

| Theorem | Property | Under |
|---|---|---|
| `StoredStayBound` | `StoredIsBound` | `BindingsLast` |
| `StoredStayManageable` | `StoredIsManageable` | `BindingsLast`, `SecretsLast` |
| `RollbacksSpareStored` | `RollbackSparesStored` | `BindingsLast` |

for any number of Services, addresses, zones and requests that overlap, as long as no two
are about one Service. The conditions are about the constants, and each part is needed:

- `BindingsLast`: submitted Services are LoadBalancers (`type_change` shows the loss
  otherwise); each Service has one request at a time and the API server does not give up on
  an admitted one (an update whose commit is refused has released what is still stored); no
  crash when there are updates, for the same reason; with deletes few faults (`FewFaults`: a
  delete whose release is followed by two failures cannot bind again), and one secret or one
  Service (while a delete waits for its pool, another Service could take the freed address
  under another secret). Creates may be combined with any fault, lost answer or crash, and
  updates with any failed call or lost answer.
- `SecretsLast`: with updates, one secret, or one Service and few faults: the Services that
  share an address share its secret, and an update changes it for all of them; and of two
  failures the second could keep the first change of a secret from being reverted.
- `FewFaults`: no call fails, or one may (`OneFault`) where requests come one at a time, with
  fresh reads, parameters that parse, and failures that have no effect. With two requests the
  pool may be gone when a delete comes to it, which turns back with no call failing; after a
  read that is out of date the API server refuses the change of the pool, and the delete turns
  back as well; an answer that is lost leaves the new secret on an address that is not
  reverted; and parameters that do not parse stop a rollback before it is sent.

The constants of `concurrent`, `serial_sharing`, `serial_moves`, `concurrent_creates` and
`one_fault` satisfy `BindingsLast`, and those of the runs that check `StoredIsManageable`
satisfy `SecretsLast` as well.

The inductive invariant is `BInv`, with `SInv` (`BindingsInvariance`). That stored Services
are bound when no request is in progress is not inductive: nothing is said of the requests. `BInv` says of
each request (`Secured`) what its handler has at the point it has reached: the addresses of
the *stored* version are bound until the handler's first effect on them (`BeforeEffects`),
those of the *new* version from its last effect on (`AfterEffects`), and between the two
`RekeySecured` says which addresses have changed their secret so far. What a rollback will
give back (`undo_new`) is not in the stored version, or is no address (`undo_v4`,
`AsAnswered`), and what `release_old` will
release is not in the new one. A delete that has released can bind again (`Regainable`).
`Alone` says that each request is the only one of its Service and has read what is stored,
and `Sane` that bound addresses are held under a secret of this cluster.

`SInv` is about a single fault. A handler that turns back undoes what it did with calls that
may fail as well, so the promise holds only if the fault is spent by then. `SInv` says so
(`TurnsBack`), and that a delete does not turn back unless a call failed: the pool its first
Verify read found is still there for the removal (`TakesOut`), which needs that no other
request runs. A change of secret is refused only by the fault, and then the address before it
is the only one to revert (`FirstRekeyed`), because a Service lists at most two (`AtMostTwo`).
A step after which the handler does not turn back keeps `SInv` (`StraightKeeps`); the few
others are those of the secret change and of the delete (`NextSteady`).

The proof has one lemma per action. Each shows what the action does for its own request
(`Settled`) and that it *spares* every other Service's bindings (`SparesOthers`); that this
keeps what is secured of other requests is proved once (`FrameSecured`), so the step lemmas
never mention the others (`OwnStep`, `QuietStep`, `SparingStep`).

### What stored Services keep in the pools

`PooledServices_proofs` has two parts. The first composes the proofs about `IpPool` with
those about the webhooks: `Manager` is `IpPool_proofs` with the requests as callers and the
stored Services as `lbAddrs`, and `ManagerInvariance` shows, with no condition at all, that
its inductive invariant holds inside `ServiceWebhook` (`GInv`). What it needs of the
handlers is that they never ask to add nothing (`AddsOnes`), which comes from `Default`
(a LoadBalancer has an address) and from `ValidateUpdate` skipping an empty list. With it

| Theorem | What holds in `ServiceWebhook`, unconditionally |
|---|---|
| `PoolsStaySound` | `Pool!PoolNeverEmpty` and `Pool!SnapshotAgrees` |
| `PoolsLoseNothing` | `[][Pool!LeavesOnlyWhenUnused]_vars` |
| `PoolSuccessIsReal` | `[][Pool!DoneWhenAnswered]_vars` |

The second part is `StoredStayPooled`, `StoredIsPooled` under `PoolsLast`: either there are
only creates, in any number, with every fault, crash, rejection and stale cache the model
has; or there are updates and deletes too, then of LoadBalancers only, one request at a
time, with fresh reads and no failing calls. Outside of this it does not hold: an update
goes on when its pool operation fails or loses a race, and `realloc_race` shows a delete
taking away the address of a create that is not stored yet. `serial_sharing`,
`serial_moves` and `concurrent_creates`, which check it, satisfy `PoolsLast`.

The handlers' steps are first told by phases (`MovesOn`: denied, defaulted, or further along
a create, an update or a delete), so that the pool argument does not repeat them. The
inductive invariant `PInv` (`PoolsInvariance`) then says of each request (`Pledged`) that the
stored version is pooled before the handler's pool operations (`BeforePools`) and the new
one after the first of them (`AfterPools`); that the operation under way adds what the
handler promised, or can only take away what the new version drops (`Spending`); and, with
one request at a time, that the operation has read what is stored, and found unused only
what no other stored Service lists (`Undisputed`).

### What the pools keep of Services

`TidyServices_proofs` proves the converse, that MetalLB is left with nothing no Service uses:

| Theorem | Property | Under |
|---|---|---|
| `StoredUseThePools` | `PooledIsStored` | `TidyLast` |

`TidyLast` is the second case of `PoolsLast` (LoadBalancers, one request at a time, fresh
reads, no failing calls) with zones that share no address. Each part is needed: a call that
fails, or a rejection after the pool has been changed, leaves an address there; two deletes
at once each find the address in use by the other; and with an address in two zones a
removal leaves it in one because a Service of the other lists it. The constants of
`serial_sharing` and `serial_moves`, which check the property, satisfy `TidyLast`.

The inductive invariant is `TInv` (`TidyInvariance`). When no request is in progress it is
the property. While one is, `Accounted` says that an address of a pool is listed by another
stored Service, by the new version of the Service if it may have been put in (`Given`), or
by the old one unless it has been taken out (`Taken`). This needs two more facts. An update
that has yet to take addresses out still finds all of the old ones there (`UpdateTidy`), so
that the two Verify reads before the removal do not skip it: this is where `PInv` is used.
And the removal under way takes exactly the addresses the new version gives up, finds in use
only what another Service lists, and does not fail (`Removes`).

### What IPAM keeps of Services

`FreedAddresses_proofs` proves the converse of `StoredStayBound`: no address is leaked.

| Theorem | Property | Under |
|---|---|---|
| `NothingStaysBound` | `BoundIsStored` | `NothingLeft` |

`NothingLeft` asks for LoadBalancers, one request at a time, fresh reads and no failing calls
(the second case of `PoolsLast`), for `BindingsLast` and `SecretsLast`, for parameters
that parse, and that no Service asks for both families at once. A release that fails is only
logged, so each of these matters: a call that fails,
a crash or a rejection leaves bound what the handler had just bound; a pool that refuses a
create leaves its addresses bound, since nothing gives them back at that point; a retention
period that does not parse keeps the release from being sent (`malformed`), and so does the
prefix that `Default` would release when the IPv6 request of a dual stack fails
(`UndoV4`), which a Service of one family never comes to (`DefaultFrugal`); and when another
Service changes the secret of a shared address, IPAM refuses the release. The constants of
`serial_sharing` and `serial_moves`, which check the property, satisfy `NothingLeft`; a Service may list two addresses there, of one or both families,
when its user writes them.

The inductive invariant is `FInv` (`FreedInvariance`). When no request is in progress it is
the property. While one is, `Frugal` says of what IPAM has bound to the Service beyond the
stored version (`Extra`) that the handler will store it or give it back, and that it can:
the release it would send names the zone and the secret the address is held under
(`Freeable`). Where the code gives back less than everything, this needs reasons:

- `ValidateUpdate`, refused an address, gives back the first of the new ones only
  (`undo_first`). That is enough, because a Service lists at most one address per family
  (`AtMostTwo`), and addresses are bound in the order in which they are listed (`InOrder`):
  before the handler by `Default`, and by the loop in the handler. When the second is
  refused, only the first can be bound.
- Nothing is given back when the pool refuses a create; but the pool does not
  (`AddSucceeds`), with one request and no failing call.
- The revert of a secret change that IPAM refuses is not reached: with no call failing the
  change is granted, because the stored version is bound under its own secret. This,
  and that the release of old addresses names the right secret, uses `BInv`.

There is one lemma per action again; `CleanStep` is the frame: a step that only binds or
frees for its own Service keeps what the invariant says of the others.

### What is model-checked only

Liveness (`EveryRequestAnswered`, `DenialsEnd`) stays with TLC: the prover does not do
fairness. `DeletedWasEmptied` is false, so there is nothing to prove.

## Not modelled

- `cmd/main.go` and the wiring in `service_webhook.go`: flags, TLS, certificate watchers,
  metrics, health probes and the registration of the handlers. Start-up code with no state
  of its own and no step after it.
- The chart and `config/`: configuration. Failure policy, operations and timeouts are what
  the model's API server does.
- `GetCustomSecret`, `ValidIpAddressFamiliy` and `ValidateAnnotations`: they read and
  refuse; their refusals are outcomes of `EntryFails`. `EqualSlice` and
  `GetIpAddressesInPool` are unused.
- The HTTP and JSON layers of the IPAM client, log lines, and the `metallb.io/*`
  annotations, which the handlers write and never read.
- The tests, which are the scaffolding of kubebuilder. MetalLB's own behaviour, retention
  periods and IPAM's own cleanup, which are other programs.

## Plan

Done, in this order: `IpPool` and its proofs, `IpamApi`, `ServiceWebhook`, `DefaultSecret`
with `WriteOnce` and its proofs, `AtomicPools` and the proof of its refinement,
`ServiceWebhook_proofs`, `StoredServices_proofs`, `PooledServices_proofs`,
`TidyServices_proofs`, `FreedAddresses_proofs`.

An abstract ledger for the whole of `ServiceWebhook` (an address has owners, a Service is
admitted with its addresses owned and announced) was considered and dropped: under the
conditions in which it holds it would restate `StoredIsBound` and `BoundIsStored`, and
outside of them the code does not implement it.

What remains:

1. `PrefixSlicesDiff` and `UpdateAddressAnnotation` as pure operators against a reference
   definition, over bounded sequences.
2. A run for a LoadBalancer without ingress that becomes a ClusterIP, should the repository
   come to say what happens to its addresses.
