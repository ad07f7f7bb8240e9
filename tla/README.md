# TLA+ models of the onos-config southbound core

These modules model the southbound gNMI core of onos-config
(`src/unnamed/part_001`, package `southbound`) and the admin `changes`
command (`src/cmd/admin/changes/changes.go`). Each module is written from the
Go source, and PROJECT.json maps every definition to the lines it models. TLC
checks the models on small instances. TLAPS proves, for every instance, the
registry's invariants, that the registry implements an abstract atomic
registry, and that the changes command exits cleanly only after printing
everything.

## The system

- **Connection registry.** The global map `targets` goes from a device's
  VersionedID to a `Target`, and the RWMutex `targetMu` guards it.
  - `ConnectTarget` runs in four stages:
    1. It resolves a `Destination` (`createDestination`).
    2. It dials through `GnmiClientFactory`, outside every lock.
    3. It commits the new client and destination into the Target under
       `target.mu`, closing the Target's previous client.
    4. It publishes the Target in the map under `targetMu`.
  - `GetTarget` looks up a key under the read lock. On a miss it lists the
    known keys by ranging over the map after releasing the lock.
- **Target session.**
  - `Client()` reads `clt` under `target.mu`.
  - `Destination()` returns `&target.dest` without any lock.
  - `Capabilities/Get/Set` call `Client()` and then the RPC.
  - The `*WithString` forms reject an empty string (Get and Set) or an
    unparsable one before they call anything.
  - `Subscribe` copies the destination field by field into a query and
    subscribes through a throwaway base client.
  - `Close` closes `Client()`.
- **Certificate and credential resolver.** `createDestination`,
  `setCertificate`, `getCertPool` and `getCertPoolDefault` turn a device
  descriptor into TLS settings and credentials.
- **Subscription request builder.** `NewSubscribeRequest` maps
  SubscribeOptions to a gNMI SubscribeRequest.
- **Admin changes CLI.**
  - `main` opens the server stream, starts a reader goroutine, sends
    `CloseSend` and waits on `waitc`.
  - The reader prints changes until `io.EOF`.
  - Every error ends the process through `log.Fatalf`.

## Modules

| module | models | state |
|---|---|---|
| `Southbound` | registry and Target sessions under concurrent goroutines | `targets`, `writer` (the holder of targetMu's write lock); per Target `clt`, `dest`, `held` (every destination the Target has held); client bookkeeping `nOpened`, `opened`, `closed`; `fatal` (a Go runtime abort); per goroutine `pc`, `tgt`, `dev`, `cl`, `qry` |
| `SouthboundProofs` | TLAPS proofs of `TypeOK` and `RegisteredTargetConnected`, through the inductive invariant `IInv` | none |
| `ConnectionRegistry` | the abstract registry: connect, publish and close as atomic steps (spec 3, 4.3, 4.4), with its invariant proved | `reg`, `conn`, `destOf`, `dialled`, `used`, `closed` |
| `RegistryRefinementProofs` | TLAPS proofs, through the inductive invariant `RInv`, of the client and destination properties and of `Southbound` implementing `ConnectionRegistry` | none |
| `CertResolver` | the createDestination policy | the last descriptor and its Destination |
| `CertResolverProofs` | TLAPS proofs of the CertResolver properties for every descriptor | none |
| `SubscribeRequest` | NewSubscribeRequest and a reference builder written from spec 4.5 | the options and the result |
| `SubscribeRequestProofs` | TLAPS proofs about the mode switches and the prefix parse | none |
| `AdminChanges` | changes.go: main, reader goroutine, admin server stream | `mainPc`, `readerPc`, `waitc`, `server`, `sent`, `inflight`, `printed`, `exitCode` |
| `ChangesDisplay` | what the changes command promises, each effect one atomic step: print the next change, exit 0 after io.EOF with everything printed, fail | `stream`, `sent`, `printed`, `exitCode` |
| `AdminChangesProofs` | TLAPS proofs of `CleanExitPrintedAll`, `PrintsNextInOrder`, `TypeOK` and of `AdminChanges` implementing `ChangesDisplay` | none |
| `MC_*` | TLC instances | none |

### Southbound

Goroutines are the set `Procs`. Each is idle or inside a call, at a program
counter, and has the call's locals.

A lock's critical section is one atomic action. The write side of `targetMu`
in `ConnectTarget` is two actions:

- `Publish` takes the lock.
- `PublishEnd` writes the map and unlocks.

The split lets a `GetTarget` miss range over the map while a write is in
progress. `NotFound` is the iteration at part_001:106-109. If a writer holds
the lock at that moment, the Go runtime aborts the process ("concurrent map
iteration and map write"). The model records the abort in `fatal`, and
`Halted` stutters after it.

The action for each piece of code:

| action | code |
|---|---|
| `ConnectTarget` | the start of the call |
| `Dial` | `createDestination` and the factory. A failure returns and touches nothing. Success yields the fresh client `nOpened+1`. |
| `Commit` | lines 125-134 |
| `Publish`, `PublishEnd` | lines 136-138 |
| `GetTarget` | the hit path |
| `NotFound` | the miss path |
| `Client` | `Client()` for an accepted request. `Accepted` encodes the early returns of the string forms. A rejected request changes nothing, so it is a stutter. |
| `Rpc` | the call on the client |
| `SubAddr`, `SubSec` | the two halves of Subscribe's unlocked copy |
| `SubCall` | the subscription itself |
| `CloseTarget`, `CloseCall` | `Close()`. A nil client panics. |
| `Release` | the caller dropping the Target it looked up |

Device descriptors are abstracted to a key, an address and a security part
(`Devices`). `createDestination` keeps the address and the security part.

### ConnectionRegistry and the refinement

`ConnectionRegistry` states what the registry promises with every operation
atomic:

- `Connect(t, c, d)` uses a fresh client `c`, closes the session's previous
  client and installs `c` with destination `d`. All of this is one step.
- `Register(k, t)` publishes a connected session under a key.
- `CloseSession(t)` closes the session's current client.

`Southbound!RegistrySpec` is this specification under a refinement mapping:

- `reg`, `conn` and `destOf` are `targets`, `clt` and `dest`.
- `used` is `Committed`: the opened clients that no goroutine still holds
  at `commit`.
- `dialled` is `DialledBar`: a client's destination once it is committed.

A client counts as connected only when it is committed. This hides the
dial, which takes effect in the abstract state only at `Commit`. The steps
correspond as follows:

- `Commit` is `Connect(tgt[p], cl[p], createDestination(dev[p]))`.
- `PublishEnd` is `Register`.
- `CloseCall` is `CloseSession` when the closed client is current. It is a
  stutter when a reconnect already closed that client.
- Every other step is a stutter.

### CertResolver

The descriptor fields that `createDestination` reads are abstracted:

- `plain` and `insecure` are booleans.
- The CA, certificate and key paths are each empty, `"ok"` (a loadable file)
  or `"bad"` (a file that cannot be read).
- The user and the password are each empty or set.

The result is a TLS record and a credentials tag:

- the TLS record holds enabled, skip-verify, the root CA pool (nil, embedded
  ONF, from file, empty) and the certificates (none, embedded default, the
  device's, a zero certificate from a failed load);
- the credentials tag is none or userpass.

The loaders only log their errors, exactly as the code does.

`createDestination` is an if/else-if cascade: the first branch whose
condition holds is taken. A TLA+ CASE whose guards overlap chooses any true
arm, so the model's guards are made disjoint (`OnlyOneOfPair`,
`GivesCredentials`) to say exactly what the cascade does.

### SubscribeRequest

A caller's string is abstracted to a word and a letter case.

- `ToUpper` keeps the word and makes the case upper.
- An enum's `String()` is its word in upper case.
- The two switches, the prefix parse and the path loop with its early return
  follow the code in order.
- The path parser `utils.ParseGNMIElements` is not in this repository. It is
  modelled from the spec: a path parses, or it fails.
- `Reference` is the builder that spec 4.5 describes, written independently
  of the code, with case-insensitive comparison and the spec's error
  categories.
- The early returns are a chain of IFs: the first failing check decides.
  (A CASE with overlapping guards would let TLA+ pick any true arm.)
- A result is compared with another only through its `err` tag
  (`Returned`, `IsResult`): a request record and the string `NoError`
  are of different types, and TLC refuses to compare them.

### AdminChanges

The admin server is the environment. It sends up to `MaxChanges` changes in
order on one gRPC stream, and the stream is ordered and loses nothing. It then
ends the stream with `io.EOF` or with an error, or keeps it open for ever.
`Fatal` is `log.Fatalf`: the process exits with status 1 at once, whatever the
other goroutine is doing.

`AdminChanges!DisplaySpec` is `ChangesDisplay` under a refinement mapping.
`sent`, `printed` and `exitCode` map to themselves. `stream` is `StreamBar`:

- it is open while the server is;
- after that it is "eof" once the reader has returned, or while io.EOF is
  the last event of the stream;
- otherwise it is "error".

The steps correspond as follows:

- a `Recv` of a change is `PrintNext`;
- `Wait` is `Succeed`;
- every `log.Fatalf` is `Fail`;
- `ServerSend` and `ServerEnd` are `Send` and `End`;
- every other step, among them the `Recv` of io.EOF, is a stutter.

## Runs

| run | cfg | expect | shows |
|---|---|---|---|
| southbound | MC_Southbound.cfg | pass | 2 goroutines, 2 Targets, 1 key, 2 devices under that key, 3 clients. Every opened client is closed, current, or on its way to a commit (`ClientAccounted`). A Target's destination belongs to its current client whatever order concurrent connects commit in (`DestMatchesClient`). A client that an RPC or a Close took from `Client()` is still current or was closed by the reconnect that replaced it (`InUseClientCurrent`). A registered Target is connected (`RegisteredTargetConnected`). The model implements `ConnectionRegistry` (`RegistrySpec`). |
| southbound_lookup_panics | MC_Southbound_LookupNeverPanics.cfg | violation | the map-iteration abort of a GetTarget miss |
| southbound_close_panics | MC_Southbound_CloseNeverPanics.cfg | violation | Close on a Target that never connected panics |
| southbound_subscribe_mixed_destination | MC_Southbound_SubscribeQueryConsistent.cfg | violation | Subscribe builds a query with the address of one connect and the security part of another |
| southbound_registry_leak | MC_Southbound_RegistryClientsAccounted.cfg | violation | a second Target object connected under a registered key drops the first one's client without closing it |
| certresolver | MC_CertResolver.cfg | pass | over all 432 descriptors: a device keypair is used ahead of credentials and the default pair; verification is skipped exactly when asked or in the degraded fallback |
| certresolver_credentials | MC_CertResolver_Credentials.cfg | violation | username and password without certificate paths get the default certificate and no credentials |
| subscribe_request | MC_SubscribeRequest.cfg | pass | NewSubscribeRequest equals the spec's builder on 359,424 option sets, among them lists of two parsed paths and distinct sample and heartbeat intervals, so that path order and the interval pair are observed |
| subscribe_request_error_kind | MC_SubscribeRequest_ModeErrors.cfg | violation | an unknown mode is an untyped fmt error, not InvalidArgument |
| admin_changes | MC_AdminChanges.cfg | pass | exit status 0 only after every change is printed, in order; every print appends exactly the next change sent (`PrintsNextInOrder`, an action property); the command implements `ChangesDisplay` (`DisplaySpec`), which also catches a stream error taken for io.EOF; termination once the server ends the stream |

Why the bounds are enough:

- **Southbound.**
  - Two goroutines and two Targets under one key are the smallest instance
    with each race: concurrent connects on one Target, two Targets behind
    one key, and a lookup racing a connect.
  - Two devices under the key give distinct destinations, so mixed queries
    can be seen.
  - Three clients allow a reconnect while an earlier dial is still in
    flight.
  - `MaxClients` bounds the dials. Once it is reached a dial can only fail.
- **CertResolver and SubscribeRequest.** Each vocabulary holds one value per
  branch the code tells apart: empty, valid and broken paths; every enum name
  and one unknown word, in upper and lower case; zero, one and two paths.
  SubscribeRequest has two paths that parse, so a list of two parsed paths
  has an order a reordered loop would change, and two interval values, so
  that a sample and a heartbeat interval can differ and a swap shows.
- **AdminChanges.** Four changes let the reader fall behind the server and
  `CloseSend` interleave with receives.

Each pass run has one mutant per property (PROJECT.json "mutants"): a
plausible bug in a mapped definition that TLC then reports.

### Fairness

- **Southbound.** No fairness: every property of the Southbound runs is a
  safety property. Whether calls return is not asked. Every handler is
  straight-line code whose only wait is a write lock held for one step, so
  the answer would follow from the model's shape; and `SubCall` returns at
  once, while Subscribe really blocks for the life of the subscription
  (spec 5), which does not matter to the safety properties.
- **AdminChanges.** Weak fairness holds for main's and the reader's steps.
  The server is not fair, because it may keep the stream open.
- **Deadlock.**
  - `MC_SubscribeRequest.cfg` turns off the deadlock check, because the
    builder is one call that returns.
  - `MC_AdminChanges.cfg` turns it off because a blocked process hangs and
    does not stop. `TerminatesWhenStreamEnds` is the property that asks
    whether it hangs for ever.

## Proofs

Every proof holds for all values of the constants under the modules'
assumptions:

- `ConstantsAssumption`: the client bound is a natural number, devices are
  records of a key, an address and a security part, and `NULL` is none of
  the Targets, client handles or destinations.
- `ChangesAssumption`: `MaxChanges \in Nat`.

**SouthboundProofs.**

- `TypeCorrect`: `Spec => []TypeOK`.
- `RegisteredTargetsConnected`: `Spec => []RegisteredTargetConnected`.
- `IInvInvariant`: `Spec => []IInv`. The other two rest on it.

The invariant is `IInv == TypeOK /\ RegisteredTargetConnected /\
LocalsConsistent`. Neither TypeOK nor RegisteredTargetConnected is inductive
alone, for two reasons:

- `Subscribe` reads `dest[tgt[p]]`, so the type of `qry'` depends on the
  Target held being connected.
- `PublishEnd` registers `tgt[p]`, which is connected only because the same
  goroutine committed to it earlier.

`LocalsOK(p)` states what each program counter implies about the
goroutine's locals:

- a goroutine between dial and publish holds a Target and a device;
- at commit it holds a client;
- from publish on, and while using a looked-up Target, that Target is
  connected.

Connectedness is never lost, because only `Commit` writes `clt` and `dest`
and it writes non-null values.

**RegistryRefinementProofs.** `RInvInvariant` proves `Spec => []RInv`. `RInv`
adds the following to `IInv`:

- `PendingOK`: a goroutine at `commit` holds an opened client dialled for
  its device's destination. `DestMatchesClient` needs this after the commit.
- `PendingDistinct`: no two goroutines hold the same pending client.
- `CurrentOpened`: current clients are opened. With `PendingDistinct` this
  makes a freshly dialled client distinct from every other one in use.
- `InUseClientCurrent`: a client taken by `Client()` is current or closed.
- `ClientAccounted` and `DestMatchesClient`.

`ClientsNeverDropped`, `DestinationMatchesClient` and `InUseClientsCurrent`
follow from `RInvInvariant`. `Refinement` proves
`Spec => Southbound!RegistrySpec` in three parts:

- the initial states map to initial states;
- `NextRefines` maps every step, as in the table above;
- PTL combines the two.

`CommittedQuiet` is the lemma that makes the steps other than `Commit`
leave `Committed` unchanged. `RegistryInvariantImplemented` carries
`ConnectionRegistry`'s own proved invariant (`RegistryInvariant`) over to
the implementation.

**AdminChangesProofs.** `CleanExit` proves `Spec => []CleanExitPrintedAll`
for every `MaxChanges`. The inductive invariant `StreamShape` describes the
stream:

- `sent` is `1..n` and `printed` is `1..m`, with `m <= n`;
- the stream holds the changes `m+1..n`, followed, once the server has
  ended it, by exactly one io.EOF or error;
- the reader returns only after the stream has ended and everything was
  printed;
- `waitc` is closed only after the reader has returned;
- exit status 0 needs `waitc` closed.

The proof has one case per action. `Recv` splits on the head of the stream
being io.EOF, an error or a change. An io.EOF at the head means the backlog
is empty, so `printed = sent` holds when the reader closes `waitc`.

**CertResolverProofs.** The spec's only invariant state is `Resolved`: the
destination is `createDestination` of the current descriptor. Each property
is a lemma about `createDestination` over all of `Devices`:

- `CreateDestinationType` for `TypeCorrect`;
- `KeypairPolicy` for `KeypairAlwaysUsed`;
- `SkipVerifyPolicy`, one case per branch of the cascade, for
  `SkipVerifyOnlyWhenAsked`.

Each theorem combines its lemma with `Spec => []Resolved` by PTL.

**AdminChangesProofs** also proves `TypeCorrect` (`Spec => []TypeOK`) and
`PrintsInOrder` (`Spec => PrintsNextInOrder`). `StreamShape` is split into a
sequence part `SeqShape` and a control part `CtlShape` so that each
backend gets the half it can do. The step lemma `NextPrintsNext` uses it:
a print happens only on a change at the head of the stream, and that change
is `Len(printed) + 1`.

`DisplayRefinement` proves `Spec => DisplaySpec` in three parts:

- `InitRefines` maps the initial state;
- `NextRefines` maps every step, as in the table of the AdminChanges
  section;
- PTL combines the two.

The mapping reads how the stream ended from its last event. `StreamShape`
does not say that this event is still there, so the step proof rests on
`DInv == ACInv /\ EndMarker`. `EndMarker` says that an ended stream keeps
its end marker until the reader returns: only a `Recv` of io.EOF consumes
it, and `log.Fatalf` consumes nothing. `RecvChangeKeepsEnd` uses it to
show that a print leaves `StreamBar` unchanged. TLC checked `DInv` on the
run's instance before it was proved.

**SubscribeRequestProofs.** This module proves what `NewSubscribeRequest`
decides before its path loop, for every vocabulary and every number of
paths:

- `ModeOfResolves` and `StreamModeOfResolves`: each switch equals section
  4.5's case-insensitive `Resolve` with its default for the empty string.
- `HeaderAsSpecified`: `Spec => []HeaderMatchesReference`. It rests on
  `Built`: the result is pending or is what `NewSubscribeRequest` returns.
  - An unknown mode or stream mode fails the build, whatever the paths.
  - With known modes, a bad prefix fails it with the parser's error.
  - A request carries the resolved mode, `UpdatesOnly` and the parsed
    prefix.

What the loop puts in `subs` is not in the theorem: see below.

What stays with TLC:

- Liveness (`TerminatesWhenStreamEnds`). It needs ENABLED and
  fairness, which the prover does not handle.
- `SubscribeRequest` (`TypeOK`, `BuildMatchesReference`). What the path
  loop `subscriptionsLoop` computes for every input is an induction over
  data, which the provers cannot instantiate.

## Not modelled

- `NewTargetItem` (an unlocked map write that nothing in the repository
  calls).
- `Context()` (it returns a pointer and changes nothing).
- Timeouts and the `Target` name field. Nothing branches on them in this
  code.
- The gNMI wire protocol and the response contents.
- The test helpers in `part_000` and `clientManager_test.go`.

## Plan for the next sittings

1. Add liveness for the refinement: a connect that dials successfully
   eventually makes its client current or closed.
2. Model a lost or failed server stream in AdminChanges with a timeout,
   if the command ever gains one.
