----------------------------- MODULE Southbound -----------------------------
(***************************************************************************)
(* The southbound target registry of onos-config (pkg/southbound, the     *)
(* file src/unnamed/part_001): the global map `targets` guarded by the    *)
(* RWMutex `targetMu`, and the Target objects, each holding a gNMI client *)
(* `clt` and a destination `dest` guarded by the Target's own mutex `mu`.  *)
(*                                                                         *)
(* Goroutines (Procs) call ConnectTarget, GetTarget, Close, and, on a      *)
(* target GetTarget returned, the unary RPCs (Capabilities/Get/Set) and    *)
(* Subscribe.  A step of the model is one stretch of code that runs        *)
(* without interference: a critical section of `mu` or of `targetMu`, or  *)
(* one unlocked access to shared state.  The write side of `targetMu` is   *)
(* split in two steps because the map assignment it protects races with    *)
(* the unlocked iteration of the map in GetTarget.                         *)
(***************************************************************************)
EXTENDS Naturals, FiniteSets

CONSTANTS
    Procs,        \* goroutines calling into the package
    Targets,      \* Target objects the callers hold (model values)
    Keys,         \* device VersionedIDs
    Addrs,        \* device addresses (Destination.Addrs/Target/Timeout)
    Secs,         \* resolved security bundles (Destination.TLS/Credentials)
    Devices,      \* device descriptors: [key: Keys, addr: Addrs, sec: Secs]
    MaxClients,   \* bound on gNMI clients opened by GnmiClientFactory
    NULL          \* nil

ASSUME ConstantsAssumption ==
    /\ MaxClients \in Nat
    /\ Devices \subseteq [key: Keys, addr: Addrs, sec: Secs]
    /\ NULL \notin Targets \cup (1..MaxClients) \cup [addr: Addrs, sec: Secs]

Clients == 1..MaxClients

\* A Destination: what createDestination builds from a device descriptor.
Dests == [addr: Addrs, sec: Secs]

\* createDestination (part_001:50-96) with the TLS/credential policy
\* abstracted to the bundle `sec`; CertResolver models that policy.
createDestination(d) == [addr |-> d.addr, sec |-> d.sec]

\* The VersionedID createDestination returns alongside the destination.
deviceKey(d) == d.key

\* Why the process died: Go's runtime aborts the whole program.
Fatal == {"none", "concurrentMapIteration", "nilClient"}

VARIABLES
    targets,   \* the global map targets: VersionedID -> Target (NULL: absent)
    writer,    \* goroutine inside the targetMu write section, or NULL
    clt,       \* target.clt
    dest,      \* target.dest
    held,      \* history: every destination target.dest has held
    nOpened,   \* number of clients GnmiClientFactory has opened
    opened,    \* the destination each opened client was dialled with
    closed,    \* clients on which Close has been called
    fatal,     \* "none" while the program runs
    pc,        \* per goroutine: where it is in its current call
    tgt,       \* per goroutine: the Target it operates on
    dev,       \* per goroutine: ConnectTarget's device argument
    cl,        \* per goroutine: the client value it holds (c, or Client())
    qry        \* per goroutine: the Destination fields Subscribe copied

vars == <<targets, writer, clt, dest, held, nOpened, opened, closed, fatal,
          pc, tgt, dev, cl, qry>>

PCs == {"idle", "dial", "commit", "publish", "publishEnd", "notFound",
        "use", "rpc", "subSec", "subscribe", "closeCall"}

TypeOK ==
    /\ targets \in [Keys -> Targets \cup {NULL}]
    /\ writer \in Procs \cup {NULL}
    /\ clt \in [Targets -> Clients \cup {NULL}]
    /\ dest \in [Targets -> Dests \cup {NULL}]
    /\ held \in [Targets -> SUBSET Dests]
    /\ nOpened \in 0..MaxClients
    /\ opened \in [Clients -> Dests \cup {NULL}]
    /\ closed \subseteq Clients
    /\ fatal \in Fatal
    /\ pc \in [Procs -> PCs]
    /\ tgt \in [Procs -> Targets \cup {NULL}]
    /\ dev \in [Procs -> Devices \cup {NULL}]
    /\ cl \in [Procs -> Clients \cup {NULL}]
    /\ qry \in [Procs -> [addr: Addrs \cup {NULL}, sec: Secs \cup {NULL}]]

NoQuery == [addr |-> NULL, sec |-> NULL]

Init ==
    /\ targets = [k \in Keys |-> NULL]
    /\ writer = NULL
    /\ clt = [t \in Targets |-> NULL]
    /\ dest = [t \in Targets |-> NULL]
    /\ held = [t \in Targets |-> {}]
    /\ nOpened = 0
    /\ opened = [c \in Clients |-> NULL]
    /\ closed = {}
    /\ fatal = "none"
    /\ pc = [p \in Procs |-> "idle"]
    /\ tgt = [p \in Procs |-> NULL]
    /\ dev = [p \in Procs |-> NULL]
    /\ cl = [p \in Procs |-> NULL]
    /\ qry = [p \in Procs |-> NoQuery]

Shared == <<targets, writer, clt, dest, held, nOpened, opened, closed, fatal>>

(***************************************************************************)
(* ConnectTarget (part_001:116-140).                                       *)
(***************************************************************************)

\* The caller invokes target.ConnectTarget(ctx, device).
ConnectTarget(p, t, d) ==
    /\ pc[p] = "idle"
    /\ pc' = [pc EXCEPT ![p] = "dial"]
    /\ tgt' = [tgt EXCEPT ![p] = t]
    /\ dev' = [dev EXCEPT ![p] = d]
    /\ UNCHANGED <<Shared, cl, qry>>

\* Mutant of Dial: the early return on a factory error is missing, so the
\* nil client is committed and published.
DialNoReturn(p) ==
    /\ pc[p] = "dial"
    /\ \/ /\ nOpened < MaxClients
          /\ nOpened' = nOpened + 1
          /\ opened' = [opened EXCEPT ![nOpened + 1] = createDestination(dev[p])]
          /\ cl' = [cl EXCEPT ![p] = nOpened + 1]
       \/ /\ cl' = [cl EXCEPT ![p] = NULL]
          /\ UNCHANGED <<nOpened, opened>>
    /\ pc' = [pc EXCEPT ![p] = "commit"]
    /\ UNCHANGED <<targets, writer, clt, dest, held, closed, fatal, tgt, dev, qry>>

\* createDestination, then GnmiClientFactory dials with no lock held.  On
\* failure the call returns its error and nothing shared has changed.
Dial(p) ==
    /\ pc[p] = "dial"
    /\ \/ /\ nOpened < MaxClients
          /\ nOpened' = nOpened + 1
          /\ opened' = [opened EXCEPT ![nOpened + 1] = createDestination(dev[p])]
          /\ cl' = [cl EXCEPT ![p] = nOpened + 1]
          /\ pc' = [pc EXCEPT ![p] = "commit"]
          /\ UNCHANGED <<tgt, dev>>
       \/ /\ pc' = [pc EXCEPT ![p] = "idle"]
          /\ tgt' = [tgt EXCEPT ![p] = NULL]
          /\ dev' = [dev EXCEPT ![p] = NULL]
          /\ UNCHANGED <<nOpened, opened, cl>>
    /\ UNCHANGED <<targets, writer, clt, dest, held, closed, fatal, qry>>

\* Mutant of Commit: the previous client is replaced without being closed.
CommitNoClose(p) ==
    LET t == tgt[p] IN
    /\ pc[p] = "commit"
    /\ clt' = [clt EXCEPT ![t] = cl[p]]
    /\ dest' = [dest EXCEPT ![t] = createDestination(dev[p])]
    /\ held' = [held EXCEPT ![t] = @ \cup {createDestination(dev[p])}]
    /\ pc' = [pc EXCEPT ![p] = "publish"]
    /\ cl' = [cl EXCEPT ![p] = NULL]
    /\ UNCHANGED <<targets, writer, nOpened, opened, closed, fatal, tgt, dev, qry>>

\* Mutant of Commit: target.dest is left as it was.
CommitKeepDest(p) ==
    LET t == tgt[p] IN
    /\ pc[p] = "commit"
    /\ closed' = IF clt[t] # NULL THEN closed \cup {clt[t]} ELSE closed
    /\ clt' = [clt EXCEPT ![t] = cl[p]]
    /\ pc' = [pc EXCEPT ![p] = "publish"]
    /\ cl' = [cl EXCEPT ![p] = NULL]
    /\ UNCHANGED <<targets, writer, dest, held, nOpened, opened, fatal, tgt, dev, qry>>

\* The target.mu critical section: close the previous client if there is
\* one (its error is ignored), then install dest and the new client.
Commit(p) ==
    LET t == tgt[p] IN
    /\ pc[p] = "commit"
    /\ closed' = IF clt[t] # NULL THEN closed \cup {clt[t]} ELSE closed
    /\ clt' = [clt EXCEPT ![t] = cl[p]]
    /\ dest' = [dest EXCEPT ![t] = createDestination(dev[p])]
    /\ held' = [held EXCEPT ![t] = @ \cup {createDestination(dev[p])}]
    /\ pc' = [pc EXCEPT ![p] = "publish"]
    /\ cl' = [cl EXCEPT ![p] = NULL]
    /\ UNCHANGED <<targets, writer, nOpened, opened, fatal, tgt, dev, qry>>

\* targetMu.Lock(): the map assignment begins.
Publish(p) ==
    /\ pc[p] = "publish"
    /\ writer = NULL
    /\ writer' = p
    /\ pc' = [pc EXCEPT ![p] = "publishEnd"]
    /\ UNCHANGED <<targets, clt, dest, held, nOpened, opened, closed, fatal,
                   tgt, dev, cl, qry>>

\* targets[key] = target; targetMu.Unlock(); return key.
PublishEnd(p) ==
    /\ pc[p] = "publishEnd"
    /\ targets' = [targets EXCEPT ![deviceKey(dev[p])] = tgt[p]]
    /\ writer' = NULL
    /\ pc' = [pc EXCEPT ![p] = "idle"]
    /\ tgt' = [tgt EXCEPT ![p] = NULL]
    /\ dev' = [dev EXCEPT ![p] = NULL]
    /\ UNCHANGED <<clt, dest, held, nOpened, opened, closed, fatal, cl, qry>>

(***************************************************************************)
(* GetTarget (part_001:99-111).                                            *)
(***************************************************************************)

\* The read-locked lookup.  A hit returns the target to the caller.
GetTarget(p, k) ==
    /\ pc[p] \in {"idle", "use"}
    /\ writer = NULL
    /\ IF targets[k] # NULL
         THEN /\ pc' = [pc EXCEPT ![p] = "use"]
              /\ tgt' = [tgt EXCEPT ![p] = targets[k]]
         ELSE /\ pc' = [pc EXCEPT ![p] = "notFound"]
              /\ tgt' = [tgt EXCEPT ![p] = NULL]
    /\ UNCHANGED <<Shared, dev, cl, qry>>

\* A miss ranges over `targets` with no lock held.  If a ConnectTarget is
\* inside its map assignment, Go's runtime may detect the concurrent
\* iteration and abort the program; otherwise the NotFound error is built.
NotFound(p) ==
    /\ pc[p] = "notFound"
    /\ \/ /\ writer # NULL
          /\ fatal' = "concurrentMapIteration"
          /\ UNCHANGED pc
       \/ /\ pc' = [pc EXCEPT ![p] = "idle"]
          /\ UNCHANGED fatal
    /\ UNCHANGED <<targets, writer, clt, dest, held, nOpened, opened, closed,
                   tgt, dev, cl, qry>>

\* The caller drops the target GetTarget gave it.
Release(p) ==
    /\ pc[p] = "use"
    /\ pc' = [pc EXCEPT ![p] = "idle"]
    /\ tgt' = [tgt EXCEPT ![p] = NULL]
    /\ UNCHANGED <<Shared, dev, cl, qry>>

(***************************************************************************)
(* Unary RPCs on a registered target: Capabilities, Get, Set and their    *)
(* string forms (part_001:171-231).  Client() reads clt under mu.RLock;    *)
(* the RPC then runs on that client with no lock held.                     *)
(***************************************************************************)

\* The unary calls, and the forms of request they take: a structured
\* request, or a string that is empty, unparsable, or a valid text proto.
UnaryOps == {"Capabilities", "Get", "Set"}
Requests == {"structured", "empty", "unparsable", "text"}

\* GetWithString and SetWithString reject an empty string, and every
\* *WithString rejects an unparsable one, with an error and before
\* Client() is called; such a call changes no state (a stutter step).
\* CapabilitiesWithString accepts "" as the empty CapabilityRequest.
Accepted(op, req) ==
    /\ req # "unparsable"
    /\ req = "empty" => op = "Capabilities"

\* An accepted request reaches target.Client() (part_001:268-272).
Client(p, op, req) ==
    /\ pc[p] = "use"
    /\ Accepted(op, req)
    /\ cl' = [cl EXCEPT ![p] = clt[tgt[p]]]
    /\ pc' = [pc EXCEPT ![p] = "rpc"]
    /\ UNCHANGED <<Shared, tgt, dev, qry>>

\* The RPC itself; on a closed client it fails with a transport error,
\* which is returned to the caller.
Rpc(p) ==
    /\ pc[p] = "rpc"
    /\ pc' = [pc EXCEPT ![p] = "use"]
    /\ cl' = [cl EXCEPT ![p] = NULL]
    /\ UNCHANGED <<Shared, tgt, dev, qry>>

(***************************************************************************)
(* Subscribe (part_001:234-255): copies the fields of target.dest, read   *)
(* through Destination() with no lock, into a new query, and subscribes on *)
(* a throw-away client of its own.                                         *)
(***************************************************************************)

\* q.Addrs, q.Timeout, q.Target from target.Destination().
SubAddr(p) ==
    /\ pc[p] = "use"
    /\ qry' = [qry EXCEPT ![p].addr = dest[tgt[p]].addr]
    /\ pc' = [pc EXCEPT ![p] = "subSec"]
    /\ UNCHANGED <<Shared, tgt, dev, cl>>

\* q.Credentials, q.TLS from target.Destination().
SubSec(p) ==
    /\ pc[p] = "subSec"
    /\ qry' = [qry EXCEPT ![p].sec = dest[tgt[p]].sec]
    /\ pc' = [pc EXCEPT ![p] = "subscribe"]
    /\ UNCHANGED <<Shared, tgt, dev, cl>>

\* GnmiBaseClientFactory().Subscribe(ctx, q, "gnmi") with the query.
SubCall(p) ==
    /\ pc[p] = "subscribe"
    /\ qry' = [qry EXCEPT ![p] = NoQuery]
    /\ pc' = [pc EXCEPT ![p] = "use"]
    /\ UNCHANGED <<Shared, tgt, dev, cl>>

(***************************************************************************)
(* Close (part_001:275-277): target.Client().Close() on a Target the       *)
(* caller holds, registered or not.  clt is not reset.                     *)
(***************************************************************************)

\* target.Client() inside Close.
CloseTarget(p, t) ==
    /\ pc[p] = "idle"
    /\ cl' = [cl EXCEPT ![p] = clt[t]]
    /\ tgt' = [tgt EXCEPT ![p] = t]
    /\ pc' = [pc EXCEPT ![p] = "closeCall"]
    /\ UNCHANGED <<Shared, dev, qry>>

\* Mutant of CloseCall: the value read is closed whether or not it is nil.
CloseCallUnchecked(p) ==
    /\ pc[p] = "closeCall"
    /\ closed' = closed \cup {cl[p]}
    /\ pc' = [pc EXCEPT ![p] = "idle"]
    /\ cl' = [cl EXCEPT ![p] = NULL]
    /\ tgt' = [tgt EXCEPT ![p] = NULL]
    /\ UNCHANGED <<targets, writer, clt, dest, held, nOpened, opened, dev, qry, fatal>>

\* .Close() on the value read: a nil interface makes the call panic.
CloseCall(p) ==
    /\ pc[p] = "closeCall"
    /\ \/ /\ cl[p] = NULL
          /\ fatal' = "nilClient"
          /\ UNCHANGED <<pc, closed, cl, tgt>>
       \/ /\ cl[p] # NULL
          /\ closed' = closed \cup {cl[p]}
          /\ pc' = [pc EXCEPT ![p] = "idle"]
          /\ cl' = [cl EXCEPT ![p] = NULL]
          /\ tgt' = [tgt EXCEPT ![p] = NULL]
          /\ UNCHANGED fatal
    /\ UNCHANGED <<targets, writer, clt, dest, held, nOpened, opened, dev, qry>>

(***************************************************************************)
(* A program Go's runtime aborted takes no further step.                   *)
(***************************************************************************)
Halted ==
    /\ fatal # "none"
    /\ UNCHANGED vars

\* The steps a goroutine takes inside a call it has made.
Step(p) ==
    \/ Dial(p) \/ Commit(p) \/ Publish(p) \/ PublishEnd(p) \/ NotFound(p)
    \/ Rpc(p) \/ SubSec(p) \/ SubCall(p) \/ CloseCall(p)

\* The calls a goroutine may make, as its caller decides.
Call(p) ==
    \/ \E t \in Targets, d \in Devices : ConnectTarget(p, t, d)
    \/ \E k \in Keys : GetTarget(p, k)
    \/ \E t \in Targets : CloseTarget(p, t)
    \/ \E op \in UnaryOps, req \in Requests : Client(p, op, req)
    \/ Release(p) \/ SubAddr(p)

Next ==
    \/ /\ fatal = "none"
       /\ \E p \in Procs : Call(p) \/ Step(p)
    \/ Halted

\* Callers are free: any goroutine may make any call at any time.
Spec == Init /\ [][Next]_vars

-----------------------------------------------------------------------------
(***************************************************************************)
(* Properties.                                                             *)
(***************************************************************************)

\* GetTarget only ever hands out a connected target: every Target in the
\* registry has a client and a destination.  ConnectTarget relies on
\* committing under target.mu before it publishes under targetMu, and on
\* returning early when GnmiClientFactory fails.
RegisteredTargetConnected ==
    \A k \in Keys : targets[k] # NULL =>
        /\ clt[targets[k]] # NULL
        /\ dest[targets[k]] # NULL

\* No opened client is silently dropped by a reconnect of its Target: each
\* is closed, or is some target's current client, or is still on its way
\* from GnmiClientFactory to ConnectTarget's commit.  This is the
\* "loser's client is closed at commit time" promise for concurrent
\* ConnectTarget calls on one Target.
ClientAccounted ==
    \A c \in 1..nOpened :
        \/ c \in closed
        \/ \E t \in Targets : clt[t] = c
        \/ \E p \in Procs : pc[p] = "commit" /\ cl[p] = c

\* A target's destination is the one its current client was dialled with,
\* whatever the order in which concurrent ConnectTarget calls commit:
\* unary RPCs (through clt) and Subscribe (through dest) reach one device.
DestMatchesClient ==
    \A t \in Targets : clt[t] # NULL => dest[t] = opened[clt[t]]

\* GetTarget of an unknown key returns NotFound and never crashes the
\* program, whatever ConnectTarget calls run meanwhile (spec section 8).
LookupNeverPanics == fatal # "concurrentMapIteration"

\* Close may be called on a Target with no client set (spec section 4.3:
\* "idempotent-safe to call even if no client is set").
CloseNeverPanics == fatal # "nilClient"

\* The query Subscribe builds carries a destination the target really held,
\* never the address of one connect with the TLS/credentials of another
\* (spec 4.3: accessors read under the session lock; section 5: no
\* half-updated state is observed).
SubscribeQueryConsistent ==
    \A p \in Procs : pc[p] = "subscribe" => qry[p] \in held[tgt[p]]

\* Connecting a device closes the previous client of the session registered
\* for its key (spec 4.4 and section 8: connecting twice leaves exactly one
\* close of the first client and only the second in the registry): every
\* opened client is closed, reachable through the registry, or held by a
\* ConnectTarget that has not yet published.
RegistryClientsAccounted ==
    \A c \in 1..nOpened :
        \/ c \in closed
        \/ \E k \in Keys : targets[k] # NULL /\ clt[targets[k]] = c
        \/ \E p \in Procs : pc[p] = "commit" /\ cl[p] = c
        \/ \E p \in Procs : pc[p] \in {"publish", "publishEnd"} /\ clt[tgt[p]] = c

-----------------------------------------------------------------------------
(***************************************************************************)
(* The inductive strengthening of RegisteredTargetConnected (and of        *)
(* TypeOK, which is not inductive alone: Subscribe reads dest of the       *)
(* target it holds).  A goroutine past its commit, or holding a target     *)
(* from GetTarget, holds a connected Target; one about to commit holds a   *)
(* client.                                                                 *)
(***************************************************************************)

\* The Target has a client and a destination.
Connected(t) == clt[t] # NULL /\ dest[t] # NULL

\* What goroutine p holds at its program counter.
LocalsOK(p) ==
    /\ pc[p] \in {"dial", "commit", "publish", "publishEnd"} =>
           tgt[p] \in Targets /\ dev[p] \in Devices
    /\ pc[p] = "commit" => cl[p] \in Clients
    /\ pc[p] \in {"publish", "publishEnd", "use", "rpc", "subSec", "subscribe"} =>
           tgt[p] \in Targets /\ Connected(tgt[p])

LocalsConsistent == \A p \in Procs : LocalsOK(p)

IInv ==
    /\ TypeOK
    /\ RegisteredTargetConnected
    /\ LocalsConsistent

(***************************************************************************)
(* The strengthening behind ClientAccounted, DestMatchesClient and the     *)
(* refinement: what a goroutine between dial and commit, and one about to *)
(* close, holds, and that every current client has been opened.           *)
(***************************************************************************)

\* A goroutine about to commit holds a client it opened itself, dialled for
\* the destination it is about to install.
PendingOK ==
    \A p \in Procs : pc[p] = "commit" =>
        /\ cl[p] \in 1..nOpened
        /\ opened[cl[p]] = createDestination(dev[p])

\* No two goroutines are about to commit the same client.
PendingDistinct ==
    \A p, q \in Procs :
        p # q /\ pc[p] = "commit" /\ pc[q] = "commit" => cl[p] # cl[q]

\* Every Target's current client has been opened.
CurrentOpened == \A t \in Targets : clt[t] # NULL => clt[t] \in 1..nOpened

\* A goroutine holding a client it read through Client() (a unary RPC in
\* flight, or Close about to close it) holds its Target's current client or
\* one already closed: a reconnect that commits meanwhile closes the client
\* the RPC runs on (which then fails with a transport error), and never
\* leaves it open and unowned.  Spec section 5: a unary call observes the
\* old or the new client, and the loser's client is always closed.
InUseClientCurrent ==
    \A p \in Procs : pc[p] \in {"rpc", "closeCall"} /\ cl[p] # NULL =>
        /\ tgt[p] \in Targets
        /\ cl[p] = clt[tgt[p]] \/ cl[p] \in closed

RInv ==
    /\ IInv
    /\ PendingOK
    /\ PendingDistinct
    /\ CurrentOpened
    /\ InUseClientCurrent
    /\ ClientAccounted
    /\ DestMatchesClient

-----------------------------------------------------------------------------
(***************************************************************************)
(* Refinement: Southbound implements the atomic registry of                *)
(* ConnectionRegistry.  A client joins the abstract `used` when its        *)
(* ConnectTarget commits it (a client between dial and commit is not yet   *)
(* visible), and its abstract destination is the one it was dialled       *)
(* with.  Commit is the abstract Connect, PublishEnd is Register, and a    *)
(* CloseCall is CloseSession of the Target it read the client from, or a   *)
(* stutter when that client was already closed; every other step,         *)
(* including a failed dial, is a stutter.                                 *)
(***************************************************************************)

\* Clients opened and no longer waiting for their ConnectTarget to commit.
Committed ==
    {c \in 1..nOpened : ~\E p \in Procs : pc[p] = "commit" /\ cl[p] = c}

\* The destination of each committed client.
DialledBar == [c \in Clients |-> IF c \in Committed THEN opened[c] ELSE NULL]

Registry == INSTANCE ConnectionRegistry
    WITH reg <- targets, conn <- clt, destOf <- dest,
         dialled <- DialledBar, used <- Committed, closed <- closed

\* The concurrent ConnectTarget, GetTarget and Close behave as the atomic
\* registry of spec 4.3-4.4: each connect swaps in a fresh client with its
\* destination and closes the one it replaces in a single step, a Target
\* is published only once connected, and Close closes the current client.
RegistrySpec == Registry!Spec

=============================================================================
