-------------------------- MODULE SouthboundProofs --------------------------
(***************************************************************************)
(* Proofs about the southbound registry (Southbound) for every value of    *)
(* the constants: the type invariant and RegisteredTargetConnected, from    *)
(* the inductive invariant IInv.                                           *)
(***************************************************************************)
EXTENDS Southbound, TLAPS

\* The result of createDestination is a Destination, and not nil.
LEMMA CreateDestinationType ==
    ASSUME NEW d \in Devices
    PROVE  createDestination(d) \in Dests /\ createDestination(d) # NULL
BY ConstantsAssumption DEF createDestination, Dests

USE ConstantsAssumption

\* Initially no goroutine is in a call and nothing is registered.
LEMMA InitIInv == Init => IInv
<1> SUFFICES ASSUME Init PROVE IInv
  OBVIOUS
<1>1. qry \in [Procs -> [addr: Addrs \cup {NULL}, sec: Secs \cup {NULL}]]
  BY DEF Init, NoQuery
<1>2. TypeOK
  BY <1>1 DEF Init, TypeOK, Fatal, PCs, Clients
<1>3. QED
  BY <1>2 DEF Init, IInv, RegisteredTargetConnected, LocalsConsistent, LocalsOK

\* Every step keeps IInv: one case per action, and under it one step per
\* conjunct of IInv.
LEMMA NextIInv == IInv /\ [Next]_vars => IInv'
<1> SUFFICES ASSUME IInv, [Next]_vars PROVE IInv'
    OBVIOUS
<1> USE DEF Clients
<1>1. ASSUME NEW p \in Procs, NEW t \in Targets, NEW d \in Devices, ConnectTarget(p, t, d)
      PROVE  IInv'
  <2>1. TypeOK'
    <3>1. pc' \in [Procs -> PCs]
      BY <1>1 DEF IInv, ConnectTarget, TypeOK, LocalsConsistent, LocalsOK, Connected, PCs
    <3>2. tgt' \in [Procs -> Targets \cup {NULL}]
      BY <1>1 DEF IInv, ConnectTarget, TypeOK, LocalsConsistent, LocalsOK, Connected
    <3>3. dev' \in [Procs -> Devices \cup {NULL}]
      BY <1>1 DEF IInv, ConnectTarget, TypeOK, LocalsConsistent, LocalsOK, Connected
    <3>4. UNCHANGED <<targets, writer, clt, dest, held, nOpened, opened, closed, fatal, cl, qry>>
      BY <1>1 DEF ConnectTarget, Shared
    <3>5. QED
      BY <3>1, <3>2, <3>3, <3>4 DEF IInv, TypeOK
  <2>2. RegisteredTargetConnected'
    BY <1>1 DEF IInv, ConnectTarget, Shared, TypeOK, RegisteredTargetConnected
  <2>3. LocalsConsistent'
    BY <1>1 DEF IInv, ConnectTarget, Shared, TypeOK, LocalsConsistent, LocalsOK, Connected
  <2>4. QED
    BY <2>1, <2>2, <2>3 DEF IInv
<1>2. ASSUME NEW p \in Procs, Dial(p)
      PROVE  IInv'
  <2>1. TypeOK'
    <3>1. nOpened' \in 0..MaxClients
      BY <1>2 DEF IInv, Dial, TypeOK, LocalsConsistent, LocalsOK, Connected
    <3>2. opened' \in [Clients -> Dests \cup {NULL}]
      <4>1. dev[p] \in Devices
        BY <1>2 DEF IInv, LocalsConsistent, LocalsOK, Dial
      <4>2. createDestination(dev[p]) \in Dests
        BY <4>1, CreateDestinationType
      <4>3. QED
        BY <1>2, <4>2 DEF IInv, TypeOK, Dial
    <3>3. cl' \in [Procs -> Clients \cup {NULL}]
      BY <1>2 DEF IInv, Dial, TypeOK, LocalsConsistent, LocalsOK, Connected
    <3>4. pc' \in [Procs -> PCs]
      BY <1>2 DEF IInv, Dial, TypeOK, LocalsConsistent, LocalsOK, Connected, PCs
    <3>5. tgt' \in [Procs -> Targets \cup {NULL}]
      BY <1>2 DEF IInv, Dial, TypeOK, LocalsConsistent, LocalsOK, Connected
    <3>6. dev' \in [Procs -> Devices \cup {NULL}]
      BY <1>2 DEF IInv, Dial, TypeOK, LocalsConsistent, LocalsOK, Connected
    <3>7. UNCHANGED <<targets, writer, clt, dest, held, closed, fatal, qry>>
      BY <1>2 DEF Dial, Shared
    <3>8. QED
      BY <3>1, <3>2, <3>3, <3>4, <3>5, <3>6, <3>7 DEF IInv, TypeOK
  <2>2. RegisteredTargetConnected'
    BY <1>2, CreateDestinationType DEF IInv, Dial, Shared, TypeOK, RegisteredTargetConnected
  <2>3. LocalsConsistent'
    <3> SUFFICES ASSUME NEW q \in Procs PROVE LocalsOK(q)'
      BY DEF LocalsConsistent
    <3>1. CASE q = p
      BY <1>2, <3>1 DEF IInv, Dial, TypeOK, RegisteredTargetConnected, LocalsConsistent,
                         LocalsOK, Connected
    <3>2. CASE q # p
      BY <1>2, <3>2 DEF IInv, Dial, TypeOK, LocalsConsistent, LocalsOK, Connected
    <3>3. QED
      BY <3>1, <3>2
  <2>4. QED
    BY <2>1, <2>2, <2>3 DEF IInv
<1>3. ASSUME NEW p \in Procs, Commit(p)
      PROVE  IInv'
  <2>1. TypeOK'
    <3>1. closed' \in SUBSET Clients
      BY <1>3 DEF IInv, Commit, TypeOK, LocalsConsistent, LocalsOK, Connected, Dests
    <3>2. clt' \in [Targets -> Clients \cup {NULL}]
      BY <1>3 DEF IInv, Commit, TypeOK, LocalsConsistent, LocalsOK, Connected, Dests
    <3>3. dest' \in [Targets -> Dests \cup {NULL}]
      BY <1>3, CreateDestinationType DEF IInv, Commit, TypeOK, LocalsConsistent, LocalsOK, Connected, Dests
    <3>4. held' \in [Targets -> SUBSET Dests]
      BY <1>3, CreateDestinationType DEF IInv, Commit, TypeOK, LocalsConsistent, LocalsOK, Connected, Dests
    <3>5. pc' \in [Procs -> PCs]
      BY <1>3 DEF IInv, Commit, TypeOK, LocalsConsistent, LocalsOK, Connected, Dests, PCs
    <3>6. cl' \in [Procs -> Clients \cup {NULL}]
      BY <1>3 DEF IInv, Commit, TypeOK, LocalsConsistent, LocalsOK, Connected, Dests
    <3>7. UNCHANGED <<targets, writer, nOpened, opened, fatal, tgt, dev, qry>>
      BY <1>3 DEF Commit, Shared
    <3>8. QED
      BY <3>1, <3>2, <3>3, <3>4, <3>5, <3>6, <3>7 DEF IInv, TypeOK
  <2>2. RegisteredTargetConnected'
    <3>1. cl[p] \in Clients /\ tgt[p] \in Targets /\ dev[p] \in Devices
      BY <1>3 DEF IInv, LocalsConsistent, LocalsOK, Commit
    <3>2. createDestination(dev[p]) # NULL
      BY <3>1, CreateDestinationType
    <3>3. QED
      BY <1>3, <3>1, <3>2 DEF IInv, Commit, TypeOK, RegisteredTargetConnected
  <2>3. LocalsConsistent'
    BY <1>3, CreateDestinationType DEF IInv, Commit, Shared, TypeOK, LocalsConsistent, LocalsOK, Connected, Dests
  <2>4. QED
    BY <2>1, <2>2, <2>3 DEF IInv
<1>4. ASSUME NEW p \in Procs, Publish(p)
      PROVE  IInv'
  <2>1. TypeOK'
    <3>1. writer' \in Procs \cup {NULL}
      BY <1>4 DEF IInv, Publish, TypeOK, LocalsConsistent, LocalsOK, Connected
    <3>2. pc' \in [Procs -> PCs]
      BY <1>4 DEF IInv, Publish, TypeOK, LocalsConsistent, LocalsOK, Connected, PCs
    <3>3. UNCHANGED <<targets, clt, dest, held, nOpened, opened, closed, fatal, tgt, dev, cl, qry>>
      BY <1>4 DEF Publish, Shared
    <3>4. QED
      BY <3>1, <3>2, <3>3 DEF IInv, TypeOK
  <2>2. RegisteredTargetConnected'
    BY <1>4 DEF IInv, Publish, Shared, TypeOK, RegisteredTargetConnected
  <2>3. LocalsConsistent'
    BY <1>4 DEF IInv, Publish, Shared, TypeOK, LocalsConsistent, LocalsOK, Connected
  <2>4. QED
    BY <2>1, <2>2, <2>3 DEF IInv
<1>5. ASSUME NEW p \in Procs, PublishEnd(p)
      PROVE  IInv'
  <2>1. TypeOK'
    <3>1. targets' \in [Keys -> Targets \cup {NULL}]
      BY <1>5 DEF IInv, PublishEnd, TypeOK, LocalsConsistent, LocalsOK, Connected, deviceKey
    <3>2. writer' \in Procs \cup {NULL}
      BY <1>5 DEF IInv, PublishEnd, TypeOK, LocalsConsistent, LocalsOK, Connected, deviceKey
    <3>3. pc' \in [Procs -> PCs]
      BY <1>5 DEF IInv, PublishEnd, TypeOK, LocalsConsistent, LocalsOK, Connected, deviceKey, PCs
    <3>4. tgt' \in [Procs -> Targets \cup {NULL}]
      BY <1>5 DEF IInv, PublishEnd, TypeOK, LocalsConsistent, LocalsOK, Connected, deviceKey
    <3>5. dev' \in [Procs -> Devices \cup {NULL}]
      BY <1>5 DEF IInv, PublishEnd, TypeOK, LocalsConsistent, LocalsOK, Connected, deviceKey
    <3>6. UNCHANGED <<clt, dest, held, nOpened, opened, closed, fatal, cl, qry>>
      BY <1>5 DEF PublishEnd, Shared
    <3>7. QED
      BY <3>1, <3>2, <3>3, <3>4, <3>5, <3>6 DEF IInv, TypeOK
  <2>2. RegisteredTargetConnected'
    <3>1. tgt[p] \in Targets /\ Connected(tgt[p]) /\ dev[p] \in Devices
      BY <1>5 DEF IInv, LocalsConsistent, LocalsOK, PublishEnd
    <3>2. deviceKey(dev[p]) \in Keys
      BY <3>1 DEF deviceKey
    <3>3. QED
      BY <1>5, <3>1, <3>2 DEF IInv, PublishEnd, TypeOK, RegisteredTargetConnected,
                              Connected
  <2>3. LocalsConsistent'
    BY <1>5 DEF IInv, PublishEnd, Shared, TypeOK, LocalsConsistent, LocalsOK, Connected, deviceKey
  <2>4. QED
    BY <2>1, <2>2, <2>3 DEF IInv
<1>6. ASSUME NEW p \in Procs, NEW k \in Keys, GetTarget(p, k)
      PROVE  IInv'
  <2>1. TypeOK'
    <3>0. pc \in [Procs -> PCs] /\ tgt \in [Procs -> Targets \cup {NULL}]
          /\ targets \in [Keys -> Targets \cup {NULL}]
      BY DEF IInv, TypeOK
    <3>1. pc' \in [Procs -> PCs]
      BY <1>6, <3>0 DEF GetTarget, PCs
    <3>2. tgt' \in [Procs -> Targets \cup {NULL}]
      BY <1>6, <3>0 DEF GetTarget
    <3>3. UNCHANGED <<targets, writer, clt, dest, held, nOpened, opened, closed, fatal, dev, cl, qry>>
      BY <1>6 DEF GetTarget, Shared
    <3>4. QED
      BY <3>1, <3>2, <3>3 DEF IInv, TypeOK
  <2>2. RegisteredTargetConnected'
    BY <1>6 DEF IInv, GetTarget, Shared, TypeOK, RegisteredTargetConnected
  <2>3. LocalsConsistent'
    <3> SUFFICES ASSUME NEW q \in Procs PROVE LocalsOK(q)'
      BY DEF LocalsConsistent
    <3>1. CASE q = p
      BY <1>6, <3>1 DEF IInv, GetTarget, Shared, TypeOK, RegisteredTargetConnected, LocalsConsistent,
                         LocalsOK, Connected
    <3>2. CASE q # p
      BY <1>6, <3>2 DEF IInv, GetTarget, Shared, TypeOK, LocalsConsistent, LocalsOK, Connected
    <3>3. QED
      BY <3>1, <3>2
  <2>4. QED
    BY <2>1, <2>2, <2>3 DEF IInv
<1>7. ASSUME NEW p \in Procs, NotFound(p)
      PROVE  IInv'
  <2>1. TypeOK'
    <3>1. fatal' \in Fatal
      BY <1>7 DEF IInv, NotFound, TypeOK, LocalsConsistent, LocalsOK, Connected, Fatal, Fatal
    <3>2. pc' \in [Procs -> PCs]
      BY <1>7 DEF IInv, NotFound, TypeOK, LocalsConsistent, LocalsOK, Connected, Fatal, PCs
    <3>3. UNCHANGED <<targets, writer, clt, dest, held, nOpened, opened, closed, tgt, dev, cl, qry>>
      BY <1>7 DEF NotFound, Shared
    <3>4. QED
      BY <3>1, <3>2, <3>3 DEF IInv, TypeOK
  <2>2. RegisteredTargetConnected'
    BY <1>7 DEF IInv, NotFound, Shared, TypeOK, RegisteredTargetConnected, Fatal
  <2>3. LocalsConsistent'
    BY <1>7 DEF IInv, NotFound, Shared, TypeOK, LocalsConsistent, LocalsOK, Connected, Fatal
  <2>4. QED
    BY <2>1, <2>2, <2>3 DEF IInv
<1>8. ASSUME NEW p \in Procs, Release(p)
      PROVE  IInv'
  <2>1. TypeOK'
    <3>1. pc' \in [Procs -> PCs]
      BY <1>8 DEF IInv, Release, TypeOK, LocalsConsistent, LocalsOK, Connected, PCs
    <3>2. tgt' \in [Procs -> Targets \cup {NULL}]
      BY <1>8 DEF IInv, Release, TypeOK, LocalsConsistent, LocalsOK, Connected
    <3>3. UNCHANGED <<targets, writer, clt, dest, held, nOpened, opened, closed, fatal, dev, cl, qry>>
      BY <1>8 DEF Release, Shared
    <3>4. QED
      BY <3>1, <3>2, <3>3 DEF IInv, TypeOK
  <2>2. RegisteredTargetConnected'
    BY <1>8 DEF IInv, Release, Shared, TypeOK, RegisteredTargetConnected
  <2>3. LocalsConsistent'
    BY <1>8 DEF IInv, Release, Shared, TypeOK, LocalsConsistent, LocalsOK, Connected
  <2>4. QED
    BY <2>1, <2>2, <2>3 DEF IInv
<1>9. ASSUME NEW p \in Procs, NEW op \in UnaryOps, NEW req \in Requests,
             Client(p, op, req)
      PROVE  IInv'
  <2>1. TypeOK'
    <3>1. cl' \in [Procs -> Clients \cup {NULL}]
      BY <1>9 DEF IInv, Client, TypeOK, LocalsConsistent, LocalsOK, Connected
    <3>2. pc' \in [Procs -> PCs]
      BY <1>9 DEF IInv, Client, TypeOK, LocalsConsistent, LocalsOK, Connected, PCs
    <3>3. UNCHANGED <<targets, writer, clt, dest, held, nOpened, opened, closed, fatal, tgt, dev, qry>>
      BY <1>9 DEF Client, Shared
    <3>4. QED
      BY <3>1, <3>2, <3>3 DEF IInv, TypeOK
  <2>2. RegisteredTargetConnected'
    BY <1>9 DEF IInv, Client, Shared, TypeOK, RegisteredTargetConnected
  <2>3. LocalsConsistent'
    BY <1>9 DEF IInv, Client, Shared, TypeOK, LocalsConsistent, LocalsOK, Connected
  <2>4. QED
    BY <2>1, <2>2, <2>3 DEF IInv
<1>10. ASSUME NEW p \in Procs, Rpc(p)
      PROVE  IInv'
  <2>1. TypeOK'
    <3>1. pc' \in [Procs -> PCs]
      BY <1>10 DEF IInv, Rpc, TypeOK, LocalsConsistent, LocalsOK, Connected, PCs
    <3>2. cl' \in [Procs -> Clients \cup {NULL}]
      BY <1>10 DEF IInv, Rpc, TypeOK, LocalsConsistent, LocalsOK, Connected
    <3>3. UNCHANGED <<targets, writer, clt, dest, held, nOpened, opened, closed, fatal, tgt, dev, qry>>
      BY <1>10 DEF Rpc, Shared
    <3>4. QED
      BY <3>1, <3>2, <3>3 DEF IInv, TypeOK
  <2>2. RegisteredTargetConnected'
    BY <1>10 DEF IInv, Rpc, Shared, TypeOK, RegisteredTargetConnected
  <2>3. LocalsConsistent'
    BY <1>10 DEF IInv, Rpc, Shared, TypeOK, LocalsConsistent, LocalsOK, Connected
  <2>4. QED
    BY <2>1, <2>2, <2>3 DEF IInv
<1>11. ASSUME NEW p \in Procs, SubAddr(p)
      PROVE  IInv'
  <2>1. TypeOK'
    <3>1. qry' \in [Procs -> [addr: Addrs \cup {NULL}, sec: Secs \cup {NULL}]]
      BY <1>11 DEF IInv, SubAddr, TypeOK, LocalsConsistent, LocalsOK, Connected, Dests, NoQuery
    <3>2. pc' \in [Procs -> PCs]
      BY <1>11 DEF IInv, SubAddr, TypeOK, LocalsConsistent, LocalsOK, Connected, Dests, PCs
    <3>3. UNCHANGED <<targets, writer, clt, dest, held, nOpened, opened, closed, fatal, tgt, dev, cl>>
      BY <1>11 DEF SubAddr, Shared
    <3>4. QED
      BY <3>1, <3>2, <3>3 DEF IInv, TypeOK
  <2>2. RegisteredTargetConnected'
    BY <1>11 DEF IInv, SubAddr, Shared, TypeOK, RegisteredTargetConnected, Dests
  <2>3. LocalsConsistent'
    BY <1>11 DEF IInv, SubAddr, Shared, TypeOK, LocalsConsistent, LocalsOK, Connected, Dests
  <2>4. QED
    BY <2>1, <2>2, <2>3 DEF IInv
<1>12. ASSUME NEW p \in Procs, SubSec(p)
      PROVE  IInv'
  <2>1. TypeOK'
    <3>1. qry' \in [Procs -> [addr: Addrs \cup {NULL}, sec: Secs \cup {NULL}]]
      BY <1>12 DEF IInv, SubSec, TypeOK, LocalsConsistent, LocalsOK, Connected, Dests, NoQuery
    <3>2. pc' \in [Procs -> PCs]
      BY <1>12 DEF IInv, SubSec, TypeOK, LocalsConsistent, LocalsOK, Connected, Dests, PCs
    <3>3. UNCHANGED <<targets, writer, clt, dest, held, nOpened, opened, closed, fatal, tgt, dev, cl>>
      BY <1>12 DEF SubSec, Shared
    <3>4. QED
      BY <3>1, <3>2, <3>3 DEF IInv, TypeOK
  <2>2. RegisteredTargetConnected'
    BY <1>12 DEF IInv, SubSec, Shared, TypeOK, RegisteredTargetConnected, Dests
  <2>3. LocalsConsistent'
    BY <1>12 DEF IInv, SubSec, Shared, TypeOK, LocalsConsistent, LocalsOK, Connected, Dests
  <2>4. QED
    BY <2>1, <2>2, <2>3 DEF IInv
<1>13. ASSUME NEW p \in Procs, SubCall(p)
      PROVE  IInv'
  <2>1. TypeOK'
    <3>1. qry' \in [Procs -> [addr: Addrs \cup {NULL}, sec: Secs \cup {NULL}]]
      BY <1>13 DEF IInv, SubCall, TypeOK, LocalsConsistent, LocalsOK, Connected, NoQuery, Dests, NoQuery
    <3>2. pc' \in [Procs -> PCs]
      BY <1>13 DEF IInv, SubCall, TypeOK, LocalsConsistent, LocalsOK, Connected, NoQuery, PCs
    <3>3. UNCHANGED <<targets, writer, clt, dest, held, nOpened, opened, closed, fatal, tgt, dev, cl>>
      BY <1>13 DEF SubCall, Shared
    <3>4. QED
      BY <3>1, <3>2, <3>3 DEF IInv, TypeOK
  <2>2. RegisteredTargetConnected'
    BY <1>13 DEF IInv, SubCall, Shared, TypeOK, RegisteredTargetConnected, NoQuery
  <2>3. LocalsConsistent'
    BY <1>13 DEF IInv, SubCall, Shared, TypeOK, LocalsConsistent, LocalsOK, Connected, NoQuery
  <2>4. QED
    BY <2>1, <2>2, <2>3 DEF IInv
<1>14. ASSUME NEW p \in Procs, NEW t \in Targets, CloseTarget(p, t)
      PROVE  IInv'
  <2>1. TypeOK'
    <3>1. cl' \in [Procs -> Clients \cup {NULL}]
      BY <1>14 DEF IInv, CloseTarget, TypeOK, LocalsConsistent, LocalsOK, Connected
    <3>2. tgt' \in [Procs -> Targets \cup {NULL}]
      BY <1>14 DEF IInv, CloseTarget, TypeOK, LocalsConsistent, LocalsOK, Connected
    <3>3. pc' \in [Procs -> PCs]
      BY <1>14 DEF IInv, CloseTarget, TypeOK, LocalsConsistent, LocalsOK, Connected, PCs
    <3>4. UNCHANGED <<targets, writer, clt, dest, held, nOpened, opened, closed, fatal, dev, qry>>
      BY <1>14 DEF CloseTarget, Shared
    <3>5. QED
      BY <3>1, <3>2, <3>3, <3>4 DEF IInv, TypeOK
  <2>2. RegisteredTargetConnected'
    BY <1>14 DEF IInv, CloseTarget, Shared, TypeOK, RegisteredTargetConnected
  <2>3. LocalsConsistent'
    BY <1>14 DEF IInv, CloseTarget, Shared, TypeOK, LocalsConsistent, LocalsOK, Connected
  <2>4. QED
    BY <2>1, <2>2, <2>3 DEF IInv
<1>15. ASSUME NEW p \in Procs, CloseCall(p)
      PROVE  IInv'
  <2>1. TypeOK'
    <3>1. fatal' \in Fatal
      BY <1>15 DEF IInv, CloseCall, TypeOK, LocalsConsistent, LocalsOK, Connected, Fatal, Fatal
    <3>2. pc' \in [Procs -> PCs]
      BY <1>15 DEF IInv, CloseCall, TypeOK, LocalsConsistent, LocalsOK, Connected, Fatal, PCs
    <3>3. closed' \in SUBSET Clients
      <4>1. closed' = closed \/ (cl[p] \in Clients /\ closed' = closed \cup {cl[p]})
        BY <1>15 DEF IInv, TypeOK, CloseCall
      <4>2. QED
        BY <4>1 DEF IInv, TypeOK
    <3>4. cl' \in [Procs -> Clients \cup {NULL}]
      BY <1>15 DEF IInv, CloseCall, TypeOK, LocalsConsistent, LocalsOK, Connected, Fatal
    <3>5. tgt' \in [Procs -> Targets \cup {NULL}]
      BY <1>15 DEF IInv, CloseCall, TypeOK, LocalsConsistent, LocalsOK, Connected, Fatal
    <3>6. UNCHANGED <<targets, writer, clt, dest, held, nOpened, opened, dev, qry>>
      BY <1>15 DEF CloseCall, Shared
    <3>7. QED
      BY <3>1, <3>2, <3>3, <3>4, <3>5, <3>6 DEF IInv, TypeOK
  <2>2. RegisteredTargetConnected'
    BY <1>15 DEF IInv, CloseCall, Shared, TypeOK, RegisteredTargetConnected, Fatal
  <2>3. LocalsConsistent'
    BY <1>15 DEF IInv, CloseCall, Shared, TypeOK, LocalsConsistent, LocalsOK, Connected, Fatal
  <2>4. QED
    BY <2>1, <2>2, <2>3 DEF IInv
<1>16. CASE Halted \/ UNCHANGED vars
  BY <1>16 DEF Halted, vars, IInv, TypeOK, RegisteredTargetConnected,
                 LocalsConsistent, LocalsOK, Connected
<1>17. QED
  BY <1>1, <1>2, <1>3, <1>4, <1>5, <1>6, <1>7, <1>8, <1>9, <1>10, <1>11, <1>12, <1>13, <1>14, <1>15, <1>16 DEF Next, Call, Step

\* IInv holds in every reachable state.
THEOREM IInvInvariant == Spec => []IInv
BY InitIInv, NextIInv, PTL DEF Spec

\* The type invariant checked by the MC_Southbound run.
THEOREM TypeCorrect == Spec => []TypeOK
BY IInvInvariant, PTL DEF IInv

\* GetTarget only ever hands out a connected target, for any number of
\* goroutines, targets, keys and clients.
THEOREM RegisteredTargetsConnected == Spec => []RegisteredTargetConnected
BY IInvInvariant, PTL DEF IInv

=============================================================================
