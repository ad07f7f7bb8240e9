--------------------- MODULE RegistryRefinementProofs ---------------------
(***************************************************************************)
(* Proofs, for every value of the constants, that no opened client is     *)
(* dropped (ClientAccounted), that a Target's destination is its client's *)
(* (DestMatchesClient), and that Southbound implements the atomic          *)
(* registry of ConnectionRegistry (RegistrySpec).  All three rest on the   *)
(* inductive invariant RInv, which extends IInv with what a goroutine      *)
(* between dial and commit, or about to close, holds.                      *)
(***************************************************************************)
EXTENDS SouthboundProofs

USE ConstantsAssumption DEF Clients

\* A step of a goroutine that neither leaves "commit" nor comes to hold a
\* client, and that leaves every client, destination and the other
\* goroutines alone, keeps RInv.
LEMMA QuietRInv ==
    ASSUME RInv, IInv', NEW p \in Procs,
           UNCHANGED <<clt, dest, nOpened, opened, closed>>,
           pc[p] # "commit",
           pc'[p] \notin {"commit", "rpc", "closeCall"},
           \A q \in Procs \ {p} : /\ pc'[q] = pc[q] /\ cl'[q] = cl[q]
                                 /\ tgt'[q] = tgt[q] /\ dev'[q] = dev[q]
    PROVE  RInv'
<1>1. PendingOK'
  BY DEF RInv, PendingOK
<1>2. PendingDistinct'
  BY DEF RInv, PendingDistinct
<1>3. CurrentOpened'
  BY DEF RInv, CurrentOpened
<1>4. InUseClientCurrent'
  BY DEF RInv, InUseClientCurrent
<1>5. ClientAccounted'
  <2> SUFFICES ASSUME NEW c \in 1..nOpened',
                      ~(c \in closed'), ~(\E t \in Targets : clt'[t] = c)
               PROVE  \E q \in Procs : pc'[q] = "commit" /\ cl'[q] = c
    BY DEF ClientAccounted
  <2>1. PICK q \in Procs : pc[q] = "commit" /\ cl[q] = c
    BY DEF RInv, ClientAccounted
  <2>2. q # p
    BY <2>1
  <2>3. QED
    BY <2>1, <2>2
<1>6. DestMatchesClient'
  BY DEF RInv, DestMatchesClient
<1>7. QED
  BY <1>1, <1>2, <1>3, <1>4, <1>5, <1>6 DEF RInv

\* The facts about the state every case below starts from.
LEMMA RInvFacts ==
    ASSUME RInv
    PROVE  /\ TypeOK /\ LocalsConsistent /\ PendingOK /\ PendingDistinct
           /\ CurrentOpened /\ InUseClientCurrent /\ ClientAccounted /\ DestMatchesClient
BY DEF RInv, IInv

\* Every step keeps RInv.  IInv' comes from NextIInv; the steps that commit,
\* dial a client, or start or finish a Close have cases of their own, and
\* every other step is quiet.
LEMMA NextRInv == RInv /\ [Next]_vars => RInv'
<1> SUFFICES ASSUME RInv, [Next]_vars PROVE RInv'
  OBVIOUS
<1>0. IInv'
  BY NextIInv DEF RInv
<1>a. TypeOK /\ TypeOK' /\ LocalsConsistent
  BY <1>0, RInvFacts DEF IInv
<1>1. ASSUME NEW p \in Procs, NEW t \in Targets, NEW d \in Devices, ConnectTarget(p, t, d)
      PROVE  RInv'
  BY <1>0, <1>1, <1>a, QuietRInv DEF ConnectTarget, Shared, TypeOK
<1>2. ASSUME NEW p \in Procs, Dial(p)
      PROVE  RInv'
  <2>1. CASE pc'[p] = "commit"
    <3>1. /\ nOpened < MaxClients
          /\ nOpened' = nOpened + 1
          /\ opened' = [opened EXCEPT ![nOpened + 1] = createDestination(dev[p])]
          /\ cl' = [cl EXCEPT ![p] = nOpened + 1]
          /\ pc' = [pc EXCEPT ![p] = "commit"]
          /\ UNCHANGED <<tgt, dev, clt, dest, closed>>
      BY <1>2, <2>1, <1>a DEF Dial, TypeOK
    <3>2. pc[p] = "dial"
      BY <1>2 DEF Dial
    <3>3. PendingOK'
      BY <3>1, <3>2, <1>a, RInvFacts DEF PendingOK, TypeOK
    <3>4. PendingDistinct'
      BY <3>1, <3>2, <1>a, RInvFacts DEF PendingOK, PendingDistinct, TypeOK
    <3>5. CurrentOpened'
      BY <3>1, <1>a, RInvFacts DEF CurrentOpened, TypeOK
    <3>6. InUseClientCurrent'
      BY <3>1, <3>2, <1>a, RInvFacts DEF InUseClientCurrent, TypeOK
    <3>7. ClientAccounted'
      <4> SUFFICES ASSUME NEW c \in 1..nOpened',
                          ~(c \in closed'), ~(\E u \in Targets : clt'[u] = c)
                   PROVE  \E q \in Procs : pc'[q] = "commit" /\ cl'[q] = c
        BY DEF ClientAccounted
      <4>1. CASE c = nOpened + 1
        BY <3>1, <4>1, <1>a DEF TypeOK
      <4>2. CASE c # nOpened + 1
        <5>0. /\ c \in 1..nOpened /\ c \notin closed
              /\ ~\E u \in Targets : clt[u] = c
          BY <3>1, <4>2, <1>a DEF TypeOK
        <5>1. PICK q \in Procs : pc[q] = "commit" /\ cl[q] = c
          <6>1. ClientAccounted
            BY RInvFacts
          <6>2. QED
            BY <5>0, <6>1 DEF ClientAccounted
        <5>2. q # p
          BY <5>1, <3>2
        <5>3. QED
          BY <3>1, <5>1, <5>2, <1>a DEF TypeOK
      <4>3. QED
        BY <4>1, <4>2
    <3>8. DestMatchesClient'
      BY <3>1, <1>a, RInvFacts DEF DestMatchesClient, CurrentOpened, TypeOK
    <3>9. QED
      BY <1>0, <3>3, <3>4, <3>5, <3>6, <3>7, <3>8 DEF RInv
  <2>2. CASE pc'[p] # "commit"
    <3>1. pc'[p] = "idle" /\ UNCHANGED <<nOpened, opened, cl, clt, dest, closed>>
      BY <1>2, <2>2, <1>a DEF Dial, TypeOK
    <3>2. QED
      BY <1>0, <1>2, <1>a, <3>1, QuietRInv DEF Dial, TypeOK
  <2>3. QED
    BY <2>1, <2>2
<1>3. ASSUME NEW p \in Procs, Commit(p)
      PROVE  RInv'
  <2> DEFINE t == tgt[p]
             c == cl[p]
  <2>1. /\ pc[p] = "commit"
        /\ t \in Targets /\ dev[p] \in Devices
        /\ c \in 1..nOpened
        /\ opened[c] = createDestination(dev[p])
    BY <1>3, <1>a, RInvFacts DEF Commit, LocalsConsistent, LocalsOK, PendingOK
  <2>2. /\ closed' = IF clt[t] # NULL THEN closed \cup {clt[t]} ELSE closed
        /\ clt' = [clt EXCEPT ![t] = c]
        /\ dest' = [dest EXCEPT ![t] = createDestination(dev[p])]
        /\ pc' = [pc EXCEPT ![p] = "publish"]
        /\ cl' = [cl EXCEPT ![p] = NULL]
        /\ UNCHANGED <<nOpened, opened, tgt, dev>>
    BY <1>3 DEF Commit
  <2>3. PendingOK'
    BY <2>1, <2>2, <1>a, RInvFacts DEF PendingOK, TypeOK
  <2>4. PendingDistinct'
    BY <2>2, <1>a, RInvFacts DEF PendingDistinct, TypeOK
  <2>5. CurrentOpened'
    BY <2>1, <2>2, <1>a, RInvFacts DEF CurrentOpened, TypeOK
  <2>6. InUseClientCurrent'
    BY <2>1, <2>2, <1>a, RInvFacts DEF InUseClientCurrent, TypeOK
  <2>7. ClientAccounted'
    <3> SUFFICES ASSUME NEW e \in 1..nOpened',
                        ~(e \in closed'), ~(\E u \in Targets : clt'[u] = e)
                 PROVE  \E q \in Procs : pc'[q] = "commit" /\ cl'[q] = e
      BY DEF ClientAccounted
    <3>1. e # c /\ e # clt[t] /\ ~(e \in closed) /\ ~(\E u \in Targets : clt[u] = e)
      BY <2>1, <2>2, <1>a DEF TypeOK
    <3>2. PICK q \in Procs : pc[q] = "commit" /\ cl[q] = e
      BY <2>2, <3>1, RInvFacts DEF ClientAccounted
    <3>3. q # p
      BY <3>1, <3>2
    <3>4. QED
      BY <2>2, <3>2, <3>3, <1>a DEF TypeOK
  <2>8. DestMatchesClient'
    BY <2>1, <2>2, <1>a, RInvFacts DEF DestMatchesClient, TypeOK
  <2>9. QED
    BY <1>0, <2>3, <2>4, <2>5, <2>6, <2>7, <2>8 DEF RInv
<1>4. ASSUME NEW p \in Procs, Publish(p)
      PROVE  RInv'
  BY <1>0, <1>4, <1>a, QuietRInv DEF Publish, TypeOK
<1>5. ASSUME NEW p \in Procs, PublishEnd(p)
      PROVE  RInv'
  BY <1>0, <1>5, <1>a, QuietRInv DEF PublishEnd, TypeOK
<1>6. ASSUME NEW p \in Procs, NEW k \in Keys, GetTarget(p, k)
      PROVE  RInv'
  <2>1. /\ UNCHANGED <<clt, dest, nOpened, opened, closed, dev, cl>>
        /\ pc[p] \in {"idle", "use"}
        /\ pc'[p] \in {"use", "notFound"}
        /\ \A q \in Procs \ {p} : pc'[q] = pc[q] /\ tgt'[q] = tgt[q]
    <3>1. pc \in [Procs -> PCs] /\ tgt \in [Procs -> Targets \cup {NULL}]
      BY <1>a DEF TypeOK
    <3>2. QED
      BY <1>6, <3>1 DEF GetTarget, Shared
  <2>2. QED
    BY <1>0, <2>1, QuietRInv
<1>7. ASSUME NEW p \in Procs, NotFound(p)
      PROVE  RInv'
  BY <1>0, <1>7, <1>a, QuietRInv DEF NotFound, TypeOK
<1>8. ASSUME NEW p \in Procs, Release(p)
      PROVE  RInv'
  BY <1>0, <1>8, <1>a, QuietRInv DEF Release, Shared, TypeOK
<1>9. ASSUME NEW p \in Procs, NEW op \in UnaryOps, NEW req \in Requests,
             Client(p, op, req)
      PROVE  RInv'
  <2>1. /\ pc[p] = "use"
        /\ tgt[p] \in Targets
        /\ pc' = [pc EXCEPT ![p] = "rpc"]
        /\ cl' = [cl EXCEPT ![p] = clt[tgt[p]]]
        /\ UNCHANGED <<tgt, clt, dest, nOpened, opened, closed, dev>>
    BY <1>9, <1>a DEF Client, Shared, LocalsConsistent, LocalsOK
  <2>2. PendingOK' /\ PendingDistinct' /\ CurrentOpened' /\ DestMatchesClient'
    BY <2>1, <1>a, RInvFacts DEF PendingOK, PendingDistinct, CurrentOpened,
                                 DestMatchesClient, TypeOK
  <2>3. InUseClientCurrent'
    BY <2>1, <1>a, RInvFacts DEF InUseClientCurrent, TypeOK
  <2>4. ClientAccounted'
    <3> SUFFICES ASSUME NEW e \in 1..nOpened',
                        ~(e \in closed'), ~(\E u \in Targets : clt'[u] = e)
                 PROVE  \E q \in Procs : pc'[q] = "commit" /\ cl'[q] = e
      BY DEF ClientAccounted
    <3>1. PICK q \in Procs : pc[q] = "commit" /\ cl[q] = e
      BY <2>1, RInvFacts DEF ClientAccounted
    <3>2. QED
      BY <2>1, <3>1, <1>a DEF TypeOK
  <2>5. QED
    BY <1>0, <2>2, <2>3, <2>4 DEF RInv
<1>10. ASSUME NEW p \in Procs, Rpc(p)
       PROVE  RInv'
  BY <1>0, <1>10, <1>a, QuietRInv DEF Rpc, Shared, TypeOK
<1>11. ASSUME NEW p \in Procs, SubAddr(p)
       PROVE  RInv'
  BY <1>0, <1>11, <1>a, QuietRInv DEF SubAddr, Shared, TypeOK
<1>12. ASSUME NEW p \in Procs, SubSec(p)
       PROVE  RInv'
  BY <1>0, <1>12, <1>a, QuietRInv DEF SubSec, Shared, TypeOK
<1>13. ASSUME NEW p \in Procs, SubCall(p)
       PROVE  RInv'
  BY <1>0, <1>13, <1>a, QuietRInv DEF SubCall, Shared, TypeOK
<1>14. ASSUME NEW p \in Procs, NEW t \in Targets, CloseTarget(p, t)
       PROVE  RInv'
  <2>1. /\ pc[p] = "idle"
        /\ pc' = [pc EXCEPT ![p] = "closeCall"]
        /\ cl' = [cl EXCEPT ![p] = clt[t]]
        /\ tgt' = [tgt EXCEPT ![p] = t]
        /\ UNCHANGED <<clt, dest, nOpened, opened, closed, dev>>
    BY <1>14 DEF CloseTarget, Shared
  <2>2. PendingOK' /\ PendingDistinct' /\ CurrentOpened' /\ DestMatchesClient'
    BY <2>1, <1>a, RInvFacts DEF PendingOK, PendingDistinct, CurrentOpened,
                                 DestMatchesClient, TypeOK
  <2>3. InUseClientCurrent'
    BY <2>1, <1>a, RInvFacts DEF InUseClientCurrent, TypeOK
  <2>4. ClientAccounted'
    <3> SUFFICES ASSUME NEW e \in 1..nOpened',
                        ~(e \in closed'), ~(\E u \in Targets : clt'[u] = e)
                 PROVE  \E q \in Procs : pc'[q] = "commit" /\ cl'[q] = e
      BY DEF ClientAccounted
    <3>1. PICK q \in Procs : pc[q] = "commit" /\ cl[q] = e
      BY <2>1, RInvFacts DEF ClientAccounted
    <3>2. QED
      BY <2>1, <3>1, <1>a DEF TypeOK
  <2>5. QED
    BY <1>0, <2>2, <2>3, <2>4 DEF RInv
<1>15. ASSUME NEW p \in Procs, CloseCall(p)
       PROVE  RInv'
  <2>1. CASE cl[p] = NULL
    <3>1. UNCHANGED <<pc, cl, tgt, dev, clt, dest, nOpened, opened, closed>>
      BY <1>15, <2>1 DEF CloseCall
    <3>2. QED
      BY <1>0, <3>1 DEF RInv, PendingOK, PendingDistinct, CurrentOpened,
                        InUseClientCurrent, ClientAccounted, DestMatchesClient
  <2>2. CASE cl[p] # NULL
    <3>1. /\ pc[p] = "closeCall"
          /\ closed' = closed \cup {cl[p]}
          /\ pc' = [pc EXCEPT ![p] = "idle"]
          /\ cl' = [cl EXCEPT ![p] = NULL]
          /\ tgt' = [tgt EXCEPT ![p] = NULL]
          /\ UNCHANGED <<clt, dest, nOpened, opened, dev>>
      BY <1>15, <2>2 DEF CloseCall
    <3>2. PendingOK' /\ PendingDistinct' /\ CurrentOpened' /\ DestMatchesClient'
      BY <3>1, <1>a, RInvFacts DEF PendingOK, PendingDistinct, CurrentOpened,
                                   DestMatchesClient, TypeOK
    <3>3. InUseClientCurrent'
      BY <3>1, <1>a, RInvFacts DEF InUseClientCurrent, TypeOK
    <3>4. ClientAccounted'
      <4> SUFFICES ASSUME NEW e \in 1..nOpened',
                          ~(e \in closed'), ~(\E u \in Targets : clt'[u] = e)
                   PROVE  \E q \in Procs : pc'[q] = "commit" /\ cl'[q] = e
        BY DEF ClientAccounted
      <4>1. PICK q \in Procs : pc[q] = "commit" /\ cl[q] = e
        BY <3>1, RInvFacts DEF ClientAccounted
      <4>2. QED
        BY <3>1, <4>1, <1>a DEF TypeOK
    <3>5. QED
      BY <1>0, <3>2, <3>3, <3>4 DEF RInv
  <2>3. QED
    BY <2>1, <2>2
<1>16. CASE Halted \/ UNCHANGED vars
  <2>1. UNCHANGED <<pc, cl, tgt, dev, clt, dest, nOpened, opened, closed>>
    BY <1>16 DEF Halted, vars
  <2>2. QED
    BY <1>0, <2>1 DEF RInv, PendingOK, PendingDistinct, CurrentOpened,
                      InUseClientCurrent, ClientAccounted, DestMatchesClient
<1>17. QED
  BY <1>1, <1>2, <1>3, <1>4, <1>5, <1>6, <1>7, <1>8, <1>9, <1>10, <1>11,
     <1>12, <1>13, <1>14, <1>15, <1>16 DEF Next, Call, Step

\* Initially no client has been opened.
LEMMA InitRInv == Init => RInv
BY InitIInv DEF Init, RInv, PendingOK, PendingDistinct, CurrentOpened,
                InUseClientCurrent, ClientAccounted, DestMatchesClient

\* RInv holds in every reachable state.
THEOREM RInvInvariant == Spec => []RInv
BY InitRInv, NextRInv, PTL DEF Spec

\* ClientAccounted holds in every reachable state: a reconnect closes the
\* client it replaces, whatever order concurrent ConnectTarget calls commit.
THEOREM ClientsNeverDropped == Spec => []ClientAccounted
BY RInvInvariant, PTL DEF RInv

\* DestMatchesClient holds in every reachable state: the destination and the
\* client of a Target are installed together, under target.mu.
THEOREM DestinationMatchesClient == Spec => []DestMatchesClient
BY RInvInvariant, PTL DEF RInv

\* InUseClientCurrent holds in every reachable state: an RPC in flight, or a
\* Close about to close, holds its Target's current client or a closed one.
THEOREM InUseClientsCurrent == Spec => []InUseClientCurrent
BY RInvInvariant, PTL DEF RInv

-----------------------------------------------------------------------------
(***************************************************************************)
(* The refinement.  Steps that neither commit nor start a commit, and      *)
(* leave the registry, the clients and the destinations alone, are        *)
(* stutters of the abstract registry; Commit is Connect, PublishEnd is     *)
(* Register, and CloseCall is CloseSession or a stutter.                  *)
(***************************************************************************)

\* A goroutine step that neither reaches nor leaves "commit", and leaves the
\* other goroutines and the opened clients alone, changes neither the
\* committed clients nor their destinations.
LEMMA CommittedQuiet ==
    ASSUME TypeOK, NEW p \in Procs,
           UNCHANGED <<nOpened, opened>>,
           pc[p] # "commit", pc'[p] # "commit",
           \A q \in Procs \ {p} : pc'[q] = pc[q] /\ cl'[q] = cl[q]
    PROVE  Committed' = Committed /\ DialledBar' = DialledBar
<1>1. Committed' = Committed
  BY DEF Committed
<1>2. QED
  BY <1>1 DEF DialledBar

\* ... and, if it also leaves the registry, clients, destinations and closed
\* clients alone, it is a stutter of the abstract registry.
LEMMA QuietRefines ==
    ASSUME TypeOK, NEW p \in Procs,
           UNCHANGED <<targets, clt, dest, nOpened, opened, closed>>,
           pc[p] # "commit", pc'[p] # "commit",
           \A q \in Procs \ {p} : pc'[q] = pc[q] /\ cl'[q] = cl[q]
    PROVE  UNCHANGED Registry!regVars
BY CommittedQuiet DEF Registry!regVars

\* Every step of Southbound is a step or a stutter of the abstract registry.
LEMMA NextRefines == RInv /\ [Next]_vars => [Registry!Next]_(Registry!regVars)
<1> SUFFICES ASSUME RInv, [Next]_vars
             PROVE  [Registry!Next]_(Registry!regVars)
  OBVIOUS
<1>a. TypeOK /\ LocalsConsistent /\ PendingOK /\ PendingDistinct /\ InUseClientCurrent
  BY RInvFacts
<1>1. ASSUME NEW p \in Procs, NEW t \in Targets, NEW d \in Devices, ConnectTarget(p, t, d)
      PROVE  UNCHANGED Registry!regVars
  BY <1>1, <1>a, QuietRefines DEF ConnectTarget, Shared, TypeOK
<1>2. ASSUME NEW p \in Procs, Dial(p)
      PROVE  UNCHANGED Registry!regVars
  <2>1. CASE pc'[p] = "commit"
    <3>1. /\ nOpened \in Nat
          /\ nOpened' = nOpened + 1
          /\ opened' = [opened EXCEPT ![nOpened + 1] = createDestination(dev[p])]
          /\ cl' = [cl EXCEPT ![p] = nOpened + 1]
          /\ pc' = [pc EXCEPT ![p] = "commit"]
          /\ pc[p] = "dial"
          /\ UNCHANGED <<targets, clt, dest, closed>>
      BY <1>2, <2>1, <1>a DEF Dial, TypeOK
    <3>2. Committed' = Committed
      <4>1. ASSUME NEW c \in Committed' PROVE c \in Committed
        <5>1. c # nOpened + 1
          BY <3>1, <4>1, <1>a DEF Committed, TypeOK
        <5>2. QED
          BY <3>1, <4>1, <5>1, <1>a DEF Committed, TypeOK
      <4>2. ASSUME NEW c \in Committed PROVE c \in Committed'
        BY <3>1, <4>2, <1>a DEF Committed, TypeOK
      <4>3. QED
        BY <4>1, <4>2
    <3>3. DialledBar' = DialledBar
      BY <3>1, <3>2, <1>a DEF DialledBar, Committed, TypeOK
    <3>4. QED
      BY <3>1, <3>2, <3>3 DEF Registry!regVars
  <2>2. CASE pc'[p] # "commit"
    BY <1>2, <2>2, <1>a, QuietRefines DEF Dial, TypeOK
  <2>3. QED
    BY <2>1, <2>2
<1>3. ASSUME NEW p \in Procs, Commit(p)
      PROVE  Registry!Next
  <2> DEFINE t == tgt[p]
             c == cl[p]
             d == createDestination(dev[p])
  <2>1. /\ pc[p] = "commit"
        /\ t \in Targets /\ d \in Dests
        /\ c \in 1..nOpened
        /\ opened[c] = d
    BY <1>3, <1>a, CreateDestinationType DEF Commit, LocalsConsistent, LocalsOK, PendingOK
  <2>2. /\ closed' = IF clt[t] # NULL THEN closed \cup {clt[t]} ELSE closed
        /\ clt' = [clt EXCEPT ![t] = c]
        /\ dest' = [dest EXCEPT ![t] = d]
        /\ pc' = [pc EXCEPT ![p] = "publish"]
        /\ cl' = [cl EXCEPT ![p] = NULL]
        /\ UNCHANGED <<targets, nOpened, opened>>
    BY <1>3 DEF Commit
  <2>3. c \notin Committed
    BY <2>1 DEF Committed
  <2>4. Committed' = Committed \cup {c}
    <3>1. ASSUME NEW e \in Committed' PROVE e \in Committed \cup {c}
      BY <2>1, <2>2, <3>1, <1>a DEF Committed, TypeOK
    <3>2. c \in Committed'
      BY <2>1, <2>2, <1>a DEF Committed, PendingDistinct, TypeOK
    <3>3. ASSUME NEW e \in Committed PROVE e \in Committed'
      BY <2>1, <2>2, <3>3, <1>a DEF Committed, TypeOK
    <3>4. QED
      BY <3>1, <3>2, <3>3
  <2>5. DialledBar' = [DialledBar EXCEPT ![c] = d]
    BY <2>1, <2>2, <2>4 DEF DialledBar
  <2>6. Registry!Connect(t, c, d)
    BY <2>2, <2>3, <2>4, <2>5 DEF Registry!Connect
  <2>7. c \in Clients
    BY <2>1, <1>a DEF TypeOK
  <2>8. QED
    BY <2>1, <2>6, <2>7 DEF Registry!Next
<1>4. ASSUME NEW p \in Procs, Publish(p)
      PROVE  UNCHANGED Registry!regVars
  BY <1>4, <1>a, QuietRefines DEF Publish, TypeOK
<1>5. ASSUME NEW p \in Procs, PublishEnd(p)
      PROVE  Registry!Next
  <2>1. /\ tgt[p] \in Targets /\ clt[tgt[p]] # NULL
        /\ deviceKey(dev[p]) \in Keys
    BY <1>5, <1>a DEF PublishEnd, LocalsConsistent, LocalsOK, Connected, deviceKey
  <2>2. Committed' = Committed /\ DialledBar' = DialledBar
    BY <1>5, <1>a, CommittedQuiet DEF PublishEnd, TypeOK
  <2>3. Registry!Register(deviceKey(dev[p]), tgt[p])
    BY <1>5, <2>1, <2>2 DEF PublishEnd, Registry!Register
  <2>4. QED
    BY <2>1, <2>3 DEF Registry!Next
<1>6. ASSUME NEW p \in Procs, NEW k \in Keys, GetTarget(p, k)
      PROVE  UNCHANGED Registry!regVars
  BY <1>6, <1>a, QuietRefines DEF GetTarget, Shared, TypeOK
<1>7. ASSUME NEW p \in Procs, NotFound(p)
      PROVE  UNCHANGED Registry!regVars
  BY <1>7, <1>a, QuietRefines DEF NotFound, TypeOK
<1>8. ASSUME NEW p \in Procs, Release(p)
      PROVE  UNCHANGED Registry!regVars
  BY <1>8, <1>a, QuietRefines DEF Release, Shared, TypeOK
<1>9. ASSUME NEW p \in Procs, NEW op \in UnaryOps, NEW req \in Requests,
             Client(p, op, req)
      PROVE  UNCHANGED Registry!regVars
  BY <1>9, <1>a, QuietRefines DEF Client, Shared, TypeOK
<1>10. ASSUME NEW p \in Procs, Rpc(p)
       PROVE  UNCHANGED Registry!regVars
  BY <1>10, <1>a, QuietRefines DEF Rpc, Shared, TypeOK
<1>11. ASSUME NEW p \in Procs, SubAddr(p)
       PROVE  UNCHANGED Registry!regVars
  BY <1>11, <1>a, QuietRefines DEF SubAddr, Shared, TypeOK
<1>12. ASSUME NEW p \in Procs, SubSec(p)
       PROVE  UNCHANGED Registry!regVars
  BY <1>12, <1>a, QuietRefines DEF SubSec, Shared, TypeOK
<1>13. ASSUME NEW p \in Procs, SubCall(p)
       PROVE  UNCHANGED Registry!regVars
  BY <1>13, <1>a, QuietRefines DEF SubCall, Shared, TypeOK
<1>14. ASSUME NEW p \in Procs, NEW t \in Targets, CloseTarget(p, t)
       PROVE  UNCHANGED Registry!regVars
  BY <1>14, <1>a, QuietRefines DEF CloseTarget, Shared, TypeOK
<1>15. ASSUME NEW p \in Procs, CloseCall(p)
       PROVE  [Registry!Next]_(Registry!regVars)
  <2>1. Committed' = Committed /\ DialledBar' = DialledBar
    BY <1>15, <1>a, CommittedQuiet DEF CloseCall, TypeOK
  <2>2. CASE cl[p] = NULL \/ cl[p] \in closed
    <3>1. UNCHANGED <<targets, clt, dest, closed>>
      BY <1>15, <2>2 DEF CloseCall
    <3>2. QED
      BY <2>1, <3>1 DEF Registry!regVars
  <2>3. CASE cl[p] # NULL /\ cl[p] \notin closed
    <3>1. tgt[p] \in Targets /\ cl[p] = clt[tgt[p]]
      BY <1>15, <2>3, <1>a DEF CloseCall, InUseClientCurrent
    <3>2. Registry!CloseSession(tgt[p])
      BY <1>15, <2>1, <2>3, <3>1 DEF CloseCall, Registry!CloseSession
    <3>3. QED
      BY <3>1, <3>2 DEF Registry!Next
  <2>4. QED
    BY <2>2, <2>3
<1>16. CASE Halted \/ UNCHANGED vars
  BY <1>16 DEF Halted, vars, Registry!regVars, Committed, DialledBar
<1>17. QED
  BY <1>1, <1>2, <1>3, <1>4, <1>5, <1>6, <1>7, <1>8, <1>9, <1>10, <1>11,
     <1>12, <1>13, <1>14, <1>15, <1>16 DEF Next, Call, Step

\* Southbound implements the atomic registry: the concurrent ConnectTarget,
\* GetTarget and Close behave, for every number of goroutines, Targets and
\* keys, as connects that swap a fresh client in and close the old one in
\* one step, publishes of connected Targets, and closes of current clients.
THEOREM Refinement == Spec => RegistrySpec
<1>1. Init => Registry!Init
  BY DEF Init, Registry!Init, Committed, DialledBar
<1>2. QED
  BY <1>1, RInvInvariant, NextRefines, PTL DEF Spec, RegistrySpec, Registry!Spec

\* The abstract registry's invariant, under the refinement mapping, holds
\* of Southbound: read through Committed and DialledBar, every committed
\* client is closed or current, and every session's destination is the
\* one its committed client was dialled with.
THEOREM RegistryInvariantImplemented == Spec => []Registry!RegInv
<1>1. NULL \notin Clients
  BY ConstantsAssumption
<1>2. Registry!Spec => []Registry!RegInv
  BY <1>1, Registry!RegistryInvariant
<1>3. QED
  BY <1>2, Refinement DEF RegistrySpec

=============================================================================
