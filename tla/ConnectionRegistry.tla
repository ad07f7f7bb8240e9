------------------------- MODULE ConnectionRegistry -------------------------
(***************************************************************************)
(* What the connection registry and its sessions promise (spec sections    *)
(* 3, 4.3 and 4.4), with every operation atomic.  A connect opens a fresh  *)
(* client for a session, closes the session's previous client and swaps    *)
(* in the new one with its destination in one step; publishing the        *)
(* session under a key is a step of its own, allowed once the session is   *)
(* connected; closing a session closes its current client.  Failed         *)
(* connects, lookups and calls change nothing and are stutters here.       *)
(*                                                                         *)
(* Southbound, where a connect takes four steps of code, implements this   *)
(* specification (Southbound!RegistrySpec).                                *)
(***************************************************************************)
EXTENDS TLAPS

CONSTANTS
    Targets,   \* sessions (Target objects)
    Keys,      \* device VersionedIDs
    Clients,   \* client handles the factory can open
    Dests,     \* destinations
    NULL       \* none

VARIABLES
    reg,       \* key -> the session published under it, or NULL
    conn,      \* session -> its current client, or NULL
    destOf,    \* session -> the destination of its current connection
    dialled,   \* client -> the destination it was opened for (NULL: unused)
    used,      \* clients that have been connected to a session
    closed     \* clients that have been closed

regVars == <<reg, conn, destOf, dialled, used, closed>>

TypeOK ==
    /\ reg \in [Keys -> Targets \cup {NULL}]
    /\ conn \in [Targets -> Clients \cup {NULL}]
    /\ destOf \in [Targets -> Dests \cup {NULL}]
    /\ dialled \in [Clients -> Dests \cup {NULL}]
    /\ used \subseteq Clients
    /\ closed \subseteq Clients

Init ==
    /\ reg = [k \in Keys |-> NULL]
    /\ conn = [t \in Targets |-> NULL]
    /\ destOf = [t \in Targets |-> NULL]
    /\ dialled = [c \in Clients |-> NULL]
    /\ used = {}
    /\ closed = {}

\* A successful connect of session t to destination d with the fresh
\* client c: the previous client, if any, is closed.
Connect(t, c, d) ==
    /\ c \notin used
    /\ used' = used \cup {c}
    /\ dialled' = [dialled EXCEPT ![c] = d]
    /\ closed' = IF conn[t] # NULL THEN closed \cup {conn[t]} ELSE closed
    /\ conn' = [conn EXCEPT ![t] = c]
    /\ destOf' = [destOf EXCEPT ![t] = d]
    /\ UNCHANGED reg

\* The connected session t is published under key k.
Register(k, t) ==
    /\ conn[t] # NULL
    /\ reg' = [reg EXCEPT ![k] = t]
    /\ UNCHANGED <<conn, destOf, dialled, used, closed>>

\* Close: the session's current client is closed; the session keeps it.
CloseSession(t) ==
    /\ conn[t] # NULL
    /\ closed' = closed \cup {conn[t]}
    /\ UNCHANGED <<reg, conn, destOf, dialled, used>>

Next ==
    \/ \E t \in Targets, c \in Clients, d \in Dests : Connect(t, c, d)
    \/ \E k \in Keys, t \in Targets : Register(k, t)
    \/ \E t \in Targets : CloseSession(t)

Spec == Init /\ [][Next]_regVars

-----------------------------------------------------------------------------
\* A lookup only finds connected sessions.
RegisteredConnected ==
    \A k \in Keys : reg[k] # NULL => conn[reg[k]] # NULL

\* Every client ever connected is closed or is some session's current one:
\* a connect never drops the client it replaces.
ClientsAccounted ==
    \A c \in used : c \in closed \/ \E t \in Targets : conn[t] = c

\* A session's destination is the one its current client was opened for.
DestOfClient ==
    \A t \in Targets : conn[t] # NULL => destOf[t] = dialled[conn[t]]

\* A session's current client is one that was connected.
ConnUsed == \A t \in Targets : conn[t] # NULL => conn[t] \in used

\* The invariant of the abstract registry, inductive with ConnUsed: a
\* connect's fresh client is no other session's current client.
RegInv ==
    /\ TypeOK
    /\ RegisteredConnected
    /\ ClientsAccounted
    /\ DestOfClient
    /\ ConnUsed

\* The abstract registry keeps its invariant: registered sessions stay
\* connected, no connected client is dropped unclosed, and a session's
\* destination is its client's, whatever the order of connects,
\* publications and closes.
THEOREM RegistryInvariant ==
    ASSUME NULL \notin Clients
    PROVE  Spec => []RegInv
<1>1. Init => RegInv
  BY DEF Init, RegInv, TypeOK, RegisteredConnected, ClientsAccounted,
         DestOfClient, ConnUsed
<1>2. RegInv /\ [Next]_regVars => RegInv'
  <2> SUFFICES ASSUME RegInv, [Next]_regVars PROVE RegInv'
    OBVIOUS
  <2>1. ASSUME NEW t \in Targets, NEW c \in Clients, NEW d \in Dests, Connect(t, c, d)
        PROVE  RegInv'
    <3>1. TypeOK'
      BY <2>1 DEF RegInv, TypeOK, Connect
    <3>2. RegisteredConnected'
      BY <2>1 DEF RegInv, TypeOK, Connect, RegisteredConnected
    <3>3. ClientsAccounted'
      BY <2>1 DEF RegInv, TypeOK, Connect, ClientsAccounted
    <3>4. DestOfClient'
      BY <2>1 DEF RegInv, TypeOK, Connect, DestOfClient, ConnUsed
    <3>5. ConnUsed'
      BY <2>1 DEF RegInv, TypeOK, Connect, ConnUsed
    <3>6. QED
      BY <3>1, <3>2, <3>3, <3>4, <3>5 DEF RegInv
  <2>2. ASSUME NEW k \in Keys, NEW t \in Targets, Register(k, t)
        PROVE  RegInv'
    BY <2>2 DEF RegInv, TypeOK, Register, RegisteredConnected, ClientsAccounted,
                DestOfClient, ConnUsed
  <2>3. ASSUME NEW t \in Targets, CloseSession(t)
        PROVE  RegInv'
    BY <2>3 DEF RegInv, TypeOK, CloseSession, RegisteredConnected, ClientsAccounted,
                DestOfClient, ConnUsed
  <2>4. CASE UNCHANGED regVars
    BY <2>4 DEF regVars, RegInv, TypeOK, RegisteredConnected, ClientsAccounted,
                DestOfClient, ConnUsed
  <2>5. QED
    BY <2>1, <2>2, <2>3, <2>4 DEF Next
<1>3. QED
  BY <1>1, <1>2, PTL DEF Spec
=============================================================================
