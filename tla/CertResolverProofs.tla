------------------------- MODULE CertResolverProofs -------------------------
(***************************************************************************)
(* Proofs that createDestination follows the policy of spec section 4.1   *)
(* for every device descriptor.  Each property of CertResolver is first a  *)
(* lemma about the operator createDestination, over all of Devices; the   *)
(* invariant of the specification is that the destination is always the  *)
(* one createDestination computes for the current descriptor, and each    *)
(* theorem combines that invariant with its lemma.                        *)
(***************************************************************************)
EXTENDS CertResolver, TLAPS

\* The state ConnectTarget holds after any resolution: a descriptor and
\* the destination createDestination computed for it.
Resolved ==
    /\ device \in Devices
    /\ destination = createDestination(device)

LEMMA ResolvedInvariant == Spec => []Resolved
<1>1. Init => Resolved
  BY DEF Init, Resolved
<1>2. Resolved /\ [Resolve]_vars => Resolved'
  BY DEF Resolved, Resolve, vars
<1>3. QED
  BY <1>1, <1>2, PTL DEF Spec

-----------------------------------------------------------------------------
(* Lemmas about createDestination, one per policy rule.                    *)

\* createDestination returns a Destination for every descriptor.
LEMMA CreateDestinationType ==
    ASSUME NEW dv \in Devices
    PROVE  createDestination(dv) \in Destinations
<1>1. tlsBase(dv) \in TLSConfigs
  BY DEF tlsBase, TLSConfigs, Devices, Paths, getCertPool, getCertPoolDefault
<1>2. setCertificate(dv.cert, dv.key) \in {"none", "default", "device", "zero"}
  BY DEF setCertificate
<1>3. NoTLS \in TLSConfigs
  BY DEF NoTLS, TLSConfigs
<1>4. QED
  BY <1>1, <1>2, <1>3 DEF createDestination, OnlyOneOfPair, GivesCredentials, Destinations, TLSConfigs, NoTLS

\* A secure descriptor with loadable cert and key files gets that pair.
LEMMA KeypairPolicy ==
    ASSUME NEW dv \in Devices, ~dv.plain, dv.cert = "ok", dv.key = "ok"
    PROVE  createDestination(dv).tls.certs = "device"
<1>1. ~(dv.cert = "" /\ dv.key = "") /\ (dv.cert # "" /\ dv.key # "")
  OBVIOUS
<1>2. setCertificate(dv.cert, dv.key) = "device"
  BY DEF setCertificate
<1>3. QED
  BY <1>1, <1>2 DEF createDestination, OnlyOneOfPair, GivesCredentials, tlsBase

\* A secure descriptor skips verification exactly when it is insecure or
\* degraded: one step per branch of createDestination's cascade.
LEMMA SkipVerifyPolicy ==
    ASSUME NEW dv \in Devices, ~dv.plain
    PROVE  createDestination(dv).tls.skipVerify <=> (dv.insecure \/ Degraded(dv))
<1> DEFINE base == tlsBase(dv)
<1>0. base.skipVerify = dv.insecure
  BY DEF tlsBase
<1>1. CASE dv.cert = "" /\ dv.key = ""
  <2>1. createDestination(dv).tls.skipVerify = dv.insecure
    BY <1>0, <1>1 DEF createDestination, OnlyOneOfPair, GivesCredentials, tlsBase
  <2>2. ~Degraded(dv)
    BY <1>1 DEF Degraded
  <2>3. QED
    BY <2>1, <2>2
<1>2. CASE dv.cert # "" /\ dv.key # ""
  <2>1. createDestination(dv).tls.skipVerify = dv.insecure
    BY <1>0, <1>2 DEF createDestination, OnlyOneOfPair, GivesCredentials, tlsBase
  <2>2. ~Degraded(dv)
    BY <1>2 DEF Degraded
  <2>3. QED
    BY <2>1, <2>2
<1>3. CASE (dv.cert = "") # (dv.key = "") /\ HasCredentials(dv)
  <2>1. createDestination(dv).tls.skipVerify = dv.insecure
    BY <1>0, <1>3 DEF createDestination, OnlyOneOfPair, GivesCredentials, tlsBase, HasCredentials
  <2>2. ~Degraded(dv)
    BY <1>3 DEF Degraded
  <2>3. QED
    BY <2>1, <2>2
<1>4. CASE (dv.cert = "") # (dv.key = "") /\ ~HasCredentials(dv)
  <2>1. createDestination(dv).tls.skipVerify = TRUE
    BY <1>4 DEF createDestination, OnlyOneOfPair, GivesCredentials, NoTLS, HasCredentials
  <2>2. Degraded(dv)
    BY <1>4 DEF Degraded
  <2>3. QED
    BY <2>1, <2>2
<1>5. QED
  BY <1>1, <1>2, <1>3, <1>4

-----------------------------------------------------------------------------

\* Every reachable resolution is well typed.
THEOREM TypeCorrect == Spec => []TypeOK
<1>1. Resolved => TypeOK
  BY CreateDestinationType DEF Resolved, TypeOK
<1>2. QED
  BY <1>1, ResolvedInvariant, PTL

\* A device with loadable certificate and key files is always presented with
\* its own pair, never the embedded default (createDestination's cascade).
THEOREM KeypairAlwaysUsed == Spec => []DeviceKeypairUsed
<1>1. Resolved => DeviceKeypairUsed
  BY KeypairPolicy DEF Resolved, DeviceKeypairUsed
<1>2. QED
  BY <1>1, ResolvedInvariant, PTL

\* Verification is skipped only when asked for or in the degraded fallback
\* of createDestination's last branch, for every descriptor.
THEOREM SkipVerifyOnlyWhenAsked == Spec => []SkipVerifyOnlyWhenRequestedOrDegraded
<1>1. Resolved => SkipVerifyOnlyWhenRequestedOrDegraded
  BY SkipVerifyPolicy DEF Resolved, SkipVerifyOnlyWhenRequestedOrDegraded
<1>2. QED
  BY <1>1, ResolvedInvariant, PTL
=============================================================================
