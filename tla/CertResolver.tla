---------------------------- MODULE CertResolver ----------------------------
(***************************************************************************)
(* createDestination (src/unnamed/part_001:50-96) and the certificate      *)
(* loaders it calls (setCertificate, getCertPool, getCertPoolDefault,      *)
(* part_001:142-168): the transport-security and credential policy a      *)
(* device descriptor resolves to.  File contents are abstracted to whether *)
(* a path is empty, names a loadable file ("ok"), or names a file that     *)
(* cannot be read or parsed ("bad").  The loaders only log their errors,   *)
(* so a bad file yields an empty pool or a zero certificate.               *)
(*                                                                         *)
(* The state is one resolution: the descriptor ConnectTarget was given and *)
(* the Destination it produced; each step resolves another descriptor.     *)
(***************************************************************************)
EXTENDS Naturals

\* A path field of the descriptor: empty, a loadable file, a broken file.
Paths == {"", "ok", "bad"}

\* A user or password field: empty or set.
Strs == {"", "set"}

\* topodevice.Device, the fields createDestination reads.
Devices ==
    [plain: BOOLEAN, insecure: BOOLEAN, caCert: Paths, cert: Paths, key: Paths,
     user: Strs, password: Strs]

\* tls.Config as createDestination fills it: RootCAs is nil, the embedded
\* ONF CA, the pool read from the CA file, or an empty pool; Certificates
\* is empty, the embedded default pair, the device's pair, or a zero
\* tls.Certificate returned by a failed LoadX509KeyPair.
TLSConfigs ==
    [enabled: BOOLEAN,
     skipVerify: BOOLEAN,
     rootCAs: {"nil", "onfca", "file", "empty"},
     certs: {"none", "default", "device", "zero"}]

\* A nil d.TLS: the connection is plaintext.
NoTLS == [enabled |-> FALSE, skipVerify |-> FALSE, rootCAs |-> "nil", certs |-> "none"]

\* client.Destination without the address fields.
Destinations == [tls: TLSConfigs, creds: {"none", "userpass"}]

\* getCertPool: a pool with the file's certificates, or empty if the file
\* cannot be read or holds no PEM certificate.
getCertPool(caPath) == IF caPath = "ok" THEN "file" ELSE "empty"

\* getCertPoolDefault: the embedded ONF CA.
getCertPoolDefault == "onfca"

\* Mutant of setCertificate: the load error is stored in place of a
\* certificate.
setCertificateError(pathCert, pathKey) ==
    IF pathCert = "ok" /\ pathKey = "ok" THEN "device" ELSE "error"

\* setCertificate: the loaded pair, or the zero Certificate on error.
setCertificate(pathCert, pathKey) ==
    IF pathCert = "ok" /\ pathKey = "ok" THEN "device" ELSE "zero"

\* The tls.Config of a secure connection before the client identity is
\* chosen: InsecureSkipVerify from the Insecure flag (part_001:60-66) and
\* RootCAs from the CA path or the embedded CA (part_001:67-72).
tlsBase(dv) ==
    [enabled |-> TRUE,
     skipVerify |-> dv.insecure,
     rootCAs |-> IF dv.caCert = "" THEN getCertPoolDefault ELSE getCertPool(dv.caCert),
     certs |-> "none"]

\* Exactly one of the certificate and key paths is given.
OnlyOneOfPair(dv) == (dv.cert = "") # (dv.key = "")

\* Username and password are both given.
GivesCredentials(dv) == dv.user # "" /\ dv.password # ""

\* Mutant of createDestination: the credentials branch is tested before
\* the certificate/key branch.
CreateDestinationCredsFirst(dv) ==
    LET base == tlsBase(dv) IN
        IF dv.plain THEN [tls |-> NoTLS, creds |-> "none"]
        ELSE CASE dv.cert = "" /\ dv.key = "" ->
                    [tls |-> [base EXCEPT !.certs = "default"], creds |-> "none"]
               [] ~(dv.cert = "" /\ dv.key = "") /\ GivesCredentials(dv) ->
                    [tls |-> base, creds |-> "userpass"]
               [] dv.cert # "" /\ dv.key # "" /\ ~GivesCredentials(dv) ->
                    [tls |-> [base EXCEPT !.certs = setCertificate(dv.cert, dv.key)],
                     creds |-> "none"]
               [] OnlyOneOfPair(dv) /\ ~GivesCredentials(dv) ->
                    [tls |-> [NoTLS EXCEPT !.enabled = TRUE, !.skipVerify = TRUE],
                     creds |-> "none"]

\* Mutant of createDestination: the default-certificate branch is taken
\* when either path is empty (|| for &&); the later branches are then
\* unreachable.
CreateDestinationEitherEmpty(dv) ==
    LET base == tlsBase(dv) IN
        IF dv.plain THEN [tls |-> NoTLS, creds |-> "none"]
        ELSE CASE dv.cert = "" \/ dv.key = "" ->
                    [tls |-> [base EXCEPT !.certs = "default"], creds |-> "none"]
               [] dv.cert # "" /\ dv.key # "" ->
                    [tls |-> [base EXCEPT !.certs = setCertificate(dv.cert, dv.key)],
                     creds |-> "none"]

\* createDestination: Plain gives no TLS at all.  Otherwise a tls.Config
\* with InsecureSkipVerify from the Insecure flag and RootCAs from the CA
\* path; then the if/else-if chain, whose arms are written here with
\* disjoint guards: no cert and no key -> default pair; cert and key -> the
\* device's pair; only one of them but user and password -> credentials;
\* only one of them and no credentials -> a fresh
\* tls.Config{InsecureSkipVerify: true} replaces everything.
createDestination(dv) ==
    LET base == tlsBase(dv) IN
        IF dv.plain THEN [tls |-> NoTLS, creds |-> "none"]
        ELSE CASE dv.cert = "" /\ dv.key = "" ->
                    [tls |-> [base EXCEPT !.certs = "default"], creds |-> "none"]
               [] dv.cert # "" /\ dv.key # "" ->
                    [tls |-> [base EXCEPT !.certs = setCertificate(dv.cert, dv.key)],
                     creds |-> "none"]
               [] OnlyOneOfPair(dv) /\ GivesCredentials(dv) ->
                    [tls |-> base, creds |-> "userpass"]
               [] OnlyOneOfPair(dv) /\ ~GivesCredentials(dv) ->
                    [tls |-> [NoTLS EXCEPT !.enabled = TRUE, !.skipVerify = TRUE],
                     creds |-> "none"]

VARIABLES
    device,       \* the descriptor ConnectTarget resolves
    destination   \* what createDestination returned for it

vars == <<device, destination>>

TypeOK ==
    /\ device \in Devices
    /\ destination \in Destinations

Init ==
    /\ device \in Devices
    /\ destination = createDestination(device)

\* ConnectTarget resolves the next descriptor it is given.
Resolve ==
    \E dv \in Devices :
        /\ device' = dv
        /\ destination' = createDestination(dv)

Spec == Init /\ [][Resolve]_vars

-----------------------------------------------------------------------------
(***************************************************************************)
(* Properties: the policy of spec section 4.1, stated on its own terms and *)
(* compared with what createDestination returns.                          *)
(***************************************************************************)

\* Both client certificate paths are given.
HasCertAndKey(dv) == dv.cert # "" /\ dv.key # ""

\* Username and password are both given.
HasCredentials(dv) == dv.user # "" /\ dv.password # ""

\* The ambiguous case of spec 4.1 (iv): exactly one of cert/key given and
\* no credentials to fall back on.
Degraded(dv) ==
    /\ (dv.cert = "") # (dv.key = "")
    /\ ~HasCredentials(dv)

\* A device naming loadable cert and key files is presented with exactly
\* that pair, never the embedded default, whatever else it sets
\* (spec 4.1 (c)(i), section 8).
DeviceKeypairUsed ==
    (~device.plain /\ HasCertAndKey(device) /\ device.cert = "ok" /\ device.key = "ok")
        => destination.tls.certs = "device"

\* Certificate verification is skipped exactly when the device asks for it
\* (Insecure) or its client identity is partial with no credentials: the
\* only silent security downgrade is the logged fallback of 4.1 (iv).
SkipVerifyOnlyWhenRequestedOrDegraded ==
    ~device.plain =>
        (destination.tls.skipVerify <=> (device.insecure \/ Degraded(device)))

\* A secure device with a username and password and no client certificate
\* pair authenticates with those credentials (spec 4.1 (c)(ii)).
CredentialsUsedWhenGiven ==
    (~device.plain /\ HasCredentials(device) /\ ~HasCertAndKey(device))
        => destination.creds = "userpass"

=============================================================================
