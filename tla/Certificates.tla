---------------------------- MODULE Certificates ----------------------------
(***************************************************************************)
(* X.509 certificates as far as the server and the agent tell them apart:  *)
(* the key a certificate certifies, the Subject CN and DNS names it lists  *)
(* and the day it expires on.                                              *)
(***************************************************************************)
EXTENDS Naturals

CONSTANTS
    Keys,       \* private keys
    Domains,    \* domain lists a certificate may name
    Blank       \* the empty string

Cert == [key : Keys, domains : Domains \cup {Blank}, notAfter : Nat]

\* The hash of the certificate text, as good as an injective function of it.
Sha256(c) == [sha256 |-> c]

Fingerprint == [sha256 : Cert]

\* Mutant: the pair is not checked.
AnyPair(c, k) == TRUE

\* tls.X509KeyPair: the private key is the one the certificate certifies.
Valid(c, k) == c.key = k

\* Certificate, key, fingerprint and expiry columns that belong together.
Intact(b) ==
    /\ b.key = b.cert.key
    /\ b.fp = Sha256(b.cert)
    /\ b.notAfter = b.cert.notAfter
=============================================================================
