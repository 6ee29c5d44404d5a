----------------------------- MODULE MCJwksCache -----------------------------
(* The documents of the identity provider for TLC. *)
EXTENDS JwksCache

CONSTANTS k1, k2

\* The provider rotates from k1 to k2, which has an alg that is not
\* recognised; it also publishes a shared secret, a key for encryption and one
\* without a kid.
MCKey(k) == [kid |-> k, kty |-> "RSA", alg |-> "RS256"]
MCDoc == << {MCKey(k1), [kid |-> "secret", kty |-> "oct", alg |-> "none"]},
            {[MCKey(k2) EXCEPT !.alg = "unknown"], MCKey(NoKid),
              [MCKey("enc") EXCEPT !.alg = "RSA-OAEP"]} >>
MCSignKid == <<k1, k2>>
=============================================================================
