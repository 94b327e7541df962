----------------------------- MODULE MCSecrets -----------------------------
(* A small instance of SecretsController for TLC. *)
EXTENDS SecretsController

CONSTANTS n1, n2, p1, r1, r2

\* Someone labels a secret with the bare name of r1 in one namespace.
MCUnprefixed == {<<r1, n1>>}
=============================================================================
