----------------------------- MODULE MCHistory -----------------------------
(* An instance of CredentialHistory for TLC. *)
EXTENDS CredentialHistory

CONSTANTS n1, short, arnA, arnB

MCBaseRoleARN == [s \in ShortNames |-> arnA]

\* No labels, and labels that collide with the controller's own.
MCRoleLabels == {NoLabels, [NoLabels EXCEPT !["type"] = "other"]}
=============================================================================
