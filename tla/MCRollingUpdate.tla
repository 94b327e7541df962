-------------------------- MODULE MCRollingUpdate --------------------------
(* Small instances of RollingUpdate for TLC. *)
EXTENDS RollingUpdate

CONSTANTS n1, arnA, arnB

\* Every reference is a full ARN.
MCBaseRoleARN == [s \in ShortNames |-> arnA]
MCNoRoleLabels == {NoLabels}
=============================================================================
