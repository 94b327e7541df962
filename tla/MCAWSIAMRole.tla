--------------------------- MODULE MCAWSIAMRole ---------------------------
(* Small instances of AWSIAMRoleController for TLC. *)
EXTENDS AWSIAMRoleController

CONSTANTS n1, short, arnA, arnB, arnC

\* The short name resolves to arnA; the others are always given in full.
MCBaseRoleARN == [s \in ShortNames |-> arnA]

MCNoRoleLabels == {NoLabels}
=============================================================================
