---------------------------- MODULE SessionName ----------------------------
(***************************************************************************)
(* The names of the STS credentials getter (credentials_getter.go): the    *)
(* base role ARN found at start-up, the role ARN made of it and of a       *)
(* reference, and the session name made of that ARN's account ID and path, *)
(* cut to what STS accepts.                                                *)
(*                                                                         *)
(* A string is the sequence of the lengths of its parts, split at "/".     *)
(* The first part of an ARN, "arn:<partition>:iam::<account>:role", counts *)
(* for its account ID only.  Replacing ":" by "_" keeps a length, and      *)
(* cutting a level keeps a prefix of it.                                   *)
(*                                                                         *)
(* The recursion of normalizePath is a step per call.  It takes the last   *)
(* of the levels, so name grows at its front.                              *)
(***************************************************************************)
EXTENDS Integers, Sequences, SequencesExt

CONSTANTS
    roleSessionNameMaxSize,  \* 64
    roleARNSuffixSize,       \* characters of ":role"
    MaxParts,                \* bound: parts of a string, split at "/"
    MaxLength                \* bound: characters of a part

ASSUME SessionNameAssumption ==
    {roleSessionNameMaxSize, roleARNSuffixSize, MaxParts, MaxLength} \subseteq Nat

VARIABLES
    pc,
    base,        \* the base role ARN; empty when it is not configured
    discovered,  \* it was found in the metadata of the instance
    role,        \* the reference to get credentials for
    parts,       \* roleARN
    levels,      \* levels of the current call of normalizePath
    remaining,   \* its second argument
    name         \* what is kept of the levels taken so far

vars == <<pc, base, discovered, role, parts, levels, remaining, name>>

Lengths == 0 .. MaxLength
Strings == BoundedSeq(Lengths, MaxParts) \ {<<>>}

TypeOK ==
    /\ pc \in {"base", "prefix", "get", "start", "call", "done", "error",
               "panic", "fatal"}
    /\ base \in {<<>>} \cup Strings
    /\ discovered \in BOOLEAN
    /\ role \in Strings
    /\ parts \in Seq(Nat)
    /\ levels \in Seq(0 .. 2 * MaxLength)
    /\ remaining \in Int
    /\ name \in Seq(0 .. 2 * MaxLength)

Init ==
    /\ pc = "base"
    /\ base \in {<<>>} \cup Strings
    /\ discovered = FALSE
    /\ role \in Strings
    /\ parts = <<>>
    /\ levels = <<>>
    /\ remaining = 0
    /\ name = <<>>

-----------------------------------------------------------------------------
(* Start-up.  An error ends the process. *)

\* Wrong on purpose: the "/" is lost in the Split.
WithoutSlash(arn) == <<arn[1]>>

\* The path of the instance profile is dropped, the "/" is not.
BaseOf(arn) == <<arn[1], 0>>

GetBaseRoleARN ==
    /\ pc = "base"
    /\ base = <<>>
    /\ \/ pc' = "fatal" /\ UNCHANGED <<base, discovered>>
       \/ \E arn \in Strings :
            /\ Len(arn) >= 2
            /\ pc' = "prefix"
            /\ base' = BaseOf(arn)
            /\ discovered' = TRUE
    /\ UNCHANGED <<role, parts, levels, remaining, name>>

BaseRoleARNFlag ==
    /\ pc = "base"
    /\ base # <<>>
    /\ pc' = "prefix"
    /\ UNCHANGED <<base, discovered, role, parts, levels, remaining, name>>

\* Whatever does not parse as an ARN is refused.
GetPrefixFromARN ==
    /\ pc = "prefix"
    /\ pc' \in {"get", "fatal"}
    /\ UNCHANGED <<base, discovered, role, parts, levels, remaining, name>>

-----------------------------------------------------------------------------
(* Get *)

\* base + role: the last part of one and the first part of the other become
\* one.  If that is the ARN's first part, ":role" may no longer end it and then
\* is not trimmed from the account ID.
Concatenated ==
    LET joint == Last(base) + Head(role)
        kept  == IF Len(base) = 1 THEN {0, roleARNSuffixSize} ELSE {0}
    IN  {Front(base) \o <<joint + k>> \o Tail(role) : k \in kept}

\* A reference with the prefix of the base is an ARN; any other is a name.
Get ==
    /\ pc = "get"
    /\ pc' = "start"
    /\ parts' \in {role} \cup Concatenated
    /\ UNCHANGED <<base, discovered, role, levels, remaining, name>>

\* The prefix and suffix of the first part are trimmed; its length here is
\* what is left.
normalizeRoleARN ==
    /\ pc = "start"
    /\ IF Len(parts) < 2
       THEN /\ pc' = "error"
            /\ UNCHANGED <<levels, remaining>>
       ELSE /\ pc' = "call"
            /\ levels' = Tail(parts)
            /\ remaining' = roleSessionNameMaxSize - parts[1]
    /\ UNCHANGED <<base, discovered, role, parts, name>>

\* Wrong on purpose: the dot in front of the level is forgotten.
NoDot(n, rest) == rest - (n - 1) * 2

\* Wrong on purpose: nothing but dots is left for the other levels.
DotsOnly(n, rest) == rest - (n - 1) - 1

\* Wrong on purpose: a dot counted twice.
TwoDots(n, rest) == rest - (n - 1) * 2 - 2

\* Room for the last of n levels.
maxName(n, rest) == rest - (n - 1) * 2 - 1

Cut(last, limit) == IF last > limit THEN limit ELSE last

\* Wrong on purpose: the level is subtracted as long as it was.
LeftUncut(rest, level, kept) == rest - level - 1

Left(rest, level, kept) == rest - kept - 1

\* A negative bound of the slice panics.
normalizePath ==
    /\ pc = "call"
    /\ levels # <<>>
    /\ LET limit == maxName(Len(levels), remaining)
           kept == Cut(Last(levels), limit)
       IN  IF kept < 0
           THEN /\ pc' = "panic"
                /\ UNCHANGED <<levels, remaining, name>>
           ELSE /\ name' = <<kept>> \o name
                /\ levels' = Front(levels)
                /\ remaining' = Left(remaining, Last(levels), kept)
                /\ UNCHANGED pc
    /\ UNCHANGED <<base, discovered, role, parts>>

Return ==
    /\ pc = "call"
    /\ levels = <<>>
    /\ pc' = "done"
    /\ UNCHANGED <<base, discovered, role, parts, levels, remaining, name>>

Next ==
    \/ GetBaseRoleARN
    \/ BaseRoleARNFlag
    \/ GetPrefixFromARN
    \/ Get
    \/ normalizeRoleARN
    \/ normalizePath
    \/ Return

Spec == Init /\ [][Next]_vars
-----------------------------------------------------------------------------
(* Properties *)

\* With a base that was found in the metadata, a bare name is a role of that
\* account whose levels are those of the name, and is never refused: what
\* GetBaseRoleARN returns can be put in front of any name.
DiscoveredBaseTakesNames ==
    discovered /\ pc \in {"start", "error"} =>
        \/ parts = role
        \/ parts = <<base[1]>> \o role /\ pc # "error"

Depth == Len(parts) - 1

\* What a name is long: its pieces and a dot in front of each, added up in the
\* order normalizePath takes them, from the last.
Total(pieces) ==
    LET sum[i \in 0 .. Len(pieces)] ==
            IF i = 0 THEN 0
                     ELSE sum[i - 1] + (pieces[Len(pieces) - i + 1] + 1)
    IN  sum[Len(pieces)]

\* The account ID, and a dot and a piece for every level.
Size == parts[1] + Total(name)

\* STS accepts the length of every session name that is produced.
SessionNameFits == pc = "done" => Size <= roleSessionNameMaxSize

\* "The last level always gets as many chars as possible leaving only a
\* minimum of one char for each of the other levels."
LastLevelGetsTheRest ==
    pc = "done" =>
        LET room == roleSessionNameMaxSize - parts[1] - Depth - (Depth - 1)
        IN  Last(name) = (IF Last(parts) < room THEN Last(parts) ELSE room)

\* No level but the last one disappears from the name, however long the levels
\* behind it are.
OtherLevelsKeepAChar ==
    pc = "done" =>
        /\ Len(name) = Depth
        /\ \A i \in 1 .. Depth - 1 : parts[i + 1] > 0 => name[i] > 0

\* The slice is out of range only for a role whose dots and single characters
\* alone are too long; once the first call succeeds the others do.
PanicsOnlyWhenTooDeep ==
    pc = "panic" => /\ name = <<>>
                    /\ parts[1] + 2 * Depth - 1 > roleSessionNameMaxSize

\* The inductive invariant behind all of them.  What is taken and what remains
\* add up to the limit, and after the first level there is room for a dot and
\* a character of every level in front.
NamesInv ==
    /\ TypeOK
    /\ pc \in {"base", "prefix", "get", "start"} => name = <<>>
    /\ pc \notin {"base", "fatal"} => base # <<>>
    /\ discovered => base = <<base[1], 0>>
    /\ pc = "start" => \A i \in 2 .. Len(parts) : parts[i] \in 0 .. 2 * MaxLength
    /\ DiscoveredBaseTakesNames
    /\ pc = "done" => levels = <<>>
    /\ pc \in {"call", "done"} =>
         /\ Depth > 0
         /\ Len(levels) + Len(name) = Depth
         /\ \A i \in 1 .. Len(levels) : levels[i] = parts[i + 1]
         /\ Size + remaining = roleSessionNameMaxSize
         /\ name # <<>> =>
              /\ remaining >= 2 * Len(levels)
              /\ Last(name) = Cut(Last(parts),
                                  maxName(Depth, roleSessionNameMaxSize - parts[1]))
         /\ \A i \in 1 .. Len(name) - 1 :
                parts[Len(levels) + i + 1] > 0 => name[i] > 0
    /\ PanicsOnlyWhenTooDeep

\* Every role ARN has a session name or is refused with an error.
NeverPanics == pc # "panic"
=============================================================================
