----------------------------- MODULE MC_FileSys -----------------------------
(* Instantiates FileSys for TLC: paths of one or two names, absolute or   *)
(* relative.                                                              *)
EXTENDS FileSys, TLC

Abs(t) == [abs |-> TRUE, toks |-> t]
Rel(t) == [abs |-> FALSE, toks |-> t]

\* "/a", "a" for every name
OnePaths == {Abs(<<n>>) : n \in Names} \cup {Rel(<<n>>) : n \in Names}

\* "/a/b" for every two names
TwoPaths == {Abs(<<m, n>>) : m, n \in Names}

\* "/" and "..": back to the root and up from a working directory
RootPaths == {Abs(<<>>)}
UpPaths == RootPaths \cup {Rel(<<DOTDOT>>)}

MCPaths == OnePaths \cup TwoPaths

\* MCPaths with "/" and ".."
MCUpPaths == MCPaths \cup UpPaths
\* "/a", "/b", "a" and "/a/b": enough for a link in the middle of a path
LinkPaths == {Abs(<<n>>) : n \in Names} \cup {Rel(<<n>>) : n \in Names}
             \cup {Abs(<<CHOOSE n \in Names : TRUE, CHOOSE n \in Names : TRUE>>)}

MCLinkTargets == {Abs(<<n>>) : n \in Names}
MCWrites == {<<0, 1>>, <<4, 4>>}
\* whole-sector reads of the first two sectors
MCReads == {<<0, 4>>, <<4, 4>>}
=============================================================================
