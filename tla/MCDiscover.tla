----------------------------- MODULE MCDiscover ------------------------------
(* Instances of Discover for TLC.                                          *)
EXTENDS Discover

One == Zero + 1

\* "v1.9.1", "1.10", "1.9", "1.09.001" and "v2".
V191 == <<<<LetterV, One>>, <<Nine>>, <<One>>>>
V110 == <<<<One>>, <<One, Zero>>>>
V19 == <<<<One>>, <<Nine>>>>
Padded191 == <<<<One>>, <<Zero, Nine>>, <<Zero, Zero, One>>>>
V2 == <<<<LetterV, One + 1>>>>

Listed(name, version) == [name |-> name, version |-> version]

\* Newer by the second component, older, newer by the first, another tool, and
\* the same version in other words next to another tool.
SomeLists ==
  {{Listed("tool", V110)}, {Listed("tool", V19)}, {Listed("tool", V2)},
   {Listed("other", V110)},
   {Listed("other", V19), Listed("tool", Padded191)}}

ASSUME VersionsAreNumbers
=============================================================================
