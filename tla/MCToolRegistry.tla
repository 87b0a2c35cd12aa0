--------------------------- MODULE MCToolRegistry ---------------------------
(* Instances of ToolRegistry for TLC.                                      *)
EXTENDS ToolRegistry

Tool(name, version, host) ==
  [name |-> name, version |-> version, tsnetHost |-> host]

\* Two versions of a tool, another tool, and one per reason to refuse it.
SomeTools == {Tool("a", "1", "h"), Tool("a", "2", "h"), Tool("b", "1", "h"),
              Tool("", "1", "h"), Tool("a/b", "1", "h"), Tool("a", "", "h"),
              Tool("b", "1", "")}
=============================================================================
