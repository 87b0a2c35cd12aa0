--------------------------- MODULE MCEventStream ----------------------------
(* Instances of EventStream for TLC.                                       *)
EXTENDS EventStream

Line(field, value) == [field |-> field, value |-> value]

\* Every kind of line, and for each field the values the code tells apart.
AllLines ==
  {Line("blank", ""), Line("ignored", ""),
   Line("event", "port.bound"), Line("event", "ports.snapshot"),
   Line("event", "foreign"), Line("event", "error"), Line("event", ""),
   Line("data", "whole"), Line("data", "kind"), Line("data", "open"), Line("data", "close"),
   Line("data", "report"), Line("data", "other"), Line("data", "empty"),
   Line("id", 0), Line("id", 7), Line("id", NaN)}

\* Objects of the type PortUpdate, one of them over two lines, neither of which
\* is JSON by itself; an object that is none, but says an error; and a number.
OwnTexts == {<<"whole">>, <<"kind">>, <<"open", "close">>}
KindTexts == {<<"kind">>}
ReportTexts == OwnTexts \cup {<<"report">>}
JSONTexts == ReportTexts \cup {<<"other">>}
=============================================================================
