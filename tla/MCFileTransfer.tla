--------------------------- MODULE MCFileTransfer ---------------------------
(* Instances of FileTransfer for TLC.                                      *)
EXTENDS FileTransfer

\* The first file is edited from short to longer or back; both come and go.  The
\* second may hold what the first does.
TwoFiles == <<{<<"a">>, <<"b", "c">>}, {<<"a">>}>>

\* A directory with a dot in front of one name.
Site == <<"site">>
DotPaths == <<<<"site", "/", ".", "env">>, <<"site", "/", "env">>>>
=============================================================================
