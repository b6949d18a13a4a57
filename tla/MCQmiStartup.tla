--------------------------- MODULE MCQmiStartup ---------------------------
\* Two processes, one started after the other or both at once.
EXTENDS QmiStartup
MCProcs == {1, 2}
=============================================================================
