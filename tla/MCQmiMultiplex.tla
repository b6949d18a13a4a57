--------------------------- MODULE MCQmiMultiplex ---------------------------
\* Two descriptors, for processes that come and go, and one service.
EXTENDS QmiMultiplex
MCClients == {1, 2}
OneClient == {1}
=============================================================================
