--------------------------- MODULE MCInstanceList ---------------------------
EXTENDS InstanceList

CONSTANTS h1, h2
=============================================================================
