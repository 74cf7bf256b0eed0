--------------------------- MODULE MCTokenRenewal ---------------------------
EXTENDS TokenRenewal

CONSTANT main
MCOne == {main}
=============================================================================
