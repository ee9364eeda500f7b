--------------------------- MODULE MCWagerOrderly ---------------------------
EXTENDS WagerOrderly
=============================================================================
