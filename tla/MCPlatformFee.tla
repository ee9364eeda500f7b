---------------------------- MODULE MCPlatformFee ----------------------------
EXTENDS PlatformFee

\* Every amount of the first two tiers' edge, and both sides of every threshold
\* that fits TLC's 32-bit integers (10000 * amount < 2^31).
MCAmounts ==
  0 .. 130 \cup 990 .. 1010 \cup 9995 .. 10005 \cup 99995 .. 100005
  \cup {150000, 214748}
=============================================================================
