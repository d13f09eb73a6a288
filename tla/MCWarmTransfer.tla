---------------------------- MODULE MCWarmTransfer ----------------------------
EXTENDS WarmTransfer

CONSTANTS home, other

OnePod == {home}
TwoPods == {home, other}
AllFailures == Kinds
=============================================================================
