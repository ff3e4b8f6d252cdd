---------------------------- MODULE MCRateLimit ----------------------------
EXTENDS RateLimit, TLC

CONSTANTS c1, c2, c3, k1, k2

=============================================================================
