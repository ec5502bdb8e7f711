---------------------------- MODULE MCTokenBucket ----------------------------
\* Three tasks at a bucket of two tokens that takes two ticks for one more.
EXTENDS TokenBucket

CONSTANTS c1, c2, c3
=============================================================================
