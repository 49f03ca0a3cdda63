---------------------------- MODULE MCTokenBucket ----------------------------
(* A bucket of two tokens of two parts each.  A tick is half a second and    *)
(* adds one part, and the TTL is no longer than it takes to fill the bucket. *)
EXTENDS TokenBucket

\* Less than a token, one token, all of them, and more than there can be.
MCAmounts == {1, 2, 4, 5}

\* The rate limit middleware and the tests take one token at a time.
OneToken == {2}
=============================================================================
