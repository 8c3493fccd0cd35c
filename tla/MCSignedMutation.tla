-------------------------- MODULE MCSignedMutation --------------------------
(* Envelopes for TLC: windows of every kind in a small time.               *)
EXTENDS SignedMutation

CONSTANTS k1, k2, n1, n2

Signed(k, n, i, x) ==
    [key |-> k, nonce |-> n, sig |-> TRUE, dev |-> TRUE, iat |-> i, exp |-> x]

\* A mutation, one that repeats its nonce after that was pruned, one that would
\* live too long, one whose window wraps around in int64, and one whose
\* signature does not hold.
MCEnv == {Signed(k1, n1, 1, 2), Signed(k1, n1, 4, 5), Signed(k1, n2, 0, 3),
          Signed(k1, n2, -IntMax - 1, 5), [Signed(k1, n2, 1, 2) EXCEPT !.sig = FALSE]}
=============================================================================
