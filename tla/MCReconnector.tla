--------------------------- MODULE MCReconnector ---------------------------
(* Instances of Reconnector for TLC.                                       *)
EXTENDS Reconnector

CONSTANTS p1, p2        \* patterns

MCPatterns == {p1, p2}

Build(on, retries, initial, max) ==
    [enabled |-> on, maxRetries |-> retries, initialDelay |-> initial, maxDelay |-> max,
     backoffFactor |-> 2]

\* No limit, said in either way, and a limit; an initial delay below the
\* maximum and one beyond it.
MCBuilds == {Build(TRUE, -1, 3, 8), Build(TRUE, 0, 9, 8), Build(TRUE, 1, 3, 8), Build(FALSE, 2, 3, 8)}

\* The power the back-off is stated with is the one everybody knows.
ASSUME PowerIsPower == \A b \in 1..4, n \in 0..5 : Power(b, n) = b ^ n
=============================================================================
