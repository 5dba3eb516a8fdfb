---------------------------- MODULE MCServiceAuth ----------------------------
EXTENDS ServiceAuth, TLC

CONSTANTS k1, k2, k3

\* Two plain keys and one that is not ASCII.
MCNonAscii == {k3}

Symmetry   == Permutations({k1, k2})

\* A service's route with and without the internal token, and a broker's route.
MCRoutes == { [key |-> "own", accepts |-> FALSE], [key |-> "own", accepts |-> TRUE],
              [key |-> "internal", accepts |-> TRUE] }

\* Every kind of source: the setting, a public file and an internal one that counts for
\* both resolutions, a public variable, and a variable of the internal one alone.  The
\* default file, the last of both orders, stays blank.
MCUsed == {"configured", "API_KEY_FILE", "INTERNAL_API_KEY_FILE", "API_KEY",
           "ORC_INTERNAL_API_KEY"}

=============================================================================
