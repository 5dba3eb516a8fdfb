-------------------------- MODULE MCLeaseLifecycle --------------------------
EXTENDS LeaseLifecycle

\* None and 0 fall through to the next source of a ttl, a negative one does not; 1 and
\* 2 leave no room for a lost heartbeat, 3 to 5 have the same derived interval, 30 is
\* where the derived interval reaches its bound of 10, 60 is the default.
MCTTLs == {None, 0, -1, 1, 2, 3, 4, 5, 7, 30}

\* No interval, one below and one above most of the ttls.
MCIntervals == {None, 0, 2, 12}

=============================================================================
