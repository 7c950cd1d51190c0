-------------------------- MODULE MCSupportBundles --------------------------
\* Instance of RateLimit and SupportBundles for TLC: time in tens of seconds for
\* the agents' cadence, the address's heartbeat bucket a twentieth of the real
\* one, which makes an agent of the instance twenty real ones; the buckets of
\* the other routes scaled down.
EXTENDS SupportBundles, TLC

MCLimit == [heartbeat |-> [first |-> [capacity |-> 6, refill |-> 1],
                           second |-> [capacity |-> 2, refill |-> 1]],
            enroll |-> [first |-> [capacity |-> 4, refill |-> 1],
                        second |-> [capacity |-> 1, refill |-> 1]],
            bundle |-> [first |-> [capacity |-> 1, refill |-> 1],
                        second |-> [capacity |-> 2, refill |-> 0]]]
Symmetry == Permutations(Client) \cup Permutations(Upload)
=============================================================================
