----------------------------- MODULE MCCacheTable -----------------------------
EXTENDS CacheTable

MCCapacities == {3, 5, 7}
MCPrimeAtLeast(n) == CHOOSE p \in {3, 5, 7, 11, 13, 17} :
                       p >= n /\ \A q \in {3, 5, 7, 11, 13, 17} : q >= n => p <= q
MCHash(key) == key
=============================================================================
