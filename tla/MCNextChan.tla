----------------------------- MODULE MCNextChan -----------------------------
(* Feeds long enough to wrap the ring, with damage anywhere.               *)
EXTENDS NextChan

CONSTANT MaxRecords

FeedsUpTo == UNION {[1 .. n -> {"whole", "damaged"}] : n \in 0 .. MaxRecords}

\* At most one damaged record: what follows the first is never looked at.
OneDamage ==
    {f \in FeedsUpTo : \A j, k \in DOMAIN f :
        f[j] = "damaged" /\ f[k] = "damaged" => j = k}
=============================================================================
