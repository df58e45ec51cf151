----------------------------- MODULE Dashboard ------------------------------
(***************************************************************************)
(* What the overview page shows of the newest rows of the components        *)
(* (webapp/services.py).  A component is [module, id, score, tier, ttm].    *)
(***************************************************************************)
EXTENDS Health

TopLimit == 12

(* latest_components and ranked: worst tier first, then the lowest score.   *)
Before(a, b) == Rank(a.tier) * 100 * U + a.score < Rank(b.tier) * 100 * U + b.score

TileOf(comps) == IF comps = {} THEN "unknown" ELSE WorstOf({c.tier : c \in comps})

TierCounts(comps) ==
    [t \in Range(Tiers) |-> Cardinality({c \in comps : c.tier = t})]

(* Ten bins of ten points; a full score is in the last. *)
InBin(score, bin) ==
    \/ 1000 * bin <= score /\ score < 1000 * (bin + 1)
    \/ bin = 9 /\ score = Full

Histogram(comps) ==
    [bin \in 0..9 |-> Cardinality({c \in comps : InBin(c.score, bin)})]

AtRisk(comps) == {c \in comps : Flagged(c.tier)}

(* The list of those at risk; which of equals are shown is left open. *)
TopAtRisk(comps) ==
    LET all == AtRisk(comps)
    IN  CHOOSE top \in kSubset(AtMost(Cardinality(all), TopLimit), all) :
            \A c \in all \ top, t \in top : ~Before(c, t)

(* A bucket has the hours above the first number and up to the second. *)
TtmBuckets == << <<-1, 24>>, <<24, 72>>, <<72, 168>>, <<168, Year>> >>

(* Mutant: up to, but not, the second number. *)
InBucketBefore(ttm, bucket) == bucket[1] <= ttm /\ ttm < bucket[2]

InBucket(ttm, bucket) == bucket[1] < ttm /\ ttm <= bucket[2]

TtmCounts(comps) ==
    [i \in DOMAIN TtmBuckets |->
        Cardinality({c \in AtRisk(comps) : c.ttm # None /\ InBucket(c.ttm, TtmBuckets[i])})]

Imminent(comps) == Cardinality({c \in AtRisk(comps) : c.ttm # None /\ c.ttm <= 24})

(* The heatmap: the worst tier of a module in an aisle. *)
AisleMatrix(comps) ==
    LET placed == {c \in comps : AisleOf[c.id] # NoAisle}
        at(a, m) == {c \in placed : AisleOf[c.id] = a /\ c.module = m}
    IN  [cell \in {<<AisleOf[c.id], c.module>> : c \in placed} |-> TileOf(at(cell[1], cell[2]))]
=============================================================================
