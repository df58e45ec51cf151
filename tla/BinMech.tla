------------------------------- MODULE BinMech ------------------------------
(***************************************************************************)
(* The bin module: slots with a blocked tote.  Like the tracker it has only *)
(* the slots of the present rows.  A bundle has                             *)
(*   blocked  {[slot, tote, age]}, age in hours before the run, negative     *)
(*            when the clock of the run is behind the data                  *)
(*   past     slot -> rows of the frozen block history                      *)
(***************************************************************************)
EXTENDS Health

BinBundle(b) ==
    /\ IsFiniteSet(b.blocked) /\ \A r \in b.blocked : r.age \in Int
    /\ \A s \in DOMAIN b.past : b.past[s] \in Nat

BinFeatures(b) ==
    LET slots  == {r.slot : r \in b.blocked}
        ahead  == Min({0} \cup {r.age : r \in b.blocked})
        at(s)  == {r \in b.blocked : r.slot = s}
        here(a)  == Cardinality({s \in slots : AisleOf[s] = a})
        aisles == {AisleOf[s] : s \in slots} \ {NoAisle}
        \* in quarters, so that medians of medians are whole
        counts == [a \in aisles |-> 4 * here(a)]
        usual  == Median(counts)
        mad    == Median([a \in aisles |-> Abs(counts[a] - usual)])
        crowded(a, n) ==
                      /\ a # NoAisle /\ Cardinality(aisles) >= 2
                      /\ n >= 5
                      /\ 8 * n >= 3 * usual
                      /\ 40000 * n >= 10000 * usual + 29652 * mad
        age(s) == Max({r.age - ahead : r \in at(s)})
        ages   == [s \in slots |-> 1000 * age(s)]
    IN  [s \in slots |->
           [ age     |-> age(s),
             totes   |-> Cardinality({r.tote : r \in at(s)}),
             past    |-> IF s \in DOMAIN b.past THEN b.past[s] ELSE 0,
             crowded |-> crowded(AisleOf[s], here(AisleOf[s])),
             z       |-> RobustZ(ages[s], ages) ]]

(* Older than the peers counts only for a block of six hours. *)
BinPenalties(f, runs) ==
    << <<"blocked_base", Capped(10 * U, 10)>>,
       <<"block_age",    Capped(2 * U * (f.age - 2), 35)>>,
       <<"cluster",      Capped(12 * U * (f.totes - 1), 24)>>,
       <<"historical",   Capped((4 * U * f.past) \div 10, 12)>>,
       <<"recurrence",   Capped(8 * U * runs, 40)>>,
       <<"peer_z",       Capped(IF f.age < 6 THEN 0 ELSE 40 * f.z, 14)>> >>

BinNoBetter(f, g) ==
    /\ NoLower(f, g, [age |-> 2, totes |-> 1, past |-> 0])
    /\ f.age >= 6 => NoLower(f, g, [z |-> 0])

(* The flat penalty of every blocked slot is not a cause. *)
BinCause(pen) ==
    LET top == TopFactor(Tail(pen), Material)
    IN  IF top = "none" THEN "healthy" ELSE top

BinScore(feats, stored) ==
    [s \in DOMAIN feats |->
        LET hist == History(stored, s)
            f    == feats[s]
            runs == Len(hist)
            pen  == BinPenalties(f, runs)
            raw  == ScoreOf(Total(pen))
            evidence == (1000 * f.age) \div 12 + 10 * AtMost(f.past, 50)
                        + (IF runs = 0 THEN 0 ELSE 200)
            cold == 420 + (300 * AtMost(evidence, 1000)) \div 1000
                        + (IF runs = 0 THEN 0 ELSE 120)
        IN  Judge(raw, Trend(hist, Stored(raw)), <<48, 240, 720>>,
                  TrendConfidence(720, hist), AtMost(cold, 850), BinCause(pen),
                  IF f.crowded THEN {"shuttle"} ELSE {}, [known |-> TRUE])]
=============================================================================
