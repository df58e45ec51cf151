-------------------------------- MODULE Meta --------------------------------
(***************************************************************************)
(* The meta module: what the newest stored verdicts of the other modules   *)
(* say together, by aisle and for the system.  A bundle has                 *)
(*   components  {[module, id, tier, cross]}, their newest rows              *)
(*   first       the controller node whose row the store got first           *)
(***************************************************************************)
EXTENDS Health

System == "system"

ScopeOf(m) == IF AisleOf[m.id] = NoAisle THEN System ELSE AisleOf[m.id]

MetaBundle(b) ==
    IsFiniteSet(b.components) /\ \A c \in b.components : c.tier \in Range(Tiers)

(* _correlate, of a set of members: edges are <<module, module>> pairs, both *)
(* flagged here; what only the system scope has is neutral.                  *)
Correlate(here) ==
    LET bad     == {m \in here : Flagged(m.tier)}
        modules == {m.module : m \in bad}
    IN  [ modules  |-> modules,
          breadth  |-> Cardinality(modules),
          worst    |-> IF bad = {} THEN "ok" ELSE WorstOf({m.tier : m \in bad}),
          edges    |-> {<<m.module, t>> : m \in bad, t \in modules} \cap
                       UNION {{m.module} \X (m.cross \ {m.module}) : m \in bad},
          metaFlag |-> \E m \in bad : "meta" \in m.cross,
          controller |-> "ok",
          compound |-> 0 ]

(* The tier of the first controller node decides for all of them. *)
MetaFeatures(b) ==
    LET in(scope) == {m \in b.components : ScopeOf(m) = scope}
        aisles    == {ScopeOf(m) : m \in b.components} \ {System}
        aisle     == [a \in aisles |-> Correlate(in(a))]
        first     == {m \in in(System) : m.module = "controller" /\ m.id = b.first}
        system == [Correlate(in(System)) EXCEPT
                        !.controller = IF first = {} THEN @ ELSE (CHOOSE m \in first : TRUE).tier,
                        !.compound   = Cardinality({a \in aisles : aisle[a].breadth >= 2})]
    IN  [s \in aisles \cup {System} |-> IF s = System THEN system ELSE aisle[s]]

(* The members of b are those of a and perhaps more, each with a tier that   *)
(* is no better and no fewer links to other modules.                         *)
MembersWorsen(a, b) ==
    /\ MetaBundle(a) /\ MetaBundle(b) /\ a.first = b.first
    /\ \A c, d \in b.components : c.module = d.module /\ c.id = d.id => c = d
    /\ \A c \in a.components : \E d \in b.components :
          /\ d.module = c.module /\ d.id = c.id
          /\ Rank(d.tier) <= Rank(c.tier) /\ c.cross \subseteq d.cross

(* Runs in a row, this one included, with two modules flagged here. *)
CompoundRuns(f, hist) ==
    IF f.breadth < 2 THEN 0
    ELSE Min({i \in DOMAIN hist : hist[i].facts.breadth < 2} \cup {Len(hist) + 1})

(* Mutant: the worst tier counts also when a single module has it. *)
MetaPenaltiesTwice(f, compound) ==
    LET by(tier, points) == IF Flagged(tier) THEN points[Rank(tier)] * U ELSE 0
    IN  << <<"breadth",   Capped(9 * U * (f.breadth - 1), 45)>>,
           <<"severity",  by(f.worst, <<18, 8, 2>>)>>,
           <<"chain",     Capped(8 * U * Cardinality(f.edges), 24)>>,
           <<"meta_flag", Capped(IF f.metaFlag THEN 18 * U ELSE 0, 18)>> >>

MetaPenalties(f, compound) ==
    LET by(tier, points) == IF Flagged(tier) THEN points[Rank(tier)] * U ELSE 0
    IN  << <<"breadth",     Capped(9 * U * (f.breadth - 1), 45)>>,
           <<"severity",    IF f.breadth >= 2
                            THEN by(f.worst, <<18, 8, 2>>) ELSE 0>>,
           <<"chain",       Capped(8 * U * Cardinality(f.edges), 24)>>,
           <<"persistence", Capped(6 * U * (compound - 1), 24)>>,
           <<"meta_flag",   Capped(IF f.metaFlag THEN 18 * U ELSE 0, 18)>>,
           <<"controller_trigger", by(f.controller, <<30, 15, 5>>)>>,
           <<"aisle_breadth", AtMost(10 * U * f.compound, 40 * U)>> >>

MetaCause(scope, f) ==
    LET compound == f.breadth >= 2 \/ (scope = System /\ (f.controller # "ok" \/ f.compound > 0))
    IN  IF compound THEN "compound"
        ELSE IF f.breadth = 0 \/ scope = System THEN "nominal"
        ELSE IF f.metaFlag THEN "escalation"
        ELSE "single-subsystem"

MetaScore(feats, stored) ==
    [s \in DOMAIN feats |->
        LET hist == History(stored, s)
            f    == feats[s]
            raw  == ScoreOf(Total(MetaPenalties(f, CompoundRuns(f, hist))))
            cold == 500 + (300 * AtMost(Len(hist), MinRunsForTrend)) \div MinRunsForTrend
                        + (IF hist = <<>> THEN 0 ELSE 50)
        IN  Judge(raw, Trend(hist, Stored(raw)), <<24, 96, 336>>,
                  TrendConfidence(720, hist), AtMost(cold, 850), MetaCause(s, f),
                  f.modules, [breadth |-> f.breadth])]
=============================================================================
