----------------------------- MODULE FleetProofs ----------------------------
(***************************************************************************)
(* Theorems about the predictive modules over their runs, for any plant,   *)
(* any finite readings and any number of runs: what the store holds of a   *)
(* component, the tier its score shows, and what the meta module makes of  *)
(* the others: it counts no fault twice and hears every controller node.   *)
(***************************************************************************)
EXTENDS Fleet, ScoringProofs

(* The overview *)

(* Every time to maintenance up to a year is in one bucket and no other, and *)
(* the first one is that of the components counted as imminent.              *)
THEOREM BucketsPartition ==
    ASSUME NEW ttm \in 0..Year
    PROVE  /\ \E i \in DOMAIN TtmBuckets : /\ InBucket(ttm, TtmBuckets[i])
                                           /\ \A j \in DOMAIN TtmBuckets :
                                                InBucket(ttm, TtmBuckets[j]) => j = i
           /\ InBucket(ttm, TtmBuckets[1]) <=> ttm <= 24
<1>1. /\ DOMAIN TtmBuckets = 1..4
      /\ InBucket(ttm, TtmBuckets[1]) <=> ttm <= 24
      /\ InBucket(ttm, TtmBuckets[2]) <=> 24 < ttm /\ ttm <= 72
      /\ InBucket(ttm, TtmBuckets[3]) <=> 72 < ttm /\ ttm <= 168
      /\ InBucket(ttm, TtmBuckets[4]) <=> 168 < ttm
  BY SMT DEF TtmBuckets, InBucket
<1> QED
  BY <1>1, SMT

(* Every score is in one bin of the histogram and no other. *)
THEOREM BinsPartition ==
    ASSUME NEW score \in 0..Full
    PROVE  \E bin \in 0..9 : /\ InBin(score, bin)
                             /\ \A other \in 0..9 : InBin(score, other) => other = bin
<1>0. Full = 10000 /\ score \in Nat /\ score <= 10000
  <2>1. Full = 10000
    BY SMT DEF Full
  <2>2. score \in Nat /\ score <= Full
    BY Limits
  <2> QED
    BY <2>1, <2>2
<1>1. CASE score = Full
  <2>1. InBin(score, 9) /\ \A other \in 0..9 : InBin(score, other) => other = 9
    BY <1>0, <1>1, SMT DEF InBin
  <2> QED
    BY <2>1
<1>2. CASE score # Full
  <2> DEFINE b == score \div 1000
  <2>1. b \in 0..9 /\ 1000 * b <= score /\ score < 1000 * (b + 1)
    BY <1>0, <1>2, SMT
  <2>2. \A other \in 0..9 : InBin(score, other) => other = b
    BY <1>0, <1>2, <2>1, SMT DEF InBin
  <2>3. InBin(score, b)
    BY <2>1 DEF InBin
  <2> QED
    BY <2>1, <2>2, <2>3
<1> QED
  BY <1>1, <1>2
-----------------------------------------------------------------------------
(* The meta module *)

(* What is flagged among these members is of one module, which does not ask  *)
(* for escalation.                                                           *)
Lone(here) ==
    LET bad == {m \in here : Flagged(m.tier)}
    IN  /\ \A m, n \in bad : m.module = n.module
        /\ \A m \in bad : "meta" \notin m.cross

LEMMA OneModule ==
    ASSUME NEW here, Lone(here)
    PROVE  /\ Correlate(here).breadth \in {0, 1}
           /\ Correlate(here).edges = {}
           /\ ~Correlate(here).metaFlag
<1> DEFINE bad     == {m \in here : Flagged(m.tier)}
           modules == {m.module : m \in bad}
           chain   == {<<m.module, t>> : m \in bad, t \in modules} \cap
                      UNION {{m.module} \X (m.cross \ {m.module}) : m \in bad}
<1>1. /\ Correlate(here).breadth = Cardinality(modules)
      /\ Correlate(here).edges = chain
      /\ Correlate(here).metaFlag = (\E m \in bad : "meta" \in m.cross)
  BY DEF Correlate
<1>2. Cardinality(modules) \in {0, 1}
  <2>1. CASE bad = {}
    <3>1. modules = {}
      BY <2>1
    <3> QED
      BY <3>1, FS_EmptySet
  <2>2. CASE bad # {}
    <3>1. PICK m \in bad : TRUE
      BY <2>2
    <3>2. modules = {m.module}
      BY <3>1 DEF Lone
    <3> HIDE DEF modules
    <3> QED
      BY <3>2, FS_Singleton
  <2> QED
    BY <2>1, <2>2
<1>3. chain = {}
  <2> SUFFICES ASSUME NEW e \in chain PROVE FALSE
    OBVIOUS
  <2>1. PICK m \in bad : e \in {m.module} \X (m.cross \ {m.module})
    OBVIOUS
  <2>2. PICK n \in bad, t \in modules : e = <<n.module, t>>
    OBVIOUS
  <2>3. t # m.module
    BY <2>1, <2>2
  <2>4. PICK o \in bad : t = o.module
    BY <2>2
  <2> QED
    BY <2>1, <2>3, <2>4 DEF Lone
<1>4. ~(\E m \in bad : "meta" \in m.cross)
  BY DEF Lone
<1> HIDE DEF bad, modules, chain
<1> QED
  BY <1>1, <1>2, <1>3, <1>4

(* The features of an aisle are what its members say together. *)
LEMMA AisleFeatures ==
    ASSUME NEW b, NEW s \in DOMAIN MetaFeatures(b), s # System
    PROVE  MetaFeatures(b)[s] = Correlate({c \in b.components : ScopeOf(c) = s})
BY DEF MetaFeatures

(* Nothing is taken for a single module. *)
LEMMA NothingTaken ==
    ASSUME NEW f, f.breadth \in {0, 1}, f.edges = {}, ~f.metaFlag,
           f.controller = "ok", f.compound = 0
    PROVE  Total(MetaPenalties(f, 0)) = 0
<1>1. Cardinality(f.edges) = 0
  BY FS_EmptySet
<1> QED
  BY <1>1, SMT DEF Total, MetaPenalties, Capped, AtMost, Positive, U, Flagged

LEMMA LoneIsOk ==
    ASSUME NEW here, Lone(here), NEW hist
    PROVE  LET f == Correlate(here)
           IN  TierOf(ScoreOf(Total(MetaPenalties(f, CompoundRuns(f, hist))))) = "ok"
<1> DEFINE f == Correlate(here)
<1>1. f.controller = "ok" /\ f.compound = 0
  BY DEF Correlate
<1>2. f.breadth \in {0, 1} /\ f.edges = {} /\ ~f.metaFlag
  BY OneModule
<1> HIDE DEF f
<1>3. CompoundRuns(f, hist) = 0
  BY <1>2, SMT DEF CompoundRuns
<1>4. Total(MetaPenalties(f, CompoundRuns(f, hist))) = 0
  <2>1. Total(MetaPenalties(f, 0)) = 0
    BY <1>1, <1>2, NothingTaken
  <2> QED
    BY <1>3, <2>1
<1>5. ScoreOf(0) = 100 * U /\ TierOf(100 * U) = "ok"
  BY SMT DEF ScoreOf, Positive, TierOf, U
<1> QED
  BY <1>4, <1>5 DEF f

(* The verdicts of a run of the meta module over this bundle. *)
Verdict(b) == MetaScore(MetaFeatures(b), store["meta"])

LEMMA LoneVerdict ==
    ASSUME NEW b, NEW s \in DOMAIN Verdict(b), s # System,
           Lone({c \in b.components : ScopeOf(c) = s})
    PROVE  Verdict(b)[s].tier = "ok"
<1> DEFINE feats == MetaFeatures(b)
           raw   == ScoreOf(Total(MetaPenalties(feats[s],
                                     CompoundRuns(feats[s], History(store["meta"], s)))))
<1>1. s \in DOMAIN feats
  BY DEF Verdict, MetaScore
<1>2. feats[s] = Correlate({c \in b.components : ScopeOf(c) = s})
  BY <1>1, AisleFeatures
<1>3. TierOf(raw) = "ok"
  BY <1>2, LoneIsOk
<1>4. Verdict(b)[s].tier = TierOf(raw)
  BY <1>1 DEF Verdict, MetaScore, Judge
<1> QED
  BY <1>3, <1>4

(* What LoneModuleStaysOk says of one aisle makes its members lone. *)
LEMMA LoneMembers ==
    ASSUME NEW b, NEW s,
           LET here == {c \in b.components : ScopeOf(c) = s /\ Flagged(c.tier)}
           IN  /\ \A c, d \in here : c.module = d.module
               /\ \A c \in here : "meta" \notin c.cross
    PROVE  Lone({c \in b.components : ScopeOf(c) = s})
BY DEF Lone

LoneInv ==
    /\ DOMAIN present = plant
    /\ "meta" \in DOMAIN reading => "meta" \in plant
    /\ LoneModuleStaysOk

LEMMA LoneInit == Init => LoneInv
BY DEF Init, LoneInv, LoneModuleStaysOk

LEMMA LoneRunMeta == LoneInv /\ RunMeta => LoneInv'
<1> SUFFICES ASSUME LoneInv, RunMeta PROVE LoneInv'
  OBVIOUS
<1> DEFINE members == Members
<1>1. /\ "meta" \in plant
      /\ plant' = plant
      /\ present' = [present EXCEPT !["meta"] = Verdict(members)]
      /\ reading' = Put(reading, "meta", members)
  BY DEF RunMeta, Ran, Goes, Verdict
<1> HIDE DEF members
<1>2. reading'["meta"] = members
  BY <1>1 DEF Put
<1>3. present'["meta"] = Verdict(members) /\ DOMAIN present' = plant'
  BY <1>1 DEF LoneInv
<1>4. LoneModuleStaysOk'
  <2> SUFFICES ASSUME NEW s \in DOMAIN present'["meta"] \ {System},
                      LET here == {c \in members.components : ScopeOf(c) = s /\ Flagged(c.tier)}
                      IN  /\ \A c, d \in here : c.module = d.module
                          /\ \A c \in here : "meta" \notin c.cross
               PROVE  present'["meta"][s].tier = "ok"
    BY <1>2 DEF LoneModuleStaysOk
  <2>1. Lone({c \in members.components : ScopeOf(c) = s})
    BY LoneMembers
  <2> QED
    BY <1>3, <2>1, LoneVerdict
<1> QED
  BY <1>1, <1>3, <1>4 DEF LoneInv

LEMMA LoneRunModule ==
    ASSUME NEW m \in plant \ {"meta"}, LoneInv, RunModule(m)
    PROVE  LoneInv'
<1>1. PICK b \in Readings[m] : Ran(m, b, Scored(m, b))
  BY DEF RunModule
<1>2. /\ plant' = plant
      /\ reading' = Put(reading, m, b)
      /\ present' = [present EXCEPT ![m] = Scored(m, b)]
  BY <1>1 DEF Ran
<1>3. present'["meta"] = present["meta"] /\ DOMAIN present' = plant'
  BY <1>2 DEF LoneInv
<1>4. "meta" \in DOMAIN reading' => "meta" \in DOMAIN reading /\ reading'["meta"] = reading["meta"]
  BY <1>2 DEF Put
<1>5. LoneModuleStaysOk'
  BY <1>3, <1>4 DEF LoneInv, LoneModuleStaysOk
<1> QED
  BY <1>2, <1>3, <1>4, <1>5 DEF LoneInv

(* The anti-double-count rule of the meta module, for every plant, any        *)
(* readings and any number of runs: an aisle in which only one module is      *)
(* flagged, and does not ask for escalation, is ok.                           *)
THEOREM LoneModule == Spec => []LoneModuleStaysOk
<1>1. LoneInv /\ [Next]_vars => LoneInv'
  <2> SUFFICES ASSUME LoneInv, [Next]_vars PROVE LoneInv'
    OBVIOUS
  <2>1. CASE RunMeta
    BY <2>1, LoneRunMeta
  <2>2. CASE \E m \in plant \ {"meta"} : RunModule(m)
    BY <2>2, LoneRunModule
  <2>3. CASE UNCHANGED vars
    BY <2>3 DEF vars, LoneInv, LoneModuleStaysOk
  <2> QED
    BY <2>1, <2>2, <2>3 DEF Next
<1>2. LoneInv => LoneModuleStaysOk
  BY DEF LoneInv
<1> QED
  BY LoneInit, <1>1, <1>2, PTL DEF Spec

-----------------------------------------------------------------------------
(* The rows of the store *)


(* The tier of a row is the one its score shows. *)
ShowsTier(r) ==
    /\ r.tier = "ok"       => 8500 <= r.score
    /\ r.tier = "watch"    => 6500 <= r.score /\ r.score <= 8500
    /\ r.tier = "warn"     => 4000 <= r.score /\ r.score <= 6500
    /\ r.tier = "critical" => r.score <= 4000

GoodRow(m, r) ==
    /\ r = [age |-> r.age, score |-> r.score, tier |-> r.tier, ttm |-> r.ttm,
            cross |-> r.cross, facts |-> r.facts]
    /\ RowOK(r)
    /\ ShowsTier(r)
    /\ m = "shuttle" => r.facts.cycles \in Nat
    /\ m = "controller" => (Escalates(r.tier) => "meta" \in r.cross)

(* The rows a module keeps of a component. *)
Kept(m, rows) ==
    /\ Len(rows) \in Nat /\ Len(rows) <= HistoryLimit[m]
    /\ DOMAIN rows = 1..Len(rows) /\ rows = [i \in DOMAIN rows |-> rows[i]]
    /\ \A i \in DOMAIN rows : GoodRow(m, rows[i])
    /\ \A i, j \in DOMAIN rows : i <= j => rows[i].age <= rows[j].age

(* What a module may say of a component, to be kept. *)
Sound(m, v) ==
    /\ VerdictOK(v)
    /\ m = "shuttle" => v.facts.cycles \in Nat
    /\ m = "controller" => (Escalates(v.tier) => "meta" \in v.cross)

LEMMA KeptRows ==
    ASSUME NEW m, NEW rows, Kept(m, rows)
    PROVE  RowsOK(rows) /\ (m = "shuttle" => CyclesOK(rows))
<1>1. \A i \in DOMAIN rows : rows[i].age \in Nat /\ rows[i].score \in 0..Full
  BY FleetAssumption DEF Kept, GoodRow, RowOK
<1>2. RowsOK(rows)
  BY <1>1 DEF Kept, RowsOK
<1>3. m = "shuttle" => CyclesOK(rows)
  BY DEF Kept, GoodRow, CyclesOK
<1> QED
  BY <1>2, <1>3

(* Every verdict can be stored. *)
LEMMA SoundRow ==
    ASSUME NEW m, NEW v, Sound(m, v)
    PROVE  GoodRow(m, Row(v)) /\ Row(v).age = 0
<1> DEFINE r == Row(v)
<1>1. /\ r = [age |-> 0, score |-> v.score, tier |-> v.tier, ttm |-> v.ttm,
              cross |-> v.cross, facts |-> v.facts]
      /\ r.age = 0 /\ r.score = v.score /\ r.tier = v.tier /\ r.ttm = v.ttm
      /\ r.cross = v.cross /\ r.facts = v.facts
  BY DEF Row
<1> HIDE DEF r
<1>2. v.raw \in Nat /\ v.raw <= 100 * U /\ v.score = Stored(v.raw) /\ v.tier = TierOf(v.raw)
      /\ v.score \in 0..Full /\ v.ttm \in Hours
  BY DEF Sound, VerdictOK, RawOK
<1>3. ShowsTier(r)
  BY <1>1, <1>2, TierAgreesWithScore DEF ShowsTier
<1>4. RowOK(r)
  <2>1. v.tier \in Range(Tiers)
    BY <1>2, TierCases, TiersAre DEF TierNames
  <2>2. 0 \in 0..AgeCap
    BY FleetAssumption
  <2> QED
    BY <1>1, <1>2, <2>1, <2>2 DEF RowOK, Hours
<1> QED
  BY <1>1, <1>3, <1>4 DEF GoodRow, Sound, r

LEMMA AgedKept ==
    ASSUME NEW m, NEW rows, Kept(m, rows), NEW gap \in Nat
    PROVE  Kept(m, Aged(rows, gap)) /\ Len(Aged(rows, gap)) = Len(rows)
<1> DEFINE new == Aged(rows, gap)
           older(x) == AtMost(x + gap, AgeCap)
<1>1. DOMAIN new = 1..Len(rows) /\ new = [i \in DOMAIN new |-> new[i]] /\ Len(rows) \in Nat
  BY DEF Aged, Kept
<1>2. Len(new) = Len(rows)
  <2>1. new \in [1..Len(rows) -> {new[i] : i \in 1..Len(rows)}]
    BY <1>1
  <2> HIDE DEF new
  <2> QED
    BY <1>1, <2>1, LenIs
<1>3. \A x \in 0..AgeCap : older(x) \in 0..AgeCap
  BY FleetAssumption DEF AtMost
<1>4. \A x, y \in 0..AgeCap : x <= y => older(x) <= older(y)
  BY FleetAssumption DEF AtMost
<1>5. \A i \in 1..Len(rows) : new[i] = [rows[i] EXCEPT !.age = older(rows[i].age)]
  BY DEF Aged, Kept
<1> HIDE DEF new, older
<1>6. ASSUME NEW i \in 1..Len(rows)
      PROVE  /\ GoodRow(m, new[i]) /\ new[i].age = older(rows[i].age)
             /\ rows[i].age \in 0..AgeCap
  <2> DEFINE r == rows[i]
             n == new[i]
  <2>1. GoodRow(m, r)
    BY <1>6 DEF Kept
  <2>2. r = [age |-> r.age, score |-> r.score, tier |-> r.tier, ttm |-> r.ttm,
             cross |-> r.cross, facts |-> r.facts]
    BY <2>1 DEF GoodRow
  <2>3. n = [r EXCEPT !.age = older(r.age)]
    BY <1>5, <1>6
  <2> HIDE DEF r, n
  <2>4. n = [age |-> older(r.age), score |-> r.score, tier |-> r.tier, ttm |-> r.ttm,
             cross |-> r.cross, facts |-> r.facts]
    BY <2>2, <2>3
  <2>5. /\ n.age = older(r.age) /\ n.score = r.score /\ n.tier = r.tier /\ n.ttm = r.ttm
        /\ n.cross = r.cross /\ n.facts = r.facts
    BY <2>4
  <2>6. RowOK(r) /\ r.age \in 0..AgeCap
    BY <2>1 DEF GoodRow, RowOK
  <2>7. RowOK(n)
    BY <1>3, <2>5, <2>6 DEF RowOK
  <2>8. ShowsTier(n)
    BY <2>1, <2>5 DEF GoodRow, ShowsTier
  <2>9. GoodRow(m, n)
    BY <2>1, <2>4, <2>5, <2>7, <2>8 DEF GoodRow
  <2> QED
    BY <2>5, <2>6, <2>9 DEF r, n
<1>7. \A i, j \in 1..Len(rows) : i <= j => new[i].age <= new[j].age
  <2>1. \A i, j \in 1..Len(rows) : i <= j => rows[i].age <= rows[j].age
    BY DEF Kept
  <2> QED
    BY <1>4, <1>6, <2>1
<1>8. Len(new) <= HistoryLimit[m]
  BY <1>2 DEF Kept
<1>9. Kept(m, new)
  BY <1>1, <1>2, <1>6, <1>7, <1>8 DEF Kept
<1> QED
  BY <1>2, <1>9 DEF new

LEMMA NoneKept ==
    ASSUME NEW m \in Modules
    PROVE  Kept(m, <<>>)
<1>1. HistoryLimit[m] \in Nat
  BY FleetAssumption
<1> QED
  BY <1>1 DEF Kept

(* The rows that are kept after a run: the new one and the newest of before. *)
LEMMA AddedIs ==
    ASSUME NEW m \in Modules, NEW v, NEW rows, Kept(m, rows)
    PROVE  LET n == AtMost(1 + Len(rows), HistoryLimit[m])
           IN  /\ n \in Nat /\ 1 <= n /\ n <= HistoryLimit[m] /\ n <= 1 + Len(rows)
               /\ Added(m, v, rows) = [i \in 1..n |-> IF i = 1 THEN Row(v) ELSE rows[i - 1]]
<1> DEFINE n == AtMost(1 + Len(rows), HistoryLimit[m])
           S == {Row(v)} \cup {rows[i] : i \in DOMAIN rows}
           r == Row(v)
           all == <<r>> \o rows
<1>1. Len(rows) \in Nat /\ HistoryLimit[m] \in Nat \ {0}
  BY FleetAssumption DEF Kept
<1>2. n \in Nat /\ 1 <= n /\ n <= HistoryLimit[m] /\ n <= 1 + Len(rows)
  BY <1>1 DEF AtMost
<1>3. rows \in Seq(S) /\ r \in S
  <2>1. rows \in [1..Len(rows) -> S]
    <3>1. DOMAIN rows = 1..Len(rows) /\ rows = [i \in DOMAIN rows |-> rows[i]]
      BY DEF Kept
    <3>2. \A i \in DOMAIN rows : rows[i] \in S
      OBVIOUS
    <3> HIDE DEF S
    <3> QED
      BY <3>1, <3>2
  <2> HIDE DEF S
  <2>2. rows \in Seq(S)
    BY <1>1, <2>1, LenIs
  <2> QED
    BY <2>2 DEF S
<1> HIDE DEF S, n, r
<1>4. <<r>> \in Seq(S) /\ Len(<<r>>) = 1
  BY <1>3
<1>5. all \in Seq(S) /\ Len(all) = 1 + Len(rows)
  BY <1>3, <1>4
<1>6. \A i \in 1..n : all[i] = IF i = 1 THEN r ELSE rows[i - 1]
  BY <1>1, <1>2, <1>3, <1>4
<1> HIDE DEF all
<1>7. SubSeq(all, 1, n) = [i \in 1..n |-> all[i]]
  BY <1>1, <1>2, <1>5
<1>8. Added(m, v, rows) = SubSeq(all, 1, n)
  BY DEF Added, all, n, r
<1>9. Added(m, v, rows) = [i \in 1..n |-> IF i = 1 THEN r ELSE rows[i - 1]]
  BY <1>6, <1>7, <1>8
<1> QED
  BY <1>2, <1>9 DEF n, r

LEMMA AddedKept ==
    ASSUME NEW m \in Modules, NEW v, Sound(m, v), NEW rows, Kept(m, rows)
    PROVE  Kept(m, Added(m, v, rows)) /\ Len(Added(m, v, rows)) >= 1
<1> DEFINE n   == AtMost(1 + Len(rows), HistoryLimit[m])
           new == Added(m, v, rows)
           r   == Row(v)
<1>1. /\ n \in Nat /\ 1 <= n /\ n <= HistoryLimit[m] /\ n <= 1 + Len(rows)
      /\ new = [i \in 1..n |-> IF i = 1 THEN r ELSE rows[i - 1]]
  BY AddedIs
<1>2. Len(rows) \in Nat /\ DOMAIN rows = 1..Len(rows)
  BY DEF Kept
<1>3. GoodRow(m, r) /\ r.age = 0
  BY SoundRow
<1> HIDE DEF n, new, r
<1>4. Len(new) = n
  <2>1. new \in [1..n -> {new[i] : i \in 1..n}]
    BY <1>1
  <2> QED
    BY <1>1, <2>1, LenIs
<1>5. \A i \in 1..n : GoodRow(m, new[i])
  <2> SUFFICES ASSUME NEW i \in 1..n PROVE GoodRow(m, new[i])
    OBVIOUS
  <2>1. CASE i = 1
    BY <1>1, <1>3, <2>1
  <2>2. CASE i # 1
    <3>1. i - 1 \in DOMAIN rows /\ new[i] = rows[i - 1]
      BY <1>1, <1>2, <2>2
    <3> QED
      BY <3>1 DEF Kept
  <2> QED
    BY <2>1, <2>2
<1>6. \A i, j \in 1..n : i <= j => new[i].age <= new[j].age
  <2> SUFFICES ASSUME NEW i \in 1..n, NEW j \in 1..n, i <= j PROVE new[i].age <= new[j].age
    OBVIOUS
  <2>1. new[j].age \in Nat
    <3>1. new[j].age \in 0..AgeCap
      BY <1>5 DEF GoodRow, RowOK
    <3> QED
      BY <3>1, FleetAssumption
  <2>2. CASE i = 1
    BY <1>1, <1>3, <2>1, <2>2
  <2>3. CASE i # 1
    <3>1. /\ i - 1 \in DOMAIN rows /\ new[i] = rows[i - 1]
          /\ j - 1 \in DOMAIN rows /\ new[j] = rows[j - 1]
          /\ i - 1 <= j - 1
      BY <1>1, <1>2, <2>3
    <3>2. \A k, l \in DOMAIN rows : k <= l => rows[k].age <= rows[l].age
      BY DEF Kept
    <3> QED
      BY <3>1, <3>2
  <2> QED
    BY <2>2, <2>3
<1>7. DOMAIN new = 1..n /\ new = [i \in DOMAIN new |-> new[i]]
  BY <1>1
<1>8. Kept(m, new)
  BY <1>1, <1>4, <1>5, <1>6, <1>7 DEF Kept
<1> QED
  BY <1>1, <1>4, <1>8 DEF new

(* Whatever a module but meta fetches, it says something sound of finitely    *)
(* many components, and the controller of none that has an aisle.            *)
LEMMA ScoredOK ==
    ASSUME NEW m \in Modules \ {"meta"}, NEW b, BundleOK(m, b), StoreOK(store[m]),
           m = "shuttle" => \A id : CyclesOK(History(store[m], id))
    PROVE  /\ IsFiniteSet(DOMAIN Scored(m, b))
           /\ \A id \in DOMAIN Scored(m, b) : Sound(m, Scored(m, b)[id])
           /\ m = "controller" => \A id \in DOMAIN Scored(m, b) : AisleOf[id] = NoAisle
<1> DEFINE hist == store[m]
<1>1. BundleOK(m, b)
  OBVIOUS
<1>2. CASE m = "lift"
  <2> DEFINE feats == LiftFeatures(b)
  <2>1. LiftBundle(b)
    BY <1>1, <1>2 DEF BundleOK
  <2>2. Scored(m, b) = LiftScore(feats, hist)
    BY <1>2 DEF Scored
  <2>3. DOMAIN LiftScore(feats, hist) = DOMAIN feats
    BY DEF LiftScore
  <2>4. IsFiniteSet(DOMAIN feats)
    BY <2>1, LiftFinite
  <2>5. \A id \in DOMAIN feats : LiftFeature(feats[id])
    BY <2>1, LiftFeaturesOK
  <2>6. \A id \in DOMAIN feats : VerdictOK(LiftScore(feats, hist)[id])
    <3> HIDE DEF feats
    <3> QED
      BY <2>3, <2>5, LiftScoreOK
  <2> HIDE DEF feats, hist
  <2> QED
    BY <1>2, <2>2, <2>3, <2>4, <2>6 DEF Sound
<1>3. CASE m = "shuttle"
  <2> DEFINE feats == ShuttleFeatures(b)
  <2>1. ShuttleBundle(b)
    BY <1>1, <1>3 DEF BundleOK
  <2>2. Scored(m, b) = ShuttleScore(feats, hist)
    BY <1>3 DEF Scored
  <2>3. DOMAIN ShuttleScore(feats, hist) = DOMAIN feats
    BY DEF ShuttleScore
  <2>4. IsFiniteSet(DOMAIN feats)
    BY <2>1, ShuttleFinite
  <2>5. \A id \in DOMAIN feats : ShuttleFeature(feats[id])
    BY <2>1, ShuttleFeaturesOK
  <2>6. \A id \in DOMAIN feats : /\ VerdictOK(ShuttleScore(feats, hist)[id])
                                   /\ ShuttleScore(feats, hist)[id].facts.cycles \in Nat
    <3> HIDE DEF feats
    <3> QED
      BY <1>3, <2>3, <2>5, ShuttleScoreOK
  <2> HIDE DEF feats, hist
  <2> QED
    BY <1>3, <2>2, <2>3, <2>4, <2>6 DEF Sound
<1>4. CASE m = "conveyor"
  <2> DEFINE feats == ConveyorFeatures(b)
  <2>1. ConveyorBundle(b)
    BY <1>1, <1>4 DEF BundleOK
  <2>2. Scored(m, b) = ConveyorScore(feats, hist)
    BY <1>4 DEF Scored
  <2>3. DOMAIN ConveyorScore(feats, hist) = DOMAIN feats
    BY DEF ConveyorScore
  <2>4. IsFiniteSet(DOMAIN feats)
    BY <2>1, OthersFinite
  <2>5. \A id \in DOMAIN feats : ConveyorFeature(feats[id])
    BY <2>1, ConveyorFeaturesOK
  <2>6. \A id \in DOMAIN feats : VerdictOK(ConveyorScore(feats, hist)[id])
    <3> HIDE DEF feats
    <3> QED
      BY <2>3, <2>5, ConveyorScoreOK
  <2> HIDE DEF feats, hist
  <2> QED
    BY <1>4, <2>2, <2>3, <2>4, <2>6 DEF Sound
<1>5. CASE m = "tracker"
  <2> DEFINE feats == TrackerFeatures(b)
  <2>1. TrackerBundle(b)
    BY <1>1, <1>5 DEF BundleOK
  <2>2. Scored(m, b) = TrackerScore(feats, hist)
    BY <1>5 DEF Scored
  <2>3. DOMAIN TrackerScore(feats, hist) = DOMAIN feats
    BY DEF TrackerScore
  <2>4. IsFiniteSet(DOMAIN feats)
    BY <2>1, TrackerFinite
  <2>5. \A id \in DOMAIN feats : TrackerFeature(feats[id])
    BY <2>1, TrackerFeaturesOK
  <2>6. \A id \in DOMAIN feats : VerdictOK(TrackerScore(feats, hist)[id])
    <3> HIDE DEF feats
    <3> QED
      BY <2>3, <2>5, TrackerScoreOK
  <2> HIDE DEF feats, hist
  <2> QED
    BY <1>5, <2>2, <2>3, <2>4, <2>6 DEF Sound
<1>6. CASE m = "gate"
  <2> DEFINE feats == GateFeatures(b)
  <2>1. GateBundle(b)
    BY <1>1, <1>6 DEF BundleOK
  <2>2. Scored(m, b) = GateScore(feats, hist)
    BY <1>6 DEF Scored
  <2>3. DOMAIN GateScore(feats, hist) = DOMAIN feats
    BY DEF GateScore
  <2>4. IsFiniteSet(DOMAIN feats)
    BY <2>1, OthersFinite
  <2>5. \A id \in DOMAIN feats : GateFeature(feats[id])
    BY <2>1, GateFeaturesOK
  <2>6. \A id \in DOMAIN feats : VerdictOK(GateScore(feats, hist)[id])
    <3> HIDE DEF feats
    <3> QED
      BY <2>3, <2>4, <2>5, GateScoreOK
  <2> HIDE DEF feats, hist
  <2> QED
    BY <1>6, <2>2, <2>3, <2>4, <2>6 DEF Sound
<1>7. CASE m = "bin_mech"
  <2> DEFINE feats == BinFeatures(b)
  <2>1. BinBundle(b)
    BY <1>1, <1>7 DEF BundleOK
  <2>2. Scored(m, b) = BinScore(feats, hist)
    BY <1>7 DEF Scored
  <2>3. DOMAIN BinScore(feats, hist) = DOMAIN feats
    BY DEF BinScore
  <2>4. IsFiniteSet(DOMAIN feats)
    BY <2>1, BinFinite
  <2>5. \A id \in DOMAIN feats : BinFeature(feats[id])
    BY <2>1, BinFeaturesOK
  <2>6. \A id \in DOMAIN feats : VerdictOK(BinScore(feats, hist)[id])
    <3> HIDE DEF feats
    <3> QED
      BY <2>3, <2>5, BinScoreOK
  <2> HIDE DEF feats, hist
  <2> QED
    BY <1>7, <2>2, <2>3, <2>4, <2>6 DEF Sound
<1>8. CASE m = "gtp_station"
  <2> DEFINE feats == GtpFeatures(b)
  <2>1. GtpBundle(b)
    BY <1>1, <1>8 DEF BundleOK
  <2>2. Scored(m, b) = GtpScore(feats, hist)
    BY <1>8 DEF Scored
  <2>3. DOMAIN GtpScore(feats, hist) = DOMAIN feats
    BY DEF GtpScore
  <2>4. IsFiniteSet(DOMAIN feats)
    BY <2>1, StationsFinite
  <2>5. \A id \in DOMAIN feats : GtpFeature(feats[id])
    BY <2>1, GtpFeaturesOK
  <2>6. \A id \in DOMAIN feats : VerdictOK(GtpScore(feats, hist)[id])
    <3> HIDE DEF feats
    <3> QED
      BY <2>3, <2>5, GtpScoreOK
  <2> HIDE DEF feats, hist
  <2> QED
    BY <1>8, <2>2, <2>3, <2>4, <2>6 DEF Sound
<1>9. CASE m = "decant_station"
  <2> DEFINE feats == DecantFeatures(b)
  <2>1. DecantBundle(b)
    BY <1>1, <1>9 DEF BundleOK
  <2>2. Scored(m, b) = DecantScore(feats, hist)
    BY <1>9 DEF Scored
  <2>3. DOMAIN DecantScore(feats, hist) = DOMAIN feats
    BY DEF DecantScore
  <2>4. IsFiniteSet(DOMAIN feats)
    BY <2>1, StationsFinite
  <2>5. \A id \in DOMAIN feats : DecantFeature(feats[id])
    BY <2>1, DecantFeaturesOK
  <2>6. \A id \in DOMAIN feats : VerdictOK(DecantScore(feats, hist)[id])
    <3> HIDE DEF feats
    <3> QED
      BY <2>3, <2>5, DecantScoreOK
  <2> HIDE DEF feats, hist
  <2> QED
    BY <1>9, <2>2, <2>3, <2>4, <2>6 DEF Sound
<1>10. CASE m = "network"
  <2> DEFINE feats == NetworkFeatures(b)
  <2>1. NetworkBundle(b)
    BY <1>1, <1>10 DEF BundleOK
  <2>2. Scored(m, b) = NetworkScore(feats, hist)
    BY <1>10 DEF Scored
  <2>3. DOMAIN NetworkScore(feats, hist) = DOMAIN feats
    BY DEF NetworkScore
  <2>4. IsFiniteSet(DOMAIN feats)
    BY <2>1, OthersFinite
  <2>5. \A id \in DOMAIN feats : NetworkFeature(feats[id])
    BY <2>1, NetworkFeaturesOK
  <2>6. \A id \in DOMAIN feats : VerdictOK(NetworkScore(feats, hist)[id])
    <3> HIDE DEF feats
    <3> QED
      BY <2>3, <2>5, NetworkScoreOK
  <2> HIDE DEF feats, hist
  <2> QED
    BY <1>10, <2>2, <2>3, <2>4, <2>6 DEF Sound
<1>11. CASE m = "controller"
  <2> DEFINE feats == ControllerFeatures(b)
  <2>1. ControllerBundle(b)
    BY <1>1, <1>11 DEF BundleOK
  <2>2. Scored(m, b) = ControllerScore(feats, hist)
    BY <1>11 DEF Scored
  <2>3. DOMAIN ControllerScore(feats, hist) = DOMAIN feats
    BY DEF ControllerScore
  <2>4. IsFiniteSet(DOMAIN feats)
    BY <2>1, ControllerFinite
  <2>5. \A id \in DOMAIN feats : feats[id].util \in Nat
    BY <2>1, ControllerFeaturesOK
  <2>6. \A id \in DOMAIN feats :
           LET v == ControllerScore(feats, hist)[id]
           IN  VerdictOK(v) /\ (Escalates(v.tier) => "meta" \in v.cross)
    <3> HIDE DEF feats
    <3> QED
      BY <2>3, <2>5, ControllerScoreOK
  <2>7. \A id \in DOMAIN feats : AisleOf[id] = NoAisle
    BY <2>1, ControllerFinite
  <2> HIDE DEF feats, hist
  <2> QED
    BY <1>11, <2>2, <2>3, <2>4, <2>6, <2>7 DEF Sound
<1> QED
  BY <1>2, <1>3, <1>4, <1>5, <1>6, <1>7, <1>8, <1>9, <1>10, <1>11 DEF Modules

-----------------------------------------------------------------------------
(* The inductive invariant. *)

Stores ==
    \A m \in plant :
        /\ IsFiniteSet(DOMAIN store[m])
        /\ \A id \in DOMAIN store[m] : Kept(m, store[m][id]) /\ Len(store[m][id]) >= 1

Said == \A m \in plant : \A id \in DOMAIN present[m] : VerdictOK(present[m][id])

Nodes == "controller" \in plant =>
            \A id \in DOMAIN store["controller"] : AisleOf[id] = NoAisle

FirstIs == first # NoNode =>
            "controller" \in plant /\ first \in DOMAIN store["controller"]

FleetInv ==
    /\ plant \in Plants
    /\ DOMAIN store = plant
    /\ DOMAIN present = plant
    /\ "meta" \in DOMAIN reading => "meta" \in plant
    /\ Stores
    /\ Said
    /\ Nodes
    /\ FirstIs

LEMMA FleetInit == Init => FleetInv
<1> SUFFICES ASSUME Init PROVE FleetInv
  OBVIOUS
<1>1. \A m \in plant : store[m] = [id \in {} |-> <<>>] /\ present[m] = [id \in {} |-> 0]
  BY DEF Init
<1>2. \A m \in plant : DOMAIN store[m] = {} /\ DOMAIN present[m] = {}
  BY <1>1
<1>3. Stores
  BY <1>2, FS_EmptySet DEF Stores
<1>4. Nodes
  BY <1>2 DEF Nodes
<1> QED
  BY <1>2, <1>3, <1>4 DEF Init, FleetInv, Said, FirstIs, NoNode

LEMMA ModulesOf ==
    ASSUME FleetInv
    PROVE  plant \subseteq Modules
BY FleetAssumption DEF FleetInv

(* What the scoring of a module reads is in order. *)
LEMMA StoredRows ==
    ASSUME FleetInv, NEW m \in plant
    PROVE  /\ StoreOK(store[m])
           /\ m = "shuttle" => \A id : CyclesOK(History(store[m], id))
<1>1. \A id \in DOMAIN store[m] : Kept(m, store[m][id])
  BY DEF FleetInv, Stores
<1>2. StoreOK(store[m])
  BY <1>1, KeptRows DEF StoreOK
<1>3. ASSUME m = "shuttle", NEW id PROVE CyclesOK(History(store[m], id))
  <2>1. CASE id \in DOMAIN store[m]
    BY <1>1, <1>3, <2>1, KeptRows DEF History
  <2>2. CASE id \notin DOMAIN store[m]
    <3>1. History(store[m], id) = <<>>
      BY <2>2 DEF History
    <3>2. CyclesOK(<<>>)
      BY DEF CyclesOK
    <3> QED
      BY <3>1, <3>2
  <2> QED
    BY <2>1, <2>2
<1> QED
  BY <1>2, <1>3

(* The rows of a component before a run, older by then. *)
LEMMA AgedHistory ==
    ASSUME FleetInv, NEW m \in plant, NEW id, NEW gap \in Nat
    PROVE  LET rows == Aged(History(store[m], id), gap)
           IN  Kept(m, rows) /\ (id \in DOMAIN store[m] => Len(rows) >= 1)
<1>1. CASE id \in DOMAIN store[m]
  <2>1. History(store[m], id) = store[m][id]
    BY <1>1 DEF History
  <2>2. Kept(m, store[m][id]) /\ Len(store[m][id]) >= 1
    BY <1>1 DEF FleetInv, Stores
  <2> QED
    BY <2>1, <2>2, AgedKept
<1>2. CASE id \notin DOMAIN store[m]
  <2>1. History(store[m], id) = <<>>
    BY <1>2 DEF History
  <2>2. Kept(m, <<>>)
    BY ModulesOf, NoneKept
  <2> QED
    BY <1>2, <2>1, <2>2, AgedKept
<1> QED
  BY <1>1, <1>2

(* A run of a module keeps the store in order, if what the module says is     *)
(* sound.                                                                    *)
LEMMA RanKeeps ==
    ASSUME FleetInv, NEW m, NEW bundle, NEW verdicts, Ran(m, bundle, verdicts),
           IsFiniteSet(DOMAIN verdicts),
           \A id \in DOMAIN verdicts : Sound(m, verdicts[id]),
           m = "controller" => \A id \in DOMAIN verdicts : AisleOf[id] = NoAisle
    PROVE  FleetInv'
<1> DEFINE ids(n) == DOMAIN store[n] \cup (IF n = m THEN DOMAIN verdicts ELSE {})
           rows(n, id, gap) == Aged(History(store[n], id), gap)
           kept(n, id, gap) == IF n = m /\ id \in DOMAIN verdicts
                               THEN Added(m, verdicts[id], rows(n, id, gap))
                               ELSE rows(n, id, gap)
<1>1. m \in plant /\ plant' = plant /\ plant \subseteq Modules
  BY ModulesOf DEF Ran, Goes
<1>2. PICK gap \in Gaps : store' = [n \in plant |-> [id \in ids(n) |-> kept(n, id, gap)]]
  BY DEF Ran
<1>3. gap \in Nat
  BY FleetAssumption
<1>4. /\ present' = [present EXCEPT ![m] = verdicts]
      /\ reading' = Put(reading, m, bundle)
  BY DEF Ran
<1>5. \A n \in plant : \A id \in ids(n) :
         Kept(n, kept(n, id, gap)) /\ Len(kept(n, id, gap)) >= 1
  <2> SUFFICES ASSUME NEW n \in plant, NEW id \in ids(n)
               PROVE  Kept(n, kept(n, id, gap)) /\ Len(kept(n, id, gap)) >= 1
    OBVIOUS
  <2>1. /\ Kept(n, rows(n, id, gap))
        /\ id \in DOMAIN store[n] => Len(rows(n, id, gap)) >= 1
    BY <1>3, AgedHistory
  <2>2. CASE n = m /\ id \in DOMAIN verdicts
    <3>1. kept(n, id, gap) = Added(m, verdicts[id], rows(n, id, gap))
      BY <2>2
    <3> HIDE DEF rows, kept
    <3> QED
      BY <1>1, <2>1, <2>2, <3>1, AddedKept
  <2>3. CASE ~(n = m /\ id \in DOMAIN verdicts)
    <3>1. kept(n, id, gap) = rows(n, id, gap) /\ id \in DOMAIN store[n]
      BY <2>3
    <3> HIDE DEF rows, kept
    <3> QED
      BY <2>1, <3>1
  <2> QED
    BY <2>2, <2>3
<1>6. \A n \in plant : /\ DOMAIN store'[n] = ids(n)
                       /\ \A id \in ids(n) : store'[n][id] = kept(n, id, gap)
  <2> HIDE DEF ids, kept
  <2> QED
    BY <1>2
<1>7. \A n \in plant : IsFiniteSet(ids(n))
  <2>1. \A n \in plant : IsFiniteSet(DOMAIN store[n])
    BY DEF FleetInv, Stores
  <2> QED
    BY <2>1, FS_Union
<1>8. Stores'
  <2> HIDE DEF ids, kept
  <2> QED
    BY <1>1, <1>5, <1>6, <1>7 DEF Stores
<1>9. DOMAIN store' = plant' /\ DOMAIN present' = plant'
  <2> HIDE DEF ids, kept
  <2> QED
    BY <1>1, <1>2, <1>4 DEF FleetInv
<1>10. "meta" \in DOMAIN reading' => "meta" \in plant'
  BY <1>1, <1>4 DEF FleetInv, Put
<1>11. Said'
  <2>1. ASSUME NEW n \in plant, NEW id \in DOMAIN present'[n] PROVE VerdictOK(present'[n][id])
    <3>1. CASE n = m
      BY <1>1, <1>4, <2>1, <3>1 DEF FleetInv, Said, Sound
    <3>2. CASE n # m
      BY <1>1, <1>4, <2>1, <3>2 DEF FleetInv, Said
    <3> QED
      BY <3>1, <3>2
  <2> QED
    BY <1>1, <2>1 DEF Said
<1>12. Nodes'
  BY <1>1, <1>6 DEF FleetInv, Nodes
<1>13. FirstIs'
  <2>1. CASE m = "controller" /\ DOMAIN store[m] = {} /\ DOMAIN verdicts # {}
    <3>1. first' \in DOMAIN verdicts
      BY <2>1 DEF Ran, WorstOnes
    <3> QED
      BY <1>1, <1>6, <2>1, <3>1 DEF FirstIs
  <2>2. CASE ~(m = "controller" /\ DOMAIN store[m] = {} /\ DOMAIN verdicts # {})
    <3>1. first' = first
      BY <2>2 DEF Ran
    <3> QED
      BY <1>1, <1>6, <3>1 DEF FleetInv, FirstIs
  <2> QED
    BY <2>1, <2>2
<1> QED
  BY <1>1, <1>8, <1>9, <1>10, <1>11, <1>12, <1>13 DEF FleetInv

LEMMA FleetRunModule ==
    ASSUME FleetInv, NEW m \in plant \ {"meta"}, RunModule(m)
    PROVE  FleetInv'
<1>1. PICK b \in Readings[m] : Ran(m, b, Scored(m, b))
  BY DEF RunModule
<1>2. m \in Modules \ {"meta"}
  BY ModulesOf
<1>3. /\ IsFiniteSet(DOMAIN Scored(m, b))
      /\ \A id \in DOMAIN Scored(m, b) : Sound(m, Scored(m, b)[id])
      /\ m = "controller" => \A id \in DOMAIN Scored(m, b) : AisleOf[id] = NoAisle
  BY <1>2, StoredRows, ReadingsAssumption, ScoredOK
<1> QED
  BY <1>1, <1>3, RanKeeps

LEMMA WithOne ==
    ASSUME NEW S, IsFiniteSet(S), NEW x
    PROVE  IsFiniteSet(S \cup {x})
<1>1. IsFiniteSet({x})
  BY FS_Singleton
<1> QED
  BY <1>1, FS_Union

LEMMA TripleFinite ==
    ASSUME NEW x, NEW y, NEW z
    PROVE  IsFiniteSet({x, y, z})
<1>1. IsFiniteSet({x})
  BY FS_Singleton
<1>2. IsFiniteSet({x} \cup {y})
  BY <1>1, WithOne
<1>3. IsFiniteSet(({x} \cup {y}) \cup {z})
  BY <1>2, WithOne
<1>4. {x, y, z} = ({x} \cup {y}) \cup {z}
  OBVIOUS
<1> QED
  BY <1>3, <1>4

LEMMA ModulesFinite == IsFiniteSet(Modules)
<1> DEFINE A == {"lift", "shuttle", "conveyor"}
           B == {"tracker", "gate", "bin_mech"}
           C == {"gtp_station", "decant_station", "network"}
           D == {"controller", "meta", "meta"}
<1>1. IsFiniteSet(A) /\ IsFiniteSet(B) /\ IsFiniteSet(C) /\ IsFiniteSet(D)
  BY TripleFinite
<1>2. Modules = (A \cup B) \cup (C \cup D)
  BY DEF Modules
<1> HIDE DEF A, B, C, D
<1>3. IsFiniteSet(A \cup B) /\ IsFiniteSet(C \cup D)
  BY <1>1, FS_Union
<1>4. IsFiniteSet((A \cup B) \cup (C \cup D))
  BY <1>3, FS_Union
<1> QED
  BY <1>2, <1>4

LEMMA NewestRow ==
    ASSUME FleetInv, NEW m \in plant, NEW c \in Newest(m)
    PROVE  /\ c.module = m /\ c.id \in DOMAIN store[m]
           /\ c.tier = store[m][c.id][1].tier /\ c.cross = store[m][c.id][1].cross
           /\ GoodRow(m, store[m][c.id][1]) /\ c.tier \in TierNames
<1>1. PICK id \in DOMAIN store[m] :
         c = [module |-> m, id |-> id, tier |-> store[m][id][1].tier,
              cross |-> store[m][id][1].cross]
  BY DEF Newest
<1>2. Kept(m, store[m][id]) /\ Len(store[m][id]) >= 1
  BY DEF FleetInv, Stores
<1>3. GoodRow(m, store[m][id][1])
  BY <1>2 DEF Kept
<1>4. store[m][id][1].tier \in TierNames
  BY <1>3, TiersAre DEF GoodRow, RowOK
<1> QED
  BY <1>1, <1>3, <1>4

LEMMA MembersOK ==
    ASSUME FleetInv
    PROVE  MetaBundle(Members)
<1> DEFINE others == plant \ {"meta"}
           all    == {Newest(m) : m \in others}
<1>1. IsFiniteSet(others)
  BY ModulesOf, ModulesFinite, FS_Subset
<1>2. IsFiniteSet(all)
  <2> DEFINE f == [m \in others |-> Newest(m)]
  <2>1. all = {f[m] : m \in others} /\ DOMAIN f = others
    OBVIOUS
  <2> HIDE DEF f, all, others
  <2> QED
    BY <1>1, <2>1, ImageFinite
<1>3. ASSUME NEW m \in others PROVE IsFiniteSet(Newest(m))
  <2> DEFINE f == [id \in DOMAIN store[m] |->
                     [module |-> m, id |-> id, tier |-> store[m][id][1].tier,
                      cross |-> store[m][id][1].cross]]
  <2>1. Newest(m) = {f[id] : id \in DOMAIN store[m]} /\ DOMAIN f = DOMAIN store[m]
    BY DEF Newest
  <2>2. IsFiniteSet(DOMAIN store[m])
    BY DEF FleetInv, Stores
  <2> HIDE DEF f
  <2> QED
    BY <2>1, <2>2, ImageFinite
<1>4. IsFiniteSet(UNION all)
  <2>1. \A S \in all : IsFiniteSet(S)
    BY <1>3
  <2> HIDE DEF all
  <2> QED
    BY <1>2, <2>1, FS_UNION
<1>5. \A c \in UNION all : c.tier \in Range(Tiers)
  BY NewestRow, TiersAre
<1>6. Members.components = UNION all
  BY DEF Members
<1> HIDE DEF all
<1> QED
  BY <1>4, <1>5, <1>6 DEF MetaBundle

(* A controller node that is warn or critical asks for the system.            *)
LEMMA NodeAsks ==
    ASSUME FleetInv, NEW c \in Members.components, c.module = "controller",
           Rank(c.tier) <= Rank("warn")
    PROVE  ScopeOf(c) = System /\ Flagged(c.tier) /\ "meta" \in c.cross
<1>1. PICK m \in plant \ {"meta"} : c \in Newest(m)
  BY DEF Members
<1>2. /\ m = "controller" /\ c.id \in DOMAIN store["controller"]
      /\ c.tier = store["controller"][c.id][1].tier
      /\ c.cross = store["controller"][c.id][1].cross
      /\ GoodRow("controller", store["controller"][c.id][1])
  BY <1>1, NewestRow
<1>3. AisleOf[c.id] = NoAisle
  BY <1>1, <1>2 DEF FleetInv, Nodes
<1>4. "meta" \in c.cross
  BY <1>2 DEF GoodRow, Escalates
<1>5. c.tier # "ok"
  BY RankIs
<1> QED
  BY <1>3, <1>4, <1>5 DEF ScopeOf, Flagged

LEMMA MetaSays ==
    ASSUME FleetInv, "meta" \in plant
    PROVE  LET said == MetaScore(MetaFeatures(Members), store["meta"])
           IN  /\ IsFiniteSet(DOMAIN said)
               /\ \A s \in DOMAIN said : Sound("meta", said[s])
               /\ \A c \in Members.components :
                    c.module = "controller" /\ Rank(c.tier) <= Rank("warn")
                      => Flagged(said[System].tier)
<1> DEFINE b     == Members
           feats == MetaFeatures(b)
           said  == MetaScore(feats, store["meta"])
<1>1. MetaBundle(b)
  BY MembersOK
<1>2. ASSUME NEW c \in b.components,
             c.module = "controller" /\ Rank(c.tier) <= Rank("warn")
      PROVE  System \in DOMAIN feats /\ feats[System].metaFlag
  BY <1>2, NodeAsks, Heard
<1> HIDE DEF b
<1>3. DOMAIN said = DOMAIN feats
  BY DEF MetaScore
<1>4. IsFiniteSet(DOMAIN feats)
  <2> DEFINE f == [c \in b.components |-> ScopeOf(c)]
             R == {f[c] : c \in b.components}
  <2>1. IsFiniteSet(R)
    <3>1. DOMAIN f = b.components
      OBVIOUS
    <3> HIDE DEF f
    <3> QED
      BY <1>1, <3>1, ImageFinite DEF MetaBundle
  <2>2. R = {ScopeOf(c) : c \in b.components}
    OBVIOUS
  <2>3. DOMAIN feats = (R \ {System}) \cup {System}
    BY <2>2 DEF MetaFeatures
  <2> HIDE DEF R, feats
  <2>4. IsFiniteSet(R \ {System})
    BY <2>1, FS_Difference
  <2> QED
    BY <2>3, <2>4, WithOne
<1>5. \A s \in DOMAIN feats : MetaFeature(feats[s])
  BY <1>1, MetaFeaturesOK
<1>6. StoreOK(store["meta"])
  BY StoredRows
<1> HIDE DEF feats
<1>7. \A s \in DOMAIN said : VerdictOK(said[s]) /\ (feats[s].metaFlag => Flagged(said[s].tier))
  BY <1>3, <1>5, <1>6, MetaScoreOK
<1>8. \A s \in DOMAIN said : Sound("meta", said[s])
  BY <1>7 DEF Sound
<1>9. ASSUME NEW c \in b.components,
             c.module = "controller" /\ Rank(c.tier) <= Rank("warn")
      PROVE  Flagged(said[System].tier)
  <2> HIDE DEF said
  <2> QED
    BY <1>2, <1>3, <1>7, <1>9
<1> HIDE DEF said
<1>10. IsFiniteSet(DOMAIN said)
  BY <1>3, <1>4
<1> QED
  BY <1>8, <1>9, <1>10 DEF said, feats, b

LEMMA FleetRunMeta ==
    ASSUME FleetInv, RunMeta
    PROVE  FleetInv'
<1> DEFINE said == MetaScore(MetaFeatures(Members), store["meta"])
<1>1. Ran("meta", Members, said) /\ "meta" \in plant
  BY DEF RunMeta, Ran, Goes
<1>2. IsFiniteSet(DOMAIN said) /\ \A s \in DOMAIN said : Sound("meta", said[s])
  BY <1>1, MetaSays
<1> HIDE DEF said
<1> QED
  BY <1>1, <1>2, RanKeeps

LEMMA FleetNext == FleetInv /\ [Next]_vars => FleetInv'
<1> SUFFICES ASSUME FleetInv, [Next]_vars PROVE FleetInv'
  OBVIOUS
<1>1. CASE RunMeta
  BY <1>1, FleetRunMeta
<1>2. CASE \E m \in plant \ {"meta"} : RunModule(m)
  BY <1>2, FleetRunModule
<1>3. CASE UNCHANGED vars
  BY <1>3 DEF vars, FleetInv, Stores, Said, Nodes, FirstIs
<1> QED
  BY <1>1, <1>2, <1>3 DEF Next

LEMMA TypesFollow == FleetInv => TypeOK
<1> SUFFICES ASSUME FleetInv PROVE TypeOK
  OBVIOUS
<1>1. ASSUME NEW m \in plant, NEW id \in DOMAIN store[m]
      PROVE  LET rows == store[m][id]
             IN  /\ Len(rows) \in 1..HistoryLimit[m]
                 /\ \A i \in DOMAIN rows : RowOK(rows[i])
                 /\ \A i \in 2..Len(rows) : rows[i - 1].age <= rows[i].age
  <2> DEFINE rows == store[m][id]
  <2>1. Kept(m, rows) /\ Len(rows) >= 1
    BY DEF FleetInv, Stores
  <2>2. HistoryLimit[m] \in Nat
    BY ModulesOf, FleetAssumption
  <2> HIDE DEF rows
  <2>3. Len(rows) \in 1..HistoryLimit[m]
    BY <2>1, <2>2 DEF Kept
  <2>4. \A i \in DOMAIN rows : RowOK(rows[i])
    BY <2>1 DEF Kept, GoodRow
  <2>5. \A i \in 2..Len(rows) : rows[i - 1].age <= rows[i].age
    <3>1. \A i \in 2..Len(rows) : i \in DOMAIN rows /\ i - 1 \in DOMAIN rows /\ i - 1 <= i
      BY <2>1 DEF Kept
    <3>2. \A i, j \in DOMAIN rows : i <= j => rows[i].age <= rows[j].age
      BY <2>1 DEF Kept
    <3> QED
      BY <3>1, <3>2
  <2> QED
    BY <2>3, <2>4, <2>5 DEF rows
<1>2. ASSUME NEW m \in plant, NEW v \in Verdicts(m) PROVE v.conf \in 0..970
  <2>1. VerdictOK(v)
    BY DEF FleetInv, Said, Verdicts
  <2> QED
    BY <2>1 DEF VerdictOK, Confidence
<1> QED
  BY <1>1, <1>2 DEF TypeOK, FleetInv, FirstIs

(* Scores are 0 to 100, confidences 0 to 0.97, projected times at most a      *)
(* year and rows newest first and no more than a module reads back, for any   *)
(* readings that are whole numbers, any plant and any number of runs.         *)
THEOREM FleetTypes == Spec => []TypeOK
<1> QED
  BY FleetInit, FleetNext, TypesFollow, PTL DEF Spec

LEMMA TiersFollow == FleetInv => TierFollowsScore
<1> SUFFICES ASSUME FleetInv, NEW m \in plant, NEW id \in DOMAIN store[m],
                    NEW i \in DOMAIN store[m][id]
             PROVE  LET r == store[m][id][i]
                    IN  CASE r.tier = "ok"    -> 8500 <= r.score
                          [] r.tier = "watch" -> 6500 <= r.score /\ r.score <= 8500
                          [] r.tier = "warn"  -> 4000 <= r.score /\ r.score <= 6500
                          [] OTHER            -> r.score <= 4000
  BY DEF TierFollowsScore
<1> DEFINE r == store[m][id][i]
<1>1. GoodRow(m, r)
  BY DEF FleetInv, Stores, Kept
<1>2. ShowsTier(r) /\ r.tier \in TierNames
  BY <1>1, TiersAre DEF GoodRow, RowOK
<1> HIDE DEF r
<1>3. (CASE r.tier = "ok"    -> 8500 <= r.score
        [] r.tier = "watch" -> 6500 <= r.score /\ r.score <= 8500
        [] r.tier = "warn"  -> 4000 <= r.score /\ r.score <= 6500
        [] OTHER            -> r.score <= 4000)
  BY <1>2 DEF ShowsTier, TierNames
<1> QED
  BY <1>3 DEF r

(* The tier of every row a store ever holds is the one its score shows,       *)
(* although the scoring takes the tier before it clamps and rounds.           *)
THEOREM StoredTiers == Spec => []TierFollowsScore
<1> QED
  BY FleetInit, FleetNext, TiersFollow, PTL DEF Spec

(* A verdict on the system hears the nodes it was reached from.               *)
SystemInv == FleetInv /\ ControllerRaisesSystem

LEMMA SystemInit == Init => SystemInv
BY FleetInit DEF Init, SystemInv, ControllerRaisesSystem

LEMMA SystemRunMeta ==
    ASSUME SystemInv, RunMeta
    PROVE  ControllerRaisesSystem'
<1> DEFINE b    == Members
           said == MetaScore(MetaFeatures(b), store["meta"])
<1>1. /\ "meta" \in plant
      /\ present' = [present EXCEPT !["meta"] = said]
      /\ reading' = Put(reading, "meta", b)
  BY DEF RunMeta, Ran, Goes
<1>2. FleetInv /\ DOMAIN present = plant
  BY DEF SystemInv, FleetInv
<1>3. \A c \in b.components :
         c.module = "controller" /\ Rank(c.tier) <= Rank("warn") => Flagged(said[System].tier)
  BY <1>1, <1>2, MetaSays
<1> HIDE DEF b, said
<1>4. reading'["meta"] = b /\ present'["meta"] = said
  BY <1>1, <1>2 DEF Put
<1> QED
  BY <1>3, <1>4 DEF ControllerRaisesSystem

LEMMA SystemRunModule ==
    ASSUME SystemInv, NEW m \in plant \ {"meta"}, RunModule(m)
    PROVE  ControllerRaisesSystem'
<1>1. PICK b \in Readings[m] : Ran(m, b, Scored(m, b))
  BY DEF RunModule
<1>2. /\ reading' = Put(reading, m, b)
      /\ present' = [present EXCEPT ![m] = Scored(m, b)]
  BY <1>1 DEF Ran
<1>3. "meta" \in DOMAIN reading' => "meta" \in DOMAIN reading /\ reading'["meta"] = reading["meta"]
  BY <1>2 DEF Put
<1>4. present'["meta"] = present["meta"]
  BY <1>2
<1> QED
  BY <1>3, <1>4 DEF SystemInv, ControllerRaisesSystem

(* A controller node that is short of processor time is never lost on the     *)
(* verdict on the system: the tier of the first node alone is looked at, but  *)
(* every node that is warn or worse asks for the meta module, and that is     *)
(* heard in the scope of the system, where a node without an aisle belongs.   *)
THEOREM ControllerHeard == Spec => []ControllerRaisesSystem
<1>1. SystemInv /\ [Next]_vars => SystemInv'
  <2> SUFFICES ASSUME SystemInv, [Next]_vars PROVE SystemInv'
    OBVIOUS
  <2>1. FleetInv'
    BY FleetNext DEF SystemInv
  <2>2. ControllerRaisesSystem'
    <3>1. CASE RunMeta
      BY <3>1, SystemRunMeta
    <3>2. CASE \E m \in plant \ {"meta"} : RunModule(m)
      BY <3>2, SystemRunModule
    <3>3. CASE UNCHANGED vars
      BY <3>3 DEF vars, SystemInv, ControllerRaisesSystem
    <3> QED
      BY <3>1, <3>2, <3>3 DEF Next
  <2> QED
    BY <2>1, <2>2 DEF SystemInv
<1>2. SystemInv => ControllerRaisesSystem
  BY DEF SystemInv
<1> QED
  BY SystemInit, <1>1, <1>2, PTL DEF Spec

-----------------------------------------------------------------------------
(* A station that is switched off *)

(* A value of none is not above a population of counts. *)
LEMMA ZeroIsNotHigh ==
    ASSUME NEW vals, IsFiniteSet(DOMAIN vals), \A i \in DOMAIN vals : vals[i] \in Nat
    PROVE  RobustZ(0, vals) <= 0
<1> DEFINE n   == Cardinality(DOMAIN vals)
           med == Median(vals)
           off == [i \in DOMAIN vals |-> Abs(vals[i] - med)]
           mad == Median(off)
           avg == SumFunction(vals) \div n
           far == Max({Abs(vals[i] - avg) : i \in DOMAIN vals})
           dev(x) == ((x - avg) * 1000) \div far
           std == Sqrt(SumFunction([i \in DOMAIN vals |-> dev(vals[i]) * dev(vals[i])]) \div n)
<1>1. RobustZ(0, vals) = IF n < 2 THEN 0
                         ELSE IF mad > 0 THEN ((0 - med) * 6745) \div (10 * mad)
                         ELSE IF far <= 0 \/ std = 0 THEN 0
                         ELSE (dev(0) * 1000) \div std
  BY DEF RobustZ
<1>2. Whole(vals) /\ n \in Nat
  BY FS_CardinalityType DEF Whole
<1>3. CASE n < 2
  BY <1>1, <1>3
<1>4. CASE n >= 2
  <2>1. med \in Nat
    <3>1. DOMAIN vals # {}
      BY <1>4, FS_EmptySet
    <3>2. (n + 1) \div 2 \in 1..n /\ n \div 2 + 1 \in 1..n
      BY <1>2, <1>4
    <3>3. Nth(vals, (n + 1) \div 2) \in Nat /\ Nth(vals, n \div 2 + 1) \in Nat
      BY <1>2, <3>2, NthIsThere
    <3>4. \A x, y \in Nat : (x + y) \div 2 \in Nat
      BY SMT
    <3> QED
      BY <3>3, <3>4 DEF Median
  <2>2. mad \in Int
    <3>1. \A i \in DOMAIN vals : off[i] \in Int
      BY <2>1 DEF Abs
    <3>2. Whole(off) /\ DOMAIN off # {}
      BY <1>4, <3>1, FS_EmptySet DEF Whole
    <3> HIDE DEF off
    <3> QED
      BY <3>2, MedianInt
  <2>3. \A x, d \in Nat : d > 0 => ((0 - x) * 6745) \div (10 * d) <= 0
    <3>1. \A a, d \in Int : a <= 0 /\ d > 0 => a \div d <= 0
      BY SMT
    <3>2. \A x, d \in Nat : (0 - x) * 6745 <= 0 /\ (0 - x) * 6745 \in Int /\ 10 * d \in Int
                            /\ (d > 0 => 10 * d > 0)
      BY SMT
    <3> QED
      BY <3>1, <3>2
  <2>4. CASE mad > 0
    <3> HIDE DEF med, mad, n
    <3>1. RobustZ(0, vals) = ((0 - med) * 6745) \div (10 * mad)
      BY <1>1, <1>2, <1>4, <2>4
    <3>2. mad \in Nat
      BY <2>2, <2>4
    <3> QED
      BY <2>1, <2>3, <2>4, <3>1, <3>2
  <2>5. CASE ~(mad > 0) /\ (far <= 0 \/ std = 0)
    <3> HIDE DEF med, mad, n, far, std
    <3> QED
      BY <1>1, <1>2, <1>4, <2>5
  <2>6. CASE ~(mad > 0) /\ ~(far <= 0 \/ std = 0)
    <3>1. avg \in Nat
      <4>1. SumFunction(vals) \in Nat
        BY SumNat
      <4>2. \A x \in Nat, k \in Nat : k >= 2 => x \div k \in Nat
        BY SMT
      <4> HIDE DEF n
      <4> QED
        BY <1>2, <1>4, <4>1, <4>2
    <3>2. far \in Int
      <4> DEFINE away == [i \in DOMAIN vals |-> Abs(vals[i] - avg)]
                 S == {away[i] : i \in DOMAIN vals}
      <4>1. IsFiniteSet(S) /\ S # {} /\ S \subseteq Int
        <5>1. DOMAIN away = DOMAIN vals /\ DOMAIN vals # {}
          BY <1>4, FS_EmptySet
        <5>2. \A i \in DOMAIN vals : away[i] \in Int
          BY <3>1 DEF Abs
        <5> HIDE DEF away
        <5> QED
          BY <5>1, <5>2, RangeFinite
      <4>2. far = Max(S)
        OBVIOUS
      <4> HIDE DEF S, far
      <4> QED
        BY <4>1, <4>2, MinMax
    <3> HIDE DEF far, avg
    <3>3. \A x \in Int : far > 0 => dev(x) \in Int
      BY <3>1, <3>2
    <3>4. far > 0
      BY <2>6, <3>2
    <3>5. std \in Nat
      <4> DEFINE sq == [i \in DOMAIN vals |-> dev(vals[i]) * dev(vals[i])]
      <4>1. \A i \in DOMAIN vals : dev(vals[i]) \in Int
        BY <3>3, <3>4
      <4>2. \A x \in Int : x * x \in Nat
        BY SMT
      <4> HIDE DEF dev
      <4>3. \A i \in DOMAIN sq : sq[i] \in Nat
        BY <4>1, <4>2
      <4>4. DOMAIN sq = DOMAIN vals
        OBVIOUS
      <4> HIDE DEF sq
      <4>5. SumFunction(sq) \in Nat
        BY <4>3, <4>4, SumNat
      <4>6. \A x \in Nat, k \in Nat : k >= 2 => x \div k \in Nat
        BY SMT
      <4>7. SumFunction(sq) \div n \in Nat
        <5> HIDE DEF n
        <5> QED
          BY <1>2, <1>4, <4>5, <4>6
      <4> QED
        BY <4>7, SqrtNat DEF sq
    <3>6. \A a, d \in Int : a <= 0 /\ d > 0 => a \div d <= 0
      BY SMT
    <3>7. dev(0) <= 0
      <4>1. (0 - avg) * 1000 <= 0 /\ (0 - avg) * 1000 \in Int
        BY <3>1
      <4> QED
        BY <3>2, <3>4, <3>6, <4>1
    <3>8. dev(0) \in Int
      BY <3>3, <3>4
    <3> HIDE DEF dev, std, med, mad, n
    <3>9. RobustZ(0, vals) = (dev(0) * 1000) \div std
      BY <1>1, <1>2, <1>4, <2>6
    <3>10. dev(0) * 1000 <= 0 /\ dev(0) * 1000 \in Int /\ std > 0
      BY <2>6, <3>5, <3>7, <3>8
    <3> QED
      BY <3>5, <3>6, <3>9, <3>10
  <2> QED
    BY <2>4, <2>5, <2>6
<1> QED
  BY <1>2, <1>3, <1>4

(* What a row keeps of a verdict can only be so: a station without a         *)
(* discrepancy is not above its peers, and only an open gate is stuck.       *)
FactsOK(m, facts) ==
    /\ m = "gtp_station" => ("perDay" \in DOMAIN facts /\ facts.perDay = 0
                              => facts.z \in Int /\ facts.z <= 0)
    /\ m = "gate" => (~facts.nonClosed => ~facts.stuck)
    /\ m = "network" => facts.down \in Nat
    /\ m \in {"gtp_station", "decant_station"} =>
         ("misread" \in DOMAIN facts => facts.misread \in Nat)

GtpVerdict(f, hist, v) ==
    IF f.entity = "station"
    THEN /\ v.facts = [inactive |-> f.inactive, perDay |-> f.perDay, z |-> f.z]
         /\ v.tier = TierOf(ScoreOf(Total(GtpStationPenalties(f, hist))))
    ELSE /\ v.facts = [misread |-> f.misread, scans |-> f.scans]
         /\ v.tier = TierOf(ScoreOf(Total(ScannerPenalties(f, hist, 0))))

LEMMA GtpSays ==
    ASSUME NEW feats, NEW stored, NEW id \in DOMAIN GtpScore(feats, stored)
    PROVE  id \in DOMAIN feats
           /\ GtpVerdict(feats[id], History(stored, id), GtpScore(feats, stored)[id])
<1> DEFINE of(d) == IF feats[d].entity = "station" THEN ScoreGtpStation(feats[d], History(stored, d))
                    ELSE ScoreGtpScanner(feats[d], History(stored, d))
           alone == [d \in DOMAIN feats |-> of(d)]
           linked == CrossLinked(feats, alone)
           w == of(id)
           v == GtpScore(feats, stored)[id]
<1>1. id \in DOMAIN feats
  BY DEF GtpScore
<1>2. v = IF id \in linked THEN Also(w, "corroboration") ELSE w
  BY <1>1 DEF GtpScore
<1> HIDE DEF linked
<1>3. v.tier = w.tier /\ v.facts = w.facts
  BY <1>2, AlsoSame DEF ScoreGtpScanner
<1>4. GtpVerdict(feats[id], History(stored, id), w)
  BY DEF GtpVerdict, ScoreGtpScanner, ScoreScanner, ScoreGtpStation, Judge
<1> HIDE DEF w, v
<1> QED
  BY <1>1, <1>3, <1>4 DEF GtpVerdict, v

DecantVerdict(f, hist, v) ==
    IF f.entity = "station"
    THEN /\ v.facts = [inactive |-> f.inactive, idle |-> f.idle]
         /\ v.tier = ScoreDecantStation(f, hist).tier
    ELSE /\ v.facts = [misread |-> f.misread, scans |-> f.scans]
         /\ v.tier = TierOf(ScoreOf(Total(ScannerPenalties(f, hist, 200))))

LEMMA DecantSays ==
    ASSUME NEW feats, NEW stored, NEW id \in DOMAIN DecantScore(feats, stored)
    PROVE  id \in DOMAIN feats
           /\ DecantVerdict(feats[id], History(stored, id), DecantScore(feats, stored)[id])
<1> DEFINE of(d) == IF feats[d].entity = "station" THEN ScoreDecantStation(feats[d], History(stored, d))
                    ELSE ScoreDecantScanner(feats[d], History(stored, d))
           alone == [d \in DOMAIN feats |-> of(d)]
           line == LineTrouble(feats, alone)
           w == of(id)
           v == DecantScore(feats, stored)[id]
<1>1. id \in DOMAIN feats
  BY DEF DecantScore
<1>2. v = IF id \in line THEN Also(w, "corroboration") ELSE w
  BY <1>1 DEF DecantScore
<1> HIDE DEF line
<1>3. v.tier = w.tier /\ v.facts = w.facts
  BY <1>2, AlsoSame DEF ScoreDecantScanner
<1>4. DecantVerdict(feats[id], History(stored, id), w)
  BY DEF DecantVerdict, ScoreDecantScanner, ScoreScanner, ScoreDecantStation, Judge
<1> HIDE DEF w, v
<1> QED
  BY <1>1, <1>3, <1>4 DEF DecantVerdict, v

(* A station without discrepancies is not above the stations that have some. *)
LEMMA StationIsQuiet ==
    ASSUME NEW b, GtpBundle(b), NEW s \in DOMAIN GtpStationFeatures(b),
           GtpStationFeatures(b)[s].perDay = 0
    PROVE  GtpStationFeatures(b)[s].z \in Int /\ GtpStationFeatures(b)[s].z <= 0
<1> DEFINE perDay(t) == IF t \in DOMAIN b.found THEN Rounded(1000 * b.found[t], b.days) ELSE 0
           counted   == {t \in DOMAIN b.found : b.found[t] > 0}
           pool      == [t \in counted |-> perDay(t)]
<1>1. s \in DOMAIN b.roster \cup DOMAIN b.found
  BY DEF GtpStationFeatures
<1>2. /\ GtpStationFeatures(b)[s].perDay = perDay(s)
      /\ GtpStationFeatures(b)[s].z = RobustZ(perDay(s), pool)
  BY <1>1 DEF GtpStationFeatures
<1>3. IsFiniteSet(counted)
  BY FS_Subset DEF GtpBundle
<1>4. \A t \in counted : perDay(t) \in Nat
  BY RoundedPart DEF GtpBundle
<1> HIDE DEF perDay
<1>5. RobustZ(0, pool) \in Int /\ RobustZ(0, pool) <= 0
  <2>1. IsFiniteSet(DOMAIN pool) /\ \A t \in DOMAIN pool : pool[t] \in Nat
    BY <1>3, <1>4
  <2> HIDE DEF pool
  <2> QED
    BY <2>1, ZeroIsNotHigh, RobustZInt DEF Whole
<1> QED
  BY <1>2, <1>5

LEMMA GtpFactsOK ==
    ASSUME NEW b, GtpBundle(b), NEW stored, NEW id \in DOMAIN GtpScore(GtpFeatures(b), stored)
    PROVE  FactsOK("gtp_station", GtpScore(GtpFeatures(b), stored)[id].facts)
<1> DEFINE feats == GtpFeatures(b)
           v     == GtpScore(feats, stored)[id]
           f     == feats[id]
           scan    == ScannerFeatures(b.scanners, GtpSubtypes)
           station == GtpStationFeatures(b)
<1>1. id \in DOMAIN feats /\ GtpVerdict(f, History(stored, id), v)
  BY GtpSays
<1>2. f = (IF id \in DOMAIN station THEN station[id] ELSE scan[id])
      /\ (id \in DOMAIN station \/ id \in DOMAIN scan)
  BY <1>1 DEF GtpFeatures, Together
<1>3. id \in DOMAIN station => station[id].entity = "station"
                               /\ (station[id].perDay = 0
                                   => station[id].z \in Int /\ station[id].z <= 0)
  BY StationFeaturesOK, StationIsQuiet
<1>4. id \in DOMAIN scan => scan[id].entity = "scanner" /\ scan[id].misread \in Nat
  BY ScannerFeaturesOK DEF GtpBundle, ScannerFeature
<1> HIDE DEF f, v, scan, station, feats
<1>5. CASE id \in DOMAIN station
  <2>1. v.facts = [inactive |-> f.inactive, perDay |-> f.perDay, z |-> f.z]
    BY <1>1, <1>2, <1>3, <1>5 DEF GtpVerdict
  <2>2. "misread" \notin DOMAIN v.facts /\ v.facts.perDay = f.perDay /\ v.facts.z = f.z
    BY <2>1
  <2> QED
    BY <1>2, <1>3, <1>5, <2>2 DEF FactsOK, v, feats
<1>6. CASE id \notin DOMAIN station
  <2>1. v.facts = [misread |-> f.misread, scans |-> f.scans]
    BY <1>1, <1>2, <1>4, <1>6 DEF GtpVerdict
  <2>2. "perDay" \notin DOMAIN v.facts /\ v.facts.misread = f.misread
    BY <2>1
  <2> QED
    BY <1>2, <1>4, <1>6, <2>2 DEF FactsOK, v, feats
<1> QED
  BY <1>5, <1>6

LEMMA GateFactsOK ==
    ASSUME NEW b, NEW stored, NEW id \in DOMAIN GateScore(GateFeatures(b), stored)
    PROVE  FactsOK("gate", GateScore(GateFeatures(b), stored)[id].facts)
<1> DEFINE feats == GateFeatures(b)
           v     == GateScore(feats, stored)[id]
<1>1. id \in DOMAIN feats
  BY DEF GateScore
<1>2. v.facts = [nonClosed |-> feats[id].nonClosed, stuck |-> feats[id].excess > 0]
  BY <1>1 DEF GateScore, Judge
<1>3. ~feats[id].nonClosed => feats[id].excess = 0
  BY <1>1, GateRests DEF GateAtRest
<1> HIDE DEF feats, v
<1>4. v.facts.nonClosed = feats[id].nonClosed /\ v.facts.stuck = (feats[id].excess > 0)
  BY <1>2
<1>5. ASSUME ~v.facts.nonClosed PROVE ~v.facts.stuck
  <2>1. ~(feats[id].excess > 0)
    BY <1>3, <1>4, <1>5
  <2> QED
    BY <1>4, <2>1
<1> QED
  BY <1>5 DEF FactsOK, v, feats

LEMMA DecantFactsOK ==
    ASSUME NEW b, DecantBundle(b), NEW stored, NEW id \in DOMAIN DecantScore(DecantFeatures(b), stored)
    PROVE  FactsOK("decant_station", DecantScore(DecantFeatures(b), stored)[id].facts)
<1> DEFINE feats == DecantFeatures(b)
           v     == DecantScore(feats, stored)[id]
           f     == feats[id]
<1>1. id \in DOMAIN feats /\ DecantVerdict(f, History(stored, id), v)
  BY DecantSays
<1>2. DecantFeature(f)
  BY <1>1, DecantFeaturesOK
<1> HIDE DEF f, v, feats
<1>3. CASE f.entity = "station"
  <2>1. v.facts = [inactive |-> f.inactive, idle |-> f.idle]
    BY <1>1, <1>3 DEF DecantVerdict
  <2>2. "misread" \notin DOMAIN v.facts
    BY <2>1
  <2> QED
    BY <2>2 DEF FactsOK, v, feats
<1>4. CASE f.entity # "station"
  <2>1. v.facts = [misread |-> f.misread, scans |-> f.scans]
    BY <1>1, <1>4 DEF DecantVerdict
  <2>2. v.facts.misread \in Nat
    BY <1>2, <1>4, <2>1 DEF DecantFeature, ScannerFeature
  <2> QED
    BY <2>2 DEF FactsOK, v, feats
<1> QED
  BY <1>3, <1>4

LEMMA NetworkSays ==
    ASSUME NEW feats, NEW stored, NEW id \in DOMAIN NetworkScore(feats, stored)
    PROVE  LET v == NetworkScore(feats, stored)[id]
           IN  /\ id \in DOMAIN feats /\ v.facts = [down |-> feats[id].down]
               /\ v.tier = TierOf(ScoreOf(Total(NetworkPenalties(feats[id], History(stored, id)))))
<1>1. id \in DOMAIN feats
  BY DEF NetworkScore
<1> QED
  BY <1>1 DEF NetworkScore, Judge

LEMMA NetworkFactsOK ==
    ASSUME NEW b, NetworkBundle(b), NEW stored,
           NEW id \in DOMAIN NetworkScore(NetworkFeatures(b), stored)
    PROVE  FactsOK("network", NetworkScore(NetworkFeatures(b), stored)[id].facts)
<1> DEFINE feats == NetworkFeatures(b)
           v     == NetworkScore(feats, stored)[id]
<1>1. id \in DOMAIN feats /\ v.facts = [down |-> feats[id].down]
  BY NetworkSays
<1>2. feats[id].down \in Nat
  BY <1>1, NetworkFeaturesOK DEF NetworkFeature
<1> HIDE DEF feats, v
<1> QED
  BY <1>1, <1>2 DEF FactsOK, v, feats

(* A tier that twenty points leave. *)
LEMMA StaysWatch ==
    ASSUME NEW pen, Points(pen), Total(pen) <= 20 * U
    PROVE  Rank(TierOf(ScoreOf(Total(pen)))) >= Rank("watch")
<1>1. Total(pen) \in Nat
  BY TotalNat
<1>2. TierOf(ScoreOf(Total(pen))) \in {"ok", "watch"}
  BY <1>1, SMT DEF TierOf, ScoreOf, Positive, U
<1> QED
  BY <1>2, RankIs

LEMMA TwentyPoints == 20 * U \in Nat
BY DEF U

LEMMA UpTo ==
    ASSUME NEW x \in 0..20 * U
    PROVE  x \in Nat /\ x <= 20 * U
<1>1. \A n \in Nat : \A y \in 0..n : y \in Nat /\ y <= n
  OBVIOUS
<1> QED
  BY <1>1, TwentyPoints

LEMMA OfflineStation ==
    ASSUME NEW f, StationFeature(f), f.perDay = 0, f.z <= 0, NEW hist, RowsOK(hist),
           \A i \in DOMAIN hist : hist[i].facts.perDay = 0 /\ hist[i].facts.z \in Int
                                  /\ hist[i].facts.z <= 0
    PROVE  Rank(TierOf(ScoreOf(Total(GtpStationPenalties(f, hist))))) >= Rank("watch")
<1> DEFINE pen == GtpStationPenalties(f, hist)
           S == {i \in DOMAIN hist : hist[i].facts.perDay > 20000 \/ hist[i].facts.z >= 2000}
           before == [i \in DOMAIN hist |-> hist[i].facts.inactive]
           p1 == Capped(60 * f.z, 40)
           p2 == Capped(15 * (f.perDay - 20000), 20)
           p3 == Capped(6 * U * Cardinality(S), 30)
           p4 == Capped(4 * U * (InARow(f.inactive, before) - 1), 20)
<1>1. pen = << <<"discrepancy_peer_z", p1>>, <<"discrepancy_abs", p2>>, <<"recurrence", p3>>,
               <<"offline_persistence", p4>> >>
  BY DEF GtpStationPenalties
<1>2. Points(pen)
  BY StationPoints
<1>3. p1 = 0 /\ p2 = 0
  <2>1. \A z \in Int : z <= 0 => Capped(60 * z, 40) = 0
    BY SMT DEF Capped, AtMost, Positive, U
  <2>2. Capped(15 * (0 - 20000), 20) = 0
    BY SMT DEF Capped, AtMost, Positive, U
  <2> QED
    BY <2>1, <2>2 DEF StationFeature
<1>4. p3 = 0
  <2>1. S = {}
    <3> SUFFICES ASSUME NEW i \in S PROVE FALSE
      OBVIOUS
    <3>1. hist[i].facts.perDay = 0 /\ hist[i].facts.z \in Int /\ hist[i].facts.z <= 0
      OBVIOUS
    <3>2. hist[i].facts.perDay > 20000 \/ hist[i].facts.z >= 2000
      OBVIOUS
    <3> QED
      BY <3>1, <3>2
  <2>2. Cardinality({}) = 0
    BY FS_EmptySet
  <2>3. Capped(6 * U * 0, 30) = 0
    BY SMT DEF Capped, AtMost, Positive, U
  <2> HIDE DEF S
  <2> QED
    BY <2>1, <2>2, <2>3
<1>5. p4 \in 0..20 * U
  <2>1. before \in [DOMAIN hist -> {hist[i].facts.inactive : i \in DOMAIN hist}]
    OBVIOUS
  <2> HIDE DEF before
  <2>2. InARow(f.inactive, before) \in Nat
    BY <2>1, InARowNat
  <2>3. \A n \in Nat : 4 * U * (n - 1) \in Int
    BY DEF U
  <2> QED
    BY <2>2, <2>3, CappedBounds
<1> HIDE DEF p1, p2, p3, p4, pen
<1>6. DOMAIN pen = 1..4 /\ pen[1][2] = p1 /\ pen[2][2] = p2 /\ pen[3][2] = p3 /\ pen[4][2] = p4
  BY <1>1
<1>7. Total(pen) = p1 + p2 + p3 + p4
  BY <1>2, <1>6, TotalFew
<1>8. Total(pen) <= 20 * U
  <2>1. p4 \in Nat /\ p4 <= 20 * U
    BY <1>5, UpTo
  <2> QED
    BY <1>3, <1>4, <1>7, <2>1
<1> QED
  BY <1>2, <1>8, StaysWatch DEF pen

LEMMA OfflineDecant ==
    ASSUME NEW f, ~(f.inactive /\ f.idle), f.inactive, NEW hist, RowsOK(hist)
    PROVE  Rank(ScoreDecantStation(f, hist).tier) >= Rank("watch")
<1> DEFINE off  == [i \in DOMAIN hist |-> hist[i].facts.inactive]
           rest == [i \in DOMAIN hist |-> hist[i].facts.idle]
           p1 == Capped(4 * U * (InARow(f.inactive, off) - 1), 20)
           p2 == Capped(6 * U * (InARow(f.idle, rest) - 1), 40)
           pen == << <<"offline_persistence", p1>>, <<"idle_recurrence", p2>> >>
           v   == ScoreDecantStation(f, hist)
<1>1. v.tier = TierOf(ScoreOf(Total(pen)))
  BY DEF ScoreDecantStation, Judge
<1>2. InARow(f.inactive, off) \in Nat
  <2>1. off \in [DOMAIN hist -> {hist[i].facts.inactive : i \in DOMAIN hist}]
    OBVIOUS
  <2> HIDE DEF off
  <2> QED
    BY <2>1, InARowNat
<1>3. InARow(f.idle, rest) = 0
  BY DEF InARow
<1> HIDE DEF off, rest, v
<1>4. p1 \in 0..20 * U
  <2>1. \A n \in Nat : 4 * U * (n - 1) \in Int
    BY DEF U
  <2> QED
    BY <1>2, <2>1, CappedBounds
<1>5. p2 = 0
  BY <1>3, SMT DEF Capped, AtMost, Positive, U
<1> HIDE DEF p1, p2
<1>6. p1 \in Nat /\ p1 <= 20 * U
  BY <1>4, UpTo
<1>7. DOMAIN pen = 1..2 /\ pen[1][2] = p1 /\ pen[2][2] = p2 /\ Points(pen)
  BY <1>5, <1>6 DEF Points
<1> HIDE DEF pen
<1>8. Total(pen) <= 20 * U
  BY <1>5, <1>6, <1>7, TotalFew DEF U
<1> QED
  BY <1>1, <1>7, <1>8, StaysWatch DEF v

-----------------------------------------------------------------------------
(* A component below the thresholds of its module *)

(* Nothing of three factors, or of four. *)
LEMMA NetworkBenign ==
    ASSUME NEW f, NetworkFeature(f), f.down <= 3000, f.today <= 5000, NEW hist, RowsOK(hist),
           \A i \in DOMAIN hist : hist[i].facts.down \in Nat /\ hist[i].facts.down < 6000
    PROVE  TierOf(ScoreOf(Total(NetworkPenalties(f, hist)))) = "ok"
<1> DEFINE pen == NetworkPenalties(f, hist)
           S == {i \in DOMAIN hist : hist[i].facts.down >= 6000}
           p1 == Capped(30 * (f.down - 3000), 45)
           p2 == Capped(IF f.down >= 4000 THEN 40 * f.z ELSE 0, 16)
           p3 == Capped(IF f.today > f.down THEN 15 * (f.today - 5000) ELSE 0, 20)
           p4 == Capped(6 * U * Cardinality(S), 30)
<1>1. pen = << <<"downtime_abs", p1>>, <<"downtime_peer_z", p2>>, <<"recent_spike", p3>>,
               <<"recurrence", p4>> >>
  BY DEF NetworkPenalties
<1>2. Points(pen)
  BY NetworkPoints
<1>3. p1 = 0 /\ p2 = 0 /\ p3 = 0
  <2>1. p1 = 0
    BY SMT DEF Capped, AtMost, Positive, U, NetworkFeature
  <2>2. p2 = 0
    BY SMT DEF Capped, AtMost, Positive, U, NetworkFeature
  <2>3. p3 = 0
    BY SMT DEF Capped, AtMost, Positive, U, NetworkFeature
  <2> QED
    BY <2>1, <2>2, <2>3
<1>4. p4 = 0
  <2>1. S = {}
    <3> SUFFICES ASSUME NEW i \in DOMAIN hist, hist[i].facts.down >= 6000 PROVE FALSE
      OBVIOUS
    <3>1. hist[i].facts.down \in Nat /\ hist[i].facts.down < 6000
      OBVIOUS
    <3> QED
      BY <3>1
  <2>2. Cardinality({}) = 0
    BY FS_EmptySet
  <2>3. Capped(6 * U * 0, 30) = 0
    BY SMT DEF Capped, AtMost, Positive, U
  <2> HIDE DEF S
  <2> QED
    BY <2>1, <2>2, <2>3
<1> HIDE DEF p1, p2, p3, p4, pen
<1>5. DOMAIN pen = 1..4 /\ pen[1][2] = p1 /\ pen[2][2] = p2 /\ pen[3][2] = p3 /\ pen[4][2] = p4
  BY <1>1
<1>6. Total(pen) = 0
  BY <1>2, <1>3, <1>4, <1>5, TotalFew
<1>7. Total(pen) <= 15 * U
  BY <1>6, SMT DEF U
<1> QED
  BY <1>2, <1>7, StaysOk DEF pen

LEMMA ControllerBenign ==
    ASSUME NEW f, f.util \in Nat, f.util <= 60 * Percent, NEW hist
    PROVE  TierOf(ScoreOf(Total(ControllerPenalties(f, BusyRuns(f, hist))))) = "ok"
<1> DEFINE pen == ControllerPenalties(f, 0)
           p1 == Capped(25 * (f.util - 60 * Percent), 70)
           p2 == Capped(6 * U * (0 - 1), 30)
<1>1. BusyRuns(f, hist) = 0
  BY SMT DEF BusyRuns, Percent
<1>2. pen = << <<"saturation", p1>>, <<"sustained_high", p2>> >>
  BY DEF ControllerPenalties
<1>3. Points(pen)
  BY ControllerPoints
<1>4. p1 = 0 /\ p2 = 0
  <2>1. p1 = 0
    BY SMT DEF Capped, AtMost, Positive, U, Percent
  <2>2. p2 = 0
    BY SMT DEF Capped, AtMost, Positive, U
  <2> QED
    BY <2>1, <2>2
<1> HIDE DEF p1, p2, pen
<1>5. DOMAIN pen = 1..2 /\ pen[1][2] = p1 /\ pen[2][2] = p2
  BY <1>2
<1>6. Total(pen) = 0
  BY <1>3, <1>4, <1>5, TotalFew
<1>7. Total(pen) <= 15 * U
  BY <1>6, SMT DEF U
<1> QED
  BY <1>1, <1>3, <1>7, StaysOk DEF pen

LEMMA ScannerBenign ==
    ASSUME NEW f, ScannerFeature(f), f.misread < 1000, NEW hist, RowsOK(hist), NEW minScans,
           \A i \in DOMAIN hist : hist[i].facts.misread \in Nat /\ hist[i].facts.misread < 2000
    PROVE  TierOf(ScoreOf(Total(ScannerPenalties(f, hist, minScans)))) = "ok"
<1> DEFINE pen == ScannerPenalties(f, hist, minScans)
           S == {i \in DOMAIN hist : hist[i].facts.misread >= 2000
                                      /\ hist[i].facts.scans >= minScans}
           c  == Capped(30 * f.misread, 75)
           a  == AtMost(f.scans, 200)
           p1 == (c * a) \div 200
           p2 == Capped(IF f.scans >= 200 /\ f.misread >= 1000 THEN 40 * f.z ELSE 0, 16)
           p3 == Capped(6 * U * Cardinality(S), 30)
<1>1. pen = << <<"misread", p1>>, <<"peer_z", p2>>, <<"recurrence", p3>> >>
  BY DEF ScannerPenalties
<1>2. Points(pen)
  BY ScannerPoints
<1>3. p1 <= 30000
  <2>1. c \in Nat /\ c <= 30000
    BY SMT DEF Capped, AtMost, Positive, U, ScannerFeature
  <2>2. a \in Nat /\ a <= 200
    BY DEF AtMost, ScannerFeature
  <2>3. ASSUME NEW x \in Nat, NEW y \in Nat, x <= 30000, y <= 200
        PROVE  (x * y) \div 200 <= 30000
    <3>1. x * y <= 30000 * 200 /\ x * y \in Nat
      <4>1. x * y <= x * 200
        BY <2>3, SMT
      <4>2. x * 200 <= 30000 * 200
        BY <2>3, SMT
      <4>3. x * y \in Nat /\ x * 200 \in Nat
        BY SMT
      <4> HIDE <2>3
      <4> QED
        BY <4>1, <4>2, <4>3
    <3>2. \A q \in Nat : q <= 30000 * 200 => q \div 200 <= 30000
      BY SMT
    <3> QED
      BY <3>1, <3>2
  <2> HIDE DEF c, a
  <2> QED
    BY <2>1, <2>2, <2>3
<1>4. p2 = 0
  BY SMT DEF Capped, AtMost, Positive, U, ScannerFeature
<1>5. p3 = 0
  <2>1. S = {}
    <3> SUFFICES ASSUME NEW i \in DOMAIN hist, hist[i].facts.misread >= 2000 PROVE FALSE
      OBVIOUS
    <3>1. hist[i].facts.misread \in Nat /\ hist[i].facts.misread < 2000
      OBVIOUS
    <3> QED
      BY <3>1
  <2>2. Cardinality({}) = 0
    BY FS_EmptySet
  <2>3. Capped(6 * U * 0, 30) = 0
    BY SMT DEF Capped, AtMost, Positive, U
  <2> HIDE DEF S
  <2> QED
    BY <2>1, <2>2, <2>3
<1> HIDE DEF p1, p2, p3, pen
<1>6. DOMAIN pen = 1..3 /\ pen[1][2] = p1 /\ pen[2][2] = p2 /\ pen[3][2] = p3
  BY <1>1
<1>7. Total(pen) = p1 + p2 + p3 /\ p1 \in Nat
  BY <1>2, <1>6, TotalFew DEF Points
<1>8. Total(pen) <= 15 * U
  BY <1>3, <1>4, <1>5, <1>7, SMT DEF U
<1> QED
  BY <1>2, <1>8, StaysOk DEF pen

LEMMA GateBenign ==
    ASSUME NEW f, GateFeature(f), GateAtRest(f), ~f.nonClosed, NEW prior, GatePriorOK(prior),
           prior.inARow = 0, prior.stuck = 0, prior.nonClosed = 0,
           NEW pool, IsFiniteSet(DOMAIN pool), \A g \in DOMAIN pool : pool[g] \in Nat
    PROVE  TierOf(ScoreOf(Total(GatePenalties(f, prior, pool)))) = "ok"
<1> DEFINE pen == GatePenalties(f, prior, pool)
           rated(x) == IF prior.runs >= 3 THEN x ELSE 0
           z  == RobustZ(prior.nonClosed, pool)
           p1 == Capped(3 * U * f.excess, 62)
           p2 == Capped(IF f.code = 2 THEN 8 * U ELSE 0, 8)
           p3 == Capped(12 * U * (prior.inARow - 1), 36)
           p4 == Capped(rated(40 * prior.stuck), 20)
           p5 == Capped(rated(35 * prior.nonClosed), 22)
           p6 == Capped(rated(50 * z), 18)
<1>1. pen = << <<"stuck_latency", p1>>, <<"open_request", p2>>, <<"persistence", p3>>,
               <<"stuck_recurrence", p4>>, <<"non_closed_rate", p5>>, <<"peer_z", p6>> >>
  BY DEF GatePenalties
<1>2. Whole(pool)
  BY DEF Whole
<1>3. Points(pen)
  BY <1>2, GatePoints
<1>4. p1 = 0 /\ p2 = 0 /\ p3 = 0 /\ p4 = 0 /\ p5 = 0
  <2>1. f.code # 2 /\ f.excess = 0
    BY DEF GateAtRest
  <2>2. p1 = 0 /\ p2 = 0 /\ p3 = 0
    BY <2>1, SMT DEF Capped, AtMost, Positive, U
  <2>3. p4 = 0 /\ p5 = 0
    BY SMT DEF Capped, AtMost, Positive, U
  <2> QED
    BY <2>2, <2>3
<1>5. p6 = 0
  <2>1. z \in Int /\ z <= 0
    BY <1>2, ZeroIsNotHigh, RobustZInt
  <2> HIDE DEF z
  <2>2. rated(50 * z) \in Int /\ rated(50 * z) <= 0
    BY <2>1
  <2> HIDE DEF rated
  <2>3. \A x \in Int : x <= 0 => Capped(x, 18) = 0
    BY SMT DEF Capped, AtMost, Positive, U
  <2> QED
    BY <2>2, <2>3
<1> HIDE DEF p1, p2, p3, p4, p5, p6, pen
<1>6. /\ DOMAIN pen = 1..6 /\ pen[1][2] = p1 /\ pen[2][2] = p2 /\ pen[3][2] = p3
      /\ pen[4][2] = p4 /\ pen[5][2] = p5 /\ pen[6][2] = p6
  BY <1>1
<1>7. Total(pen) = 0
  BY <1>3, <1>4, <1>5, <1>6, TotalFew
<1>8. Total(pen) <= 15 * U
  BY <1>7, SMT DEF U
<1> QED
  BY <1>3, <1>8, StaysOk DEF pen

LEMMA NoneRounded ==
    ASSUME NEW n \in Nat \ {0}
    PROVE  Rounded(0 * U, n) = 0
<1>1. n \div 2 \in Nat /\ n \div 2 < n
  OBVIOUS
<1>2. \A x, d \in Nat : x < d => x \div d = 0
  BY SMT
<1>3. (n \div 2) \div n = 0
  BY <1>1, <1>2
<1>4. 0 * U + n \div 2 = n \div 2
  BY <1>1 DEF U
<1> QED
  BY <1>3, <1>4 DEF Rounded

LEMMA GatePriorClean ==
    ASSUME NEW f, ~f.nonClosed, NEW hist, RowsOK(hist),
           \A i \in DOMAIN hist : ~hist[i].facts.nonClosed /\ ~hist[i].facts.stuck
    PROVE  LET prior == GatePrior(f, hist)
           IN  prior.inARow = 0 /\ prior.stuck = 0 /\ prior.nonClosed = 0
<1> DEFINE quiet == {i \in DOMAIN hist : ~hist[i].facts.nonClosed}
           stuck == {i \in DOMAIN hist : hist[i].facts.stuck}
           rate(S) == IF hist = <<>> THEN 0 ELSE Rounded(Cardinality(S) * U, Len(hist))
           prior == GatePrior(f, hist)
<1>1. prior.nonClosed = rate(DOMAIN hist \ quiet) /\ prior.stuck = rate(stuck) /\ prior.inARow = 0
  BY DEF GatePrior
<1>2. DOMAIN hist \ quiet = {} /\ stuck = {}
  OBVIOUS
<1>3. rate({}) = 0
  <2>1. CASE hist = <<>>
    BY <2>1
  <2>2. CASE hist # <<>>
    <3>1. Len(hist) \in Nat \ {0}
      BY <2>2, SomeRows
    <3>2. Cardinality({}) = 0
      BY FS_EmptySet
    <3> QED
      BY <2>2, <3>1, <3>2, NoneRounded
  <2> QED
    BY <2>1, <2>2
<1> HIDE DEF quiet, stuck, rate, prior
<1> QED
  BY <1>1, <1>2, <1>3 DEF prior

-----------------------------------------------------------------------------
(* Causes *)

LEMMA ScoredNamed ==
    ASSUME FleetInv, NEW m \in plant \ {"shuttle", "conveyor", "bin_mech", "meta"},
           NEW b \in Readings[m], NEW id \in DOMAIN Scored(m, b)
    PROVE  HasCause(Scored(m, b)[id])
<1>1. m \in Modules \ {"meta"} /\ StoreOK(store[m])
  BY ModulesOf, StoredRows
<1>2. BundleOK(m, b)
  BY <1>1, ReadingsAssumption
<1>3. CASE m = "lift"
  BY <1>2, <1>3, LiftNamed DEF BundleOK, Scored
<1>4. CASE m = "tracker"
  BY <1>1, <1>2, <1>4, TrackerNamed DEF BundleOK, Scored
<1>5. CASE m = "gate"
  BY <1>1, <1>2, <1>5, GateNamed DEF BundleOK, Scored
<1>6. CASE m = "gtp_station"
  BY <1>1, <1>2, <1>6, GtpNamed DEF BundleOK, Scored
<1>7. CASE m = "decant_station"
  BY <1>1, <1>2, <1>7, DecantNamed DEF BundleOK, Scored
<1>8. CASE m = "network"
  BY <1>1, <1>2, <1>8, NetworkNamed DEF BundleOK, Scored
<1>9. CASE m = "controller"
  BY <1>1, <1>2, <1>9, ControllerNamed DEF BundleOK, Scored
<1> QED
  BY <1>1, <1>3, <1>4, <1>5, <1>6, <1>7, <1>8, <1>9 DEF Modules

CauseInv == FleetInv /\ FlaggedHasCause

LEMMA CauseInit == Init => CauseInv
<1> SUFFICES ASSUME Init PROVE CauseInv
  OBVIOUS
<1>1. \A m \in plant : DOMAIN present[m] = {}
  BY DEF Init
<1>2. FlaggedHasCause
  BY <1>1 DEF FlaggedHasCause, Verdicts
<1> QED
  BY <1>2, FleetInit DEF CauseInv

LEMMA CauseRan ==
    ASSUME CauseInv, NEW m, NEW bundle, NEW verdicts, Ran(m, bundle, verdicts),
           m \notin {"shuttle", "conveyor", "bin_mech", "meta"}
               => \A id \in DOMAIN verdicts : HasCause(verdicts[id])
    PROVE  FlaggedHasCause'
<1>1. /\ m \in plant /\ plant' = plant /\ DOMAIN present = plant
      /\ present' = [present EXCEPT ![m] = verdicts]
  BY DEF Ran, Goes, CauseInv, FleetInv
<1> SUFFICES ASSUME NEW n \in plant \ {"shuttle", "conveyor", "bin_mech", "meta"},
                    NEW id \in DOMAIN present'[n]
             PROVE  HasCause(present'[n][id])
  BY <1>1 DEF FlaggedHasCause, Verdicts, HasCause
<1>2. CASE n = m
  BY <1>1, <1>2
<1>3. CASE n # m
  <2>1. present'[n] = present[n]
    BY <1>1, <1>3
  <2> QED
    BY <2>1 DEF CauseInv, FlaggedHasCause, Verdicts, HasCause
<1> QED
  BY <1>2, <1>3

(* No component is reported as watch, warn or critical without a reason an    *)
(* operator can look at, in every module whose verdict is reached from few    *)
(* factors: one of them took five points, or the module names one of its own. *)
THEOREM FlaggedNamed == Spec => []FlaggedHasCause
<1>1. CauseInv /\ [Next]_vars => CauseInv'
  <2> SUFFICES ASSUME CauseInv, [Next]_vars PROVE CauseInv'
    OBVIOUS
  <2>1. FleetInv'
    BY FleetNext DEF CauseInv
  <2>2. FlaggedHasCause'
    <3>1. CASE RunMeta
      BY <3>1, CauseRan DEF RunMeta
    <3>2. ASSUME NEW m \in plant \ {"meta"}, RunModule(m) PROVE FlaggedHasCause'
      <4>1. PICK b \in Readings[m] : Ran(m, b, Scored(m, b))
        BY <3>2 DEF RunModule
      <4> QED
        BY <4>1, ScoredNamed, CauseRan DEF CauseInv
    <3>3. CASE UNCHANGED vars
      BY <3>3 DEF vars, CauseInv, FlaggedHasCause, Verdicts
    <3> QED
      BY <3>1, <3>2, <3>3 DEF Next
  <2> QED
    BY <2>1, <2>2 DEF CauseInv
<1>2. CauseInv => FlaggedHasCause
  BY DEF CauseInv
<1> QED
  BY CauseInit, <1>1, <1>2, PTL DEF Spec

-----------------------------------------------------------------------------
(* The rows of a component over the runs *)

(* Rows that only became older. *)
SameRows(old, new) ==
    /\ Len(new) = Len(old) /\ DOMAIN new = DOMAIN old
    /\ \A i \in DOMAIN old : new[i].tier = old[i].tier /\ new[i].facts = old[i].facts

(* The rows of a component after a run that said v of it, over the rows hist. *)
Recorded(m, hist, v, rows) ==
    /\ Len(rows) \in Nat /\ Len(rows) >= 1 /\ DOMAIN rows = 1..Len(rows)
    /\ rows[1].tier = v.tier /\ rows[1].facts = v.facts
    /\ \A i \in 2..Len(rows) : /\ i - 1 \in DOMAIN hist
                               /\ rows[i].facts = hist[i - 1].facts
    /\ Len(rows) < HistoryLimit[m] => Len(rows) = 1 + Len(hist)

LEMMA AgedSame ==
    ASSUME NEW m, NEW rows, Kept(m, rows), NEW gap \in Nat
    PROVE  SameRows(rows, Aged(rows, gap))
<1> DEFINE new == Aged(rows, gap)
<1>1. DOMAIN new = DOMAIN rows
  BY DEF Aged
<1>2. Len(new) = Len(rows)
  BY AgedKept
<1>3. ASSUME NEW i \in DOMAIN rows
      PROVE  new[i].tier = rows[i].tier /\ new[i].facts = rows[i].facts
  <2> DEFINE r == rows[i]
             older == AtMost(r.age + gap, AgeCap)
  <2>1. new[i] = [r EXCEPT !.age = older]
    BY DEF Aged
  <2>2. r = [age |-> r.age, score |-> r.score, tier |-> r.tier, ttm |-> r.ttm,
             cross |-> r.cross, facts |-> r.facts]
    BY <1>3 DEF Kept, GoodRow
  <2> HIDE DEF r, older, new
  <2>3. new[i] = [age |-> older, score |-> r.score, tier |-> r.tier, ttm |-> r.ttm,
                  cross |-> r.cross, facts |-> r.facts]
    BY <2>1, <2>2
  <2>4. new[i].tier = r.tier /\ new[i].facts = r.facts
    BY <2>3
  <2> QED
    BY <2>4 DEF r
<1> HIDE DEF new
<1> QED
  BY <1>1, <1>2, <1>3 DEF SameRows, new

LEMMA AddedRecorded ==
    ASSUME NEW m \in Modules, NEW v, Sound(m, v), NEW hist, Kept(m, hist), NEW gap \in Nat
    PROVE  Recorded(m, hist, v, Added(m, v, Aged(hist, gap)))
<1> DEFINE rows == Aged(hist, gap)
           new  == Added(m, v, rows)
           n    == AtMost(1 + Len(rows), HistoryLimit[m])
           r    == Row(v)
<1>1. Kept(m, rows) /\ Len(rows) = Len(hist) /\ SameRows(hist, rows)
  BY AgedKept, AgedSame
<1> HIDE DEF rows
<1>2. /\ n \in Nat /\ 1 <= n /\ n <= HistoryLimit[m] /\ n <= 1 + Len(rows)
      /\ new = [i \in 1..n |-> IF i = 1 THEN r ELSE rows[i - 1]]
  BY <1>1, AddedIs
<1>3. r.tier = v.tier /\ r.facts = v.facts
  BY DEF Row
<1>4. Len(hist) \in Nat /\ DOMAIN hist = 1..Len(hist) /\ HistoryLimit[m] \in Nat
  BY FleetAssumption DEF Kept
<1>5. n < HistoryLimit[m] => n = 1 + Len(hist)
  BY <1>1, <1>4 DEF AtMost
<1> HIDE DEF n, new, r
<1>6. Len(new) = n /\ DOMAIN new = 1..n
  <2>1. new \in [1..n -> {new[i] : i \in 1..n}]
    BY <1>2
  <2>2. DOMAIN new = 1..n
    BY <1>2
  <2> QED
    BY <1>2, <2>1, <2>2, LenIs
<1>7. new[1] = r /\ \A i \in 2..n : new[i] = rows[i - 1]
  BY <1>2
<1>8. \A i \in 2..n : i - 1 \in DOMAIN hist
  BY <1>1, <1>2, <1>4
<1>9. \A i \in 2..n : new[i].facts = hist[i - 1].facts
  BY <1>1, <1>7, <1>8 DEF SameRows
<1> QED
  BY <1>2, <1>3, <1>5, <1>6, <1>7, <1>8, <1>9 DEF Recorded, new, rows

(* The history of a component the store does not know is empty. *)
LEMMA HistoryKept ==
    ASSUME FleetInv, NEW m \in plant, NEW id
    PROVE  Kept(m, History(store[m], id))
<1>1. CASE id \in DOMAIN store[m]
  BY <1>1 DEF History, FleetInv, Stores
<1>2. CASE id \notin DOMAIN store[m]
  BY <1>2, ModulesOf, NoneKept DEF History
<1> QED
  BY <1>1, <1>2

LEMMA RanRows ==
    ASSUME FleetInv, NEW m, NEW bundle, NEW verdicts, Ran(m, bundle, verdicts),
           \A id \in DOMAIN verdicts : Sound(m, verdicts[id])
    PROVE  /\ m \in plant /\ plant' = plant
           /\ present'[m] = verdicts /\ reading'[m] = bundle /\ m \in DOMAIN reading'
           /\ DOMAIN store'[m] = DOMAIN store[m] \cup DOMAIN verdicts
           /\ \A id \in DOMAIN verdicts :
                Recorded(m, History(store[m], id), verdicts[id], store'[m][id])
           /\ \A id \in DOMAIN store[m] \ DOMAIN verdicts : SameRows(store[m][id], store'[m][id])
           /\ \A n \in plant \ {m} :
                /\ present'[n] = present[n] /\ DOMAIN store'[n] = DOMAIN store[n]
                /\ n \in DOMAIN reading => n \in DOMAIN reading' /\ reading'[n] = reading[n]
                /\ \A id \in DOMAIN store[n] : SameRows(store[n][id], store'[n][id])
<1> DEFINE ids(n) == DOMAIN store[n] \cup (IF n = m THEN DOMAIN verdicts ELSE {})
           rows(n, id, gap) == Aged(History(store[n], id), gap)
           kept(n, id, gap) == IF n = m /\ id \in DOMAIN verdicts
                               THEN Added(m, verdicts[id], rows(n, id, gap))
                               ELSE rows(n, id, gap)
<1>1. m \in plant /\ plant' = plant /\ plant \subseteq Modules /\ DOMAIN present = plant
  BY ModulesOf DEF Ran, Goes, FleetInv
<1>2. PICK gap \in Gaps : store' = [n \in plant |-> [id \in ids(n) |-> kept(n, id, gap)]]
  BY DEF Ran
<1>3. gap \in Nat
  BY FleetAssumption
<1>4. /\ present' = [present EXCEPT ![m] = verdicts]
      /\ reading' = Put(reading, m, bundle)
  BY DEF Ran
<1>5. \A n \in plant : /\ DOMAIN store'[n] = ids(n)
                       /\ \A id \in ids(n) : store'[n][id] = kept(n, id, gap)
  <2> HIDE DEF ids, kept
  <2> QED
    BY <1>2
<1>6. ASSUME NEW id \in DOMAIN verdicts
      PROVE  Recorded(m, History(store[m], id), verdicts[id], store'[m][id])
  <2>1. id \in ids(m) /\ kept(m, id, gap) = Added(m, verdicts[id], rows(m, id, gap))
    BY <1>6
  <2>2. store'[m][id] = Added(m, verdicts[id], Aged(History(store[m], id), gap))
    <3> HIDE DEF kept, ids
    <3> QED
      BY <1>1, <1>5, <2>1
  <2>3. Kept(m, History(store[m], id))
    BY <1>1, HistoryKept
  <2> QED
    BY <1>1, <1>3, <1>6, <2>2, <2>3, AddedRecorded
<1>7. ASSUME NEW n \in plant, NEW id \in DOMAIN store[n], ~(n = m /\ id \in DOMAIN verdicts)
      PROVE  SameRows(store[n][id], store'[n][id])
  <2>1. id \in ids(n) /\ kept(n, id, gap) = rows(n, id, gap)
    BY <1>7
  <2>2. store'[n][id] = Aged(History(store[n], id), gap)
    <3> HIDE DEF kept, ids
    <3> QED
      BY <1>5, <2>1
  <2>3. History(store[n], id) = store[n][id] /\ Kept(n, History(store[n], id))
    BY <1>7, HistoryKept DEF History
  <2> QED
    BY <1>3, <2>2, <2>3, AgedSame
<1>8. /\ present'[m] = verdicts /\ \A n \in plant \ {m} : present'[n] = present[n]
  BY <1>1, <1>4
<1>9. /\ reading'[m] = bundle /\ m \in DOMAIN reading'
      /\ \A n \in plant \ {m} : n \in DOMAIN reading => n \in DOMAIN reading' /\ reading'[n] = reading[n]
  BY <1>4 DEF Put
<1>10. /\ DOMAIN store'[m] = DOMAIN store[m] \cup DOMAIN verdicts
       /\ \A n \in plant \ {m} : DOMAIN store'[n] = DOMAIN store[n]
  <2>1. ids(m) = DOMAIN store[m] \cup DOMAIN verdicts /\ \A n \in plant \ {m} : ids(n) = DOMAIN store[n]
    OBVIOUS
  <2> HIDE DEF ids, kept
  <2> QED
    BY <1>1, <1>5, <2>1
<1> HIDE DEF ids, rows, kept
<1> QED
  BY <1>1, <1>6, <1>7, <1>8, <1>9, <1>10

LEMMA ScoredFacts ==
    ASSUME FleetInv, NEW m \in plant \ {"meta"}, NEW b \in Readings[m], NEW id \in DOMAIN Scored(m, b)
    PROVE  FactsOK(m, Scored(m, b)[id].facts)
<1>1. m \in Modules \ {"meta"}
  BY ModulesOf
<1>2. BundleOK(m, b)
  BY <1>1, ReadingsAssumption
<1>3. CASE m = "gtp_station"
  BY <1>2, <1>3, GtpFactsOK DEF BundleOK, Scored
<1>4. CASE m = "gate"
  BY <1>4, GateFactsOK DEF Scored
<1>5. CASE m = "decant_station"
  BY <1>2, <1>5, DecantFactsOK DEF BundleOK, Scored
<1>6. CASE m = "network"
  BY <1>2, <1>6, NetworkFactsOK DEF BundleOK, Scored
<1>7. CASE m \notin {"gtp_station", "gate", "decant_station", "network"}
  BY <1>7 DEF FactsOK
<1> QED
  BY <1>3, <1>4, <1>5, <1>6, <1>7

(* The stored rows of a component are clean, and of the form of its module.  *)
Calm(m, hist) ==
    /\ RowsOK(hist)
    /\ \A i \in DOMAIN hist : CleanRow(m, hist[i]) /\ FactsOK(m, hist[i].facts)

LEMMA GateCalm ==
    ASSUME NEW b, GateBundle(b), NEW stored, StoreOK(stored),
           NEW id \in DOMAIN GateScore(GateFeatures(b), stored),
           Benign("gate", b, id), Calm("gate", History(stored, id))
    PROVE  GateScore(GateFeatures(b), stored)[id].tier = "ok"
<1> DEFINE feats == GateFeatures(b)
           before(g) == GatePrior(feats[g], History(stored, g))
           prior == [g \in DOMAIN feats |-> before(g)]
           known == {h \in DOMAIN feats : prior[h].runs >= 3}
           pool  == [h \in known |-> prior[h].nonClosed]
           pen   == GatePenalties(feats[id], prior[id], pool)
           v     == GateScore(feats, stored)[id]
           hist  == History(stored, id)
<1>1. id \in DOMAIN feats
  BY DEF GateScore
<1>2. v.tier = TierOf(ScoreOf(Total(pen)))
  BY <1>1 DEF GateScore, Judge
<1>3. /\ IsFiniteSet(DOMAIN feats)
      /\ \A g \in DOMAIN feats : GateFeature(feats[g])
  BY OthersFinite, GateFeaturesOK
<1>4. GateAtRest(feats[id]) /\ ~feats[id].nonClosed
  <2>1. GateAtRest(feats[id]) /\ feats[id].code = b.gates[id]
    BY <1>1, GateRests
  <2>2. b.gates[id] = 1
    BY DEF Benign
  <2>3. feats[id].code \notin {2, 3}
    BY <2>1, <2>2
  <2>4. feats[id].nonClosed = (feats[id].code \in {2, 3})
    BY <2>1 DEF GateAtRest
  <2> HIDE DEF feats
  <2> QED
    BY <2>1, <2>3, <2>4
<1>5. \A i \in DOMAIN hist : ~hist[i].facts.nonClosed /\ ~hist[i].facts.stuck
  BY DEF Calm, CleanRow, FactsOK
<1> HIDE DEF feats, v
<1>6. \A g \in DOMAIN feats : GatePriorOK(prior[g])
  BY <1>3, HistoryOK, GatePriorIsOK DEF GateFeature
<1>7. IsFiniteSet(DOMAIN pool) /\ \A g \in DOMAIN pool : pool[g] \in Nat
  <2>1. IsFiniteSet(known)
    BY <1>3, FS_Subset
  <2> HIDE DEF prior
  <2> QED
    BY <1>6, <2>1 DEF GatePriorOK
<1>8. prior[id].inARow = 0 /\ prior[id].stuck = 0 /\ prior[id].nonClosed = 0
  <2>1. prior[id] = GatePrior(feats[id], hist)
    BY <1>1
  <2>2. RowsOK(hist)
    BY DEF Calm
  <2> HIDE DEF prior, hist
  <2> QED
    BY <1>4, <1>5, <2>1, <2>2, GatePriorClean
<1> HIDE DEF prior, pool
<1>9. v.tier = "ok"
  BY <1>1, <1>2, <1>3, <1>4, <1>6, <1>7, <1>8, GateBenign
<1> QED
  BY <1>9 DEF v, feats

LEMMA NetworkTier ==
    ASSUME NEW feats, NEW stored, NEW id, id \in DOMAIN NetworkScore(feats, stored)
    PROVE  /\ id \in DOMAIN feats
           /\ NetworkScore(feats, stored)[id].tier
                = TierOf(ScoreOf(Total(NetworkPenalties(feats[id], History(stored, id)))))
<1>1. id \in DOMAIN feats
  BY DEF NetworkScore
<1> QED
  BY <1>1 DEF NetworkScore, Judge

LEMMA NetworkCalm ==
    ASSUME NEW b, NetworkBundle(b), NEW stored,
           NEW id \in DOMAIN NetworkScore(NetworkFeatures(b), stored),
           Benign("network", b, id), Calm("network", History(stored, id))
    PROVE  NetworkScore(NetworkFeatures(b), stored)[id].tier = "ok"
<1> DEFINE feats == NetworkFeatures(b)
           f     == feats[id]
           hist  == History(stored, id)
           v     == NetworkScore(feats, stored)[id]
           down(up) == AtMost(Positive(100000 - up), 100000)
<1>1. id \in DOMAIN feats /\ v.tier = TierOf(ScoreOf(Total(NetworkPenalties(f, hist))))
  BY NetworkTier
<1>2. id \in DOMAIN b.window
  BY <1>1 DEF NetworkFeatures
<1>3. /\ f.down = down(b.window[id])
      /\ f.today = IF id \in DOMAIN b.today THEN down(b.today[id]) ELSE None
  BY <1>2 DEF NetworkFeatures
<1>4. NetworkFeature(f)
  BY <1>1, NetworkFeaturesOK
<1>5. b.window[id] \in Int /\ b.window[id] >= 97000
  BY <1>2 DEF NetworkBundle, Benign
<1>6. id \in DOMAIN b.today => b.today[id] \in Int /\ b.today[id] >= 95000
  BY DEF NetworkBundle, Benign
<1>7. \A up \in Int : /\ up >= 97000 => down(up) <= 3000
                      /\ up >= 95000 => down(up) <= 5000
  BY SMT DEF AtMost, Positive
<1> HIDE DEF down, f, v, feats, hist
<1>8. f.down <= 3000 /\ f.today <= 5000
  BY <1>3, <1>5, <1>6, <1>7 DEF None
<1>9. RowsOK(hist) /\ \A i \in DOMAIN hist : hist[i].facts.down \in Nat /\ hist[i].facts.down < 6000
  BY DEF Calm, CleanRow, FactsOK, hist
<1>10. v.tier = "ok"
  BY <1>1, <1>4, <1>8, <1>9, NetworkBenign
<1> QED
  BY <1>10 DEF v, feats

LEMMA ControllerCalm ==
    ASSUME NEW b, ControllerBundle(b), NEW stored,
           NEW id \in DOMAIN ControllerScore(ControllerFeatures(b), stored),
           Benign("controller", b, id)
    PROVE  ControllerScore(ControllerFeatures(b), stored)[id].tier = "ok"
<1> DEFINE feats == ControllerFeatures(b)
           f     == feats[id]
           hist  == History(stored, id)
           v     == ControllerScore(feats, stored)[id]
<1>1. id \in DOMAIN feats
  BY DEF ControllerScore
<1>2. v.tier = TierOf(ScoreOf(Total(ControllerPenalties(f, BusyRuns(f, hist)))))
  BY <1>1 DEF ControllerScore, Judge
<1>3. id \in DOMAIN b.nodes
  BY <1>1 DEF ControllerFeatures
<1>4. f.util = 100 * Percent - AtMost(Positive(b.nodes[id].idle), 100 * Percent)
  BY <1>1 DEF ControllerFeatures
<1>5. b.nodes[id].idle \in Int /\ b.nodes[id].idle >= 40 * Percent
  BY <1>3 DEF ControllerBundle, Benign
<1>6. f.util \in Nat
  BY <1>1, ControllerFeaturesOK
<1> HIDE DEF feats, f, v, hist
<1>7. f.util <= 60 * Percent
  BY <1>4, <1>5, SMT DEF AtMost, Positive, Percent
<1>8. v.tier = "ok"
  BY <1>2, <1>6, <1>7, ControllerBenign
<1> QED
  BY <1>8 DEF v, feats

(* What a device reads well is what its feature says. *)
LEMMA ReadsWellMisread ==
    ASSUME NEW table, NEW owned, NEW d \in DOMAIN ScannerFeatures(table, owned), ReadsWell(table[d])
    PROVE  ScannerFeatures(table, owned)[d].misread < 1000
<1> DEFINE mine     == {c \in DOMAIN table : table[c].subtype \in owned}
           total(c) == table[c].read + table[c].noRead
<1>1. d \in mine
  BY DEF ScannerFeatures
<1>2. ScannerFeatures(table, owned)[d].misread
        = IF total(d) = 0 THEN 0 ELSE Rounded(100000 * table[d].noRead, total(d))
  BY <1>1 DEF ScannerFeatures
<1>3. Rounded(100000 * table[d].noRead, total(d)) < 1000
  BY DEF ReadsWell
<1> HIDE DEF total
<1> QED
  BY <1>2, <1>3

LEMMA GtpCalm ==
    ASSUME NEW b, GtpBundle(b), NEW stored,
           NEW id \in DOMAIN GtpScore(GtpFeatures(b), stored),
           Benign("gtp_station", b, id), Calm("gtp_station", History(stored, id))
    PROVE  GtpScore(GtpFeatures(b), stored)[id].tier = "ok"
<1> DEFINE feats == GtpFeatures(b)
           scan  == ScannerFeatures(b.scanners, GtpSubtypes)
           f     == feats[id]
           hist  == History(stored, id)
           v     == GtpScore(feats, stored)[id]
<1>1. id \in DOMAIN feats /\ GtpVerdict(f, hist, v)
  BY GtpSays
<1>2. id \notin DOMAIN GtpStationFeatures(b) /\ ReadsWell(b.scanners[id])
  BY DEF Benign, GtpStationFeatures
<1>3. id \in DOMAIN scan /\ f = scan[id]
  BY <1>1, <1>2 DEF GtpFeatures, Together
<1>4. ScannerFeature(scan[id]) /\ scan[id].entity = "scanner" /\ scan[id].misread < 1000
  BY <1>2, <1>3, ScannerFeaturesOK, ReadsWellMisread DEF GtpBundle
<1> HIDE DEF feats, scan, f, v, hist
<1>5. v.tier = TierOf(ScoreOf(Total(ScannerPenalties(f, hist, 0))))
  BY <1>1, <1>3, <1>4 DEF GtpVerdict
<1>6. /\ RowsOK(hist)
      /\ \A i \in DOMAIN hist : hist[i].facts.misread \in Nat /\ hist[i].facts.misread < 2000
  BY DEF Calm, CleanRow, FactsOK, hist
<1>7. v.tier = "ok"
  BY <1>3, <1>4, <1>5, <1>6, ScannerBenign
<1> QED
  BY <1>7 DEF v, feats

LEMMA DecantCalm ==
    ASSUME NEW b, DecantBundle(b), NEW stored,
           NEW id \in DOMAIN DecantScore(DecantFeatures(b), stored),
           Benign("decant_station", b, id), Calm("decant_station", History(stored, id))
    PROVE  DecantScore(DecantFeatures(b), stored)[id].tier = "ok"
<1> DEFINE feats == DecantFeatures(b)
           scan  == ScannerFeatures(b.scanners, DecantSubtypes)
           f     == feats[id]
           hist  == History(stored, id)
           v     == DecantScore(feats, stored)[id]
<1>1. id \in DOMAIN feats /\ DecantVerdict(f, hist, v)
  BY DecantSays
<1>2. id \notin DOMAIN DecantStationFeatures(b) /\ ReadsWell(b.scanners[id])
  BY DEF Benign, DecantStationFeatures
<1>3. id \in DOMAIN scan /\ f = scan[id]
  BY <1>1, <1>2 DEF DecantFeatures, DecantScannerFeatures, Together
<1>4. ScannerFeature(scan[id]) /\ scan[id].entity = "scanner" /\ scan[id].misread < 1000
  BY <1>2, <1>3, ScannerFeaturesOK, ReadsWellMisread DEF DecantBundle
<1> HIDE DEF feats, scan, f, v, hist
<1>5. v.tier = TierOf(ScoreOf(Total(ScannerPenalties(f, hist, 200))))
  BY <1>1, <1>3, <1>4 DEF DecantVerdict
<1>6. /\ RowsOK(hist)
      /\ \A i \in DOMAIN hist : hist[i].facts.misread \in Nat /\ hist[i].facts.misread < 2000
  BY DEF Calm, CleanRow, FactsOK, hist
<1>7. v.tier = "ok"
  BY <1>3, <1>4, <1>5, <1>6, ScannerBenign
<1> QED
  BY <1>7 DEF v, feats

LEMMA ScoredCalm ==
    ASSUME FleetInv, NEW m \in plant \ {"meta"}, NEW b \in Readings[m], NEW id \in DOMAIN Scored(m, b),
           Benign(m, b, id), Calm(m, History(store[m], id))
    PROVE  Scored(m, b)[id].tier = "ok"
<1>1. m \in Modules \ {"meta"} /\ StoreOK(store[m])
  BY ModulesOf, StoredRows
<1>2. BundleOK(m, b)
  BY <1>1, ReadingsAssumption
<1>3. CASE m = "gate"
  BY <1>1, <1>2, <1>3, GateCalm DEF BundleOK, Scored
<1>4. CASE m = "network"
  BY <1>2, <1>4, NetworkCalm DEF BundleOK, Scored
<1>5. CASE m = "controller"
  BY <1>2, <1>5, ControllerCalm DEF BundleOK, Scored
<1>6. CASE m = "gtp_station"
  BY <1>2, <1>6, GtpCalm DEF BundleOK, Scored
<1>7. CASE m = "decant_station"
  BY <1>2, <1>7, DecantCalm DEF BundleOK, Scored
<1>8. CASE m \notin {"gate", "network", "controller", "gtp_station", "decant_station"}
  BY <1>8 DEF Benign
<1> QED
  BY <1>3, <1>4, <1>5, <1>6, <1>7, <1>8

OfflineStays(m, rows) ==
    /\ m = "gtp_station" =>
         ( /\ "inactive" \in DOMAIN rows[1].facts /\ rows[1].facts.inactive
           /\ Len(rows) < HistoryLimit["gtp_station"]
           /\ \A i \in DOMAIN rows : "perDay" \in DOMAIN rows[i].facts
                                      /\ rows[i].facts.perDay = 0
           => Rank(rows[1].tier) >= Rank("watch") )
    /\ m = "decant_station" =>
         ( "inactive" \in DOMAIN rows[1].facts /\ rows[1].facts.inactive
           => Rank(rows[1].tier) >= Rank("watch") )

BenignStays(m, b, id, rows) ==
    /\ Benign(m, b, id)
    /\ Len(rows) < HistoryLimit[m]
    /\ \A i \in 2..Len(rows) : CleanRow(m, rows[i])
    => rows[1].tier = "ok"

LEMMA SameStays ==
    ASSUME NEW m, NEW b, NEW id, NEW old, NEW new, SameRows(old, new),
           Kept(m, old), Len(old) >= 1
    PROVE  /\ OfflineStays(m, old) => OfflineStays(m, new)
           /\ BenignStays(m, b, id, old) => BenignStays(m, b, id, new)
           /\ (\A i \in DOMAIN old : FactsOK(m, old[i].facts))
                => \A i \in DOMAIN new : FactsOK(m, new[i].facts)
<1>1. /\ DOMAIN old = 1..Len(old) /\ DOMAIN new = 1..Len(old) /\ Len(new) = Len(old)
      /\ 1 \in DOMAIN old /\ Len(old) \in Nat
  BY DEF Kept, SameRows
<1>2. \A i \in DOMAIN old : new[i].tier = old[i].tier /\ new[i].facts = old[i].facts
  BY DEF SameRows
<1>3. OfflineStays(m, old) => OfflineStays(m, new)
  <2>1. new[1].tier = old[1].tier /\ new[1].facts = old[1].facts
    BY <1>1, <1>2
  <2> QED
    BY <1>1, <1>2, <2>1 DEF OfflineStays
<1>4. BenignStays(m, b, id, old) => BenignStays(m, b, id, new)
  <2>1. \A i \in 2..Len(old) : CleanRow(m, new[i]) => CleanRow(m, old[i])
    BY <1>1, <1>2 DEF CleanRow
  <2> QED
    BY <1>1, <1>2, <2>1 DEF BenignStays
<1>5. (\A i \in DOMAIN old : FactsOK(m, old[i].facts)) => \A i \in DOMAIN new : FactsOK(m, new[i].facts)
  BY <1>1, <1>2
<1> QED
  BY <1>3, <1>4, <1>5

KnownFacts ==
    \A m \in plant : \A id \in DOMAIN store[m] : \A i \in DOMAIN store[m][id] :
        FactsOK(m, store[m][id][i].facts)

Present == \A m \in plant : \A id \in DOMAIN present[m] : id \in DOMAIN store[m] /\ m \in DOMAIN reading

Stay == \A m \in plant : \A id \in DOMAIN present[m] :
            /\ OfflineStays(m, store[m][id])
            /\ BenignStays(m, reading[m], id, store[m][id])

RowsInv == FleetInv /\ KnownFacts /\ Present /\ Stay

LEMMA RowsInit == Init => RowsInv
<1> SUFFICES ASSUME Init PROVE RowsInv
  OBVIOUS
<1>1. \A m \in plant : DOMAIN present[m] = {} /\ DOMAIN store[m] = {}
  BY DEF Init
<1> QED
  BY <1>1, FleetInit DEF RowsInv, KnownFacts, Present, Stay

(* The history of a component has facts of the form of its module. *)
LEMMA KnownHistory ==
    ASSUME RowsInv, NEW m \in plant, NEW id, NEW i \in DOMAIN History(store[m], id)
    PROVE  FactsOK(m, History(store[m], id)[i].facts)
<1>1. CASE id \in DOMAIN store[m]
  BY <1>1 DEF History, RowsInv, KnownFacts
<1>2. CASE id \notin DOMAIN store[m]
  BY <1>2 DEF History
<1> QED
  BY <1>1, <1>2

(* What is said of a component in a run, of any module, is of its form and    *)
(* keeps calm.                                                               *)
Steady(m, b, id, hist, v) ==
    /\ FactsOK(m, v.facts)
    /\ Benign(m, b, id) /\ Calm(m, hist) => v.tier = "ok"
    /\ m = "gtp_station" =>
         ( /\ "inactive" \in DOMAIN v.facts /\ v.facts.inactive
           /\ "perDay" \in DOMAIN v.facts /\ v.facts.perDay = 0
           /\ \A i \in DOMAIN hist : "perDay" \in DOMAIN hist[i].facts /\ hist[i].facts.perDay = 0
           => Rank(v.tier) >= Rank("watch") )
    /\ m = "decant_station" =>
         ( "inactive" \in DOMAIN v.facts /\ v.facts.inactive => Rank(v.tier) >= Rank("watch") )

(* The rows after the first of a sequence of n.                              *)
LEMMA FromTwo ==
    ASSUME NEW n \in Nat, n >= 1
    PROVE  1 \in 1..n /\ (\A i \in 1..n : i = 1 \/ i \in 2..n) /\ (\A i \in 2..n : i \in 1..n)
OBVIOUS

LEMMA Shifted ==
    ASSUME NEW n \in Nat, NEW k \in Nat, k = 1 + n, NEW j \in 1..n
    PROVE  j + 1 \in 2..k /\ (j + 1) - 1 = j
OBVIOUS

LEMMA RecordedStays ==
    ASSUME NEW m, NEW b, NEW id, NEW hist, Kept(m, hist),
           \A i \in DOMAIN hist : FactsOK(m, hist[i].facts),
           NEW v, Steady(m, b, id, hist, v), NEW rows, Recorded(m, hist, v, rows)
    PROVE  /\ \A i \in DOMAIN rows : FactsOK(m, rows[i].facts)
           /\ OfflineStays(m, rows)
           /\ BenignStays(m, b, id, rows)
<1>1. /\ Len(rows) \in Nat /\ Len(rows) >= 1 /\ DOMAIN rows = 1..Len(rows)
      /\ rows[1].tier = v.tier /\ rows[1].facts = v.facts
      /\ \A i \in 2..Len(rows) : i - 1 \in DOMAIN hist /\ rows[i].facts = hist[i - 1].facts
      /\ Len(rows) < HistoryLimit[m] => Len(rows) = 1 + Len(hist)
  BY DEF Recorded
<1>0. Len(rows) \in Nat /\ Len(rows) >= 1 /\ DOMAIN rows = 1..Len(rows)
  BY <1>1
<1>9. /\ 1 \in DOMAIN rows /\ (\A i \in DOMAIN rows : i = 1 \/ i \in 2..Len(rows))
      /\ (\A i \in 2..Len(rows) : i \in DOMAIN rows)
  BY <1>0, FromTwo
<1>2. Len(hist) \in Nat /\ DOMAIN hist = 1..Len(hist) /\ RowsOK(hist)
  BY KeptRows DEF Kept
<1>3. \A i \in DOMAIN rows : i = 1 \/ i \in 2..Len(rows)
  BY <1>9
<1>4. \A i \in DOMAIN rows : FactsOK(m, rows[i].facts)
  BY <1>1, <1>3 DEF Steady
<1>5. ASSUME Len(rows) < HistoryLimit[m], NEW j \in DOMAIN hist
      PROVE  j + 1 \in 2..Len(rows) /\ rows[j + 1].facts = hist[j].facts
  <2>1. Len(rows) = 1 + Len(hist)
    BY <1>1, <1>5
  <2>3. j \in 1..Len(hist)
    BY <1>2, <1>5
  <2>2. j + 1 \in 2..Len(rows) /\ (j + 1) - 1 = j
    BY <1>0, <1>2, <2>1, <2>3, Shifted
  <2> QED
    BY <1>1, <2>2
<1>6. BenignStays(m, b, id, rows)
  <2> SUFFICES ASSUME Benign(m, b, id), Len(rows) < HistoryLimit[m],
                      \A i \in 2..Len(rows) : CleanRow(m, rows[i])
               PROVE  v.tier = "ok"
    BY <1>1 DEF BenignStays
  <2>1. \A j \in DOMAIN hist : CleanRow(m, hist[j])
    <3> SUFFICES ASSUME NEW j \in DOMAIN hist PROVE CleanRow(m, hist[j])
      OBVIOUS
    <3>1. CleanRow(m, rows[j + 1]) /\ rows[j + 1].facts = hist[j].facts
      BY <1>5
    <3> QED
      BY <3>1 DEF CleanRow
  <2>2. Calm(m, hist)
    BY <1>2, <2>1 DEF Calm
  <2> QED
    BY <2>2 DEF Steady
<1>7. ASSUME m = "gtp_station",
             "inactive" \in DOMAIN rows[1].facts /\ rows[1].facts.inactive,
             Len(rows) < HistoryLimit["gtp_station"],
             \A i \in DOMAIN rows : "perDay" \in DOMAIN rows[i].facts /\ rows[i].facts.perDay = 0
      PROVE  Rank(rows[1].tier) >= Rank("watch")
  <2>1. \A j \in DOMAIN hist : "perDay" \in DOMAIN hist[j].facts /\ hist[j].facts.perDay = 0
    <3> SUFFICES ASSUME NEW j \in DOMAIN hist
                 PROVE  "perDay" \in DOMAIN hist[j].facts /\ hist[j].facts.perDay = 0
      OBVIOUS
    <3>1. j + 1 \in 2..Len(rows) /\ rows[j + 1].facts = hist[j].facts
      BY <1>5, <1>7
    <3>2. j + 1 \in DOMAIN rows
      BY <1>9, <3>1
    <3> QED
      BY <1>7, <3>1, <3>2
  <2>2. 1 \in DOMAIN rows
    BY <1>9
  <2> QED
    BY <1>1, <1>7, <2>1, <2>2 DEF Steady
<1>8. OfflineStays(m, rows)
  BY <1>1, <1>7 DEF OfflineStays, Steady
<1> QED
  BY <1>4, <1>6, <1>8

LEMMA RowsRan ==
    ASSUME RowsInv, NEW m, NEW bundle, NEW verdicts, Ran(m, bundle, verdicts),
           \A id \in DOMAIN verdicts :
              Sound(m, verdicts[id]) /\ Steady(m, bundle, id, History(store[m], id), verdicts[id])
    PROVE  KnownFacts' /\ Present' /\ Stay'
<1>0. FleetInv
  BY DEF RowsInv
<1>1. /\ m \in plant /\ plant' = plant
      /\ present'[m] = verdicts /\ reading'[m] = bundle /\ m \in DOMAIN reading'
      /\ DOMAIN store'[m] = DOMAIN store[m] \cup DOMAIN verdicts
      /\ \A id \in DOMAIN verdicts :
           Recorded(m, History(store[m], id), verdicts[id], store'[m][id])
      /\ \A id \in DOMAIN store[m] \ DOMAIN verdicts : SameRows(store[m][id], store'[m][id])
      /\ \A n \in plant \ {m} :
           /\ present'[n] = present[n] /\ DOMAIN store'[n] = DOMAIN store[n]
           /\ n \in DOMAIN reading => n \in DOMAIN reading' /\ reading'[n] = reading[n]
           /\ \A id \in DOMAIN store[n] : SameRows(store[n][id], store'[n][id])
  BY <1>0, RanRows
<1>2. \A n \in plant : \A id \in DOMAIN store[n] : Kept(n, store[n][id]) /\ Len(store[n][id]) >= 1
  BY <1>0 DEF FleetInv, Stores
<1>3. ASSUME NEW id \in DOMAIN verdicts
      PROVE  /\ \A i \in DOMAIN store'[m][id] : FactsOK(m, store'[m][id][i].facts)
             /\ OfflineStays(m, store'[m][id])
             /\ BenignStays(m, bundle, id, store'[m][id])
  <2>1. Kept(m, History(store[m], id))
    BY <1>0, <1>1, HistoryKept
  <2>2. \A i \in DOMAIN History(store[m], id) : FactsOK(m, History(store[m], id)[i].facts)
    BY <1>1, KnownHistory
  <2> QED
    BY <1>1, <1>3, <2>1, <2>2, RecordedStays
<1>4. ASSUME NEW n \in plant, NEW id \in DOMAIN store[n], ~(n = m /\ id \in DOMAIN verdicts)
      PROVE  \A i \in DOMAIN store'[n][id] : FactsOK(n, store'[n][id][i].facts)
  <2>1. SameRows(store[n][id], store'[n][id])
    BY <1>1, <1>4
  <2>2. \A i \in DOMAIN store[n][id] : FactsOK(n, store[n][id][i].facts)
    BY DEF RowsInv, KnownFacts
  <2> QED
    BY <1>2, <2>1, <2>2, SameStays
<1>5. KnownFacts'
  <2> SUFFICES ASSUME NEW n \in plant, NEW id \in DOMAIN store'[n]
               PROVE  \A i \in DOMAIN store'[n][id] : FactsOK(n, store'[n][id][i].facts)
    BY <1>1 DEF KnownFacts
  <2>1. CASE n = m /\ id \in DOMAIN verdicts
    BY <1>3, <2>1
  <2>2. CASE ~(n = m /\ id \in DOMAIN verdicts)
    <3>1. id \in DOMAIN store[n]
      BY <1>1, <2>2
    <3> QED
      BY <1>4, <2>2, <3>1
  <2> QED
    BY <2>1, <2>2
<1>6. Present'
  <2> SUFFICES ASSUME NEW n \in plant, NEW id \in DOMAIN present'[n]
               PROVE  id \in DOMAIN store'[n] /\ n \in DOMAIN reading'
    BY <1>1 DEF Present
  <2>1. CASE n = m
    BY <1>1, <2>1
  <2>2. CASE n # m
    BY <1>1, <2>2 DEF RowsInv, Present
  <2> QED
    BY <2>1, <2>2
<1>7. Stay'
  <2> SUFFICES ASSUME NEW n \in plant, NEW id \in DOMAIN present'[n]
               PROVE  /\ OfflineStays(n, store'[n][id])
                      /\ BenignStays(n, reading'[n], id, store'[n][id])
    BY <1>1 DEF Stay
  <2>1. CASE n = m
    BY <1>1, <1>3, <2>1
  <2>2. CASE n # m
    <3>1. id \in DOMAIN present[n] /\ id \in DOMAIN store[n] /\ reading'[n] = reading[n]
      BY <1>1, <2>2 DEF RowsInv, Present
    <3>2. OfflineStays(n, store[n][id]) /\ BenignStays(n, reading[n], id, store[n][id])
      BY <3>1 DEF RowsInv, Stay
    <3>3. SameRows(store[n][id], store'[n][id])
      BY <1>1, <2>2, <3>1
    <3> QED
      BY <1>2, <3>1, <3>2, <3>3, SameStays
  <2> QED
    BY <2>1, <2>2
<1> QED
  BY <1>5, <1>6, <1>7

(* A pick station that is switched off and has no discrepancy, ever, stays.  *)
LEMMA GtpSteady ==
    ASSUME RowsInv, "gtp_station" \in plant, NEW b \in Readings["gtp_station"],
           NEW id \in DOMAIN Scored("gtp_station", b),
           NEW hist, hist = History(store["gtp_station"], id),
           NEW v, v = Scored("gtp_station", b)[id],
           "perDay" \in DOMAIN v.facts, v.facts.perDay = 0,
           \A i \in DOMAIN hist : "perDay" \in DOMAIN hist[i].facts /\ hist[i].facts.perDay = 0
    PROVE  Rank(v.tier) >= Rank("watch")
<1> DEFINE feats == GtpFeatures(b)
           f     == feats[id]
<1>1. GtpBundle(b) /\ Scored("gtp_station", b) = GtpScore(feats, store["gtp_station"])
  BY ReadingsAssumption DEF BundleOK, Scored, Modules
<1>2. id \in DOMAIN feats /\ GtpVerdict(f, hist, v)
  BY <1>1, GtpSays
<1>3. GtpFeature(f)
  BY <1>1, <1>2, GtpFeaturesOK
<1>4. FactsOK("gtp_station", v.facts)
  BY ScoredFacts DEF RowsInv
<1>5. RowsOK(hist)
  BY HistoryKept, KeptRows DEF RowsInv
<1>6. \A i \in DOMAIN hist : hist[i].facts.perDay = 0 /\ hist[i].facts.z \in Int /\ hist[i].facts.z <= 0
  <2> SUFFICES ASSUME NEW i \in DOMAIN hist
               PROVE  hist[i].facts.perDay = 0 /\ hist[i].facts.z \in Int /\ hist[i].facts.z <= 0
    OBVIOUS
  <2>1. FactsOK("gtp_station", hist[i].facts)
    BY KnownHistory
  <2> QED
    BY <2>1 DEF FactsOK
<1> HIDE DEF f, feats
<1>7. CASE f.entity = "station"
  <2>1. /\ v.facts = [inactive |-> f.inactive, perDay |-> f.perDay, z |-> f.z]
        /\ v.tier = TierOf(ScoreOf(Total(GtpStationPenalties(f, hist))))
    BY <1>2, <1>7 DEF GtpVerdict
  <2>2. f.perDay = v.facts.perDay /\ f.z = v.facts.z
    BY <2>1
  <2>3. f.perDay = 0 /\ f.z <= 0
    BY <1>4, <2>2 DEF FactsOK
  <2>4. StationFeature(f)
    BY <1>3, <1>7 DEF GtpFeature
  <2> QED
    BY <1>5, <1>6, <2>1, <2>3, <2>4, OfflineStation
<1>8. CASE f.entity # "station"
  <2>1. v.facts = [misread |-> f.misread, scans |-> f.scans]
    BY <1>2, <1>8 DEF GtpVerdict
  <2>2. "perDay" \notin DOMAIN v.facts
    BY <2>1
  <2> QED
    BY <2>2
<1> QED
  BY <1>7, <1>8

(* A decanting station that is switched off is not idle, so only the runs in *)
(* a row count, and those cost at most twenty points.                        *)
LEMMA DecantSteady ==
    ASSUME RowsInv, "decant_station" \in plant, NEW b \in Readings["decant_station"],
           NEW id \in DOMAIN Scored("decant_station", b),
           NEW v, v = Scored("decant_station", b)[id],
           "inactive" \in DOMAIN v.facts, v.facts.inactive
    PROVE  Rank(v.tier) >= Rank("watch")
<1> DEFINE feats == DecantFeatures(b)
           f     == feats[id]
           hist  == History(store["decant_station"], id)
           station == DecantStationFeatures(b)
           scan    == DecantScannerFeatures(b)
<1>1. DecantBundle(b) /\ Scored("decant_station", b) = DecantScore(feats, store["decant_station"])
  BY ReadingsAssumption DEF BundleOK, Scored, Modules
<1>2. id \in DOMAIN feats /\ DecantVerdict(f, hist, v)
  BY <1>1, DecantSays
<1>3. RowsOK(hist)
  BY HistoryKept, KeptRows DEF RowsInv
<1>4. f = (IF id \in DOMAIN station THEN station[id] ELSE scan[id])
      /\ (id \in DOMAIN station \/ id \in DOMAIN scan)
  BY <1>2 DEF DecantFeatures, Together
<1>5. id \in DOMAIN station => ~(station[id].inactive /\ station[id].idle)
  BY DEF DecantStationFeatures
<1>6. id \in DOMAIN scan => scan[id].entity = "scanner"
  BY DEF DecantScannerFeatures, ScannerFeatures
<1> HIDE DEF f, feats, hist, station, scan
<1>7. CASE f.entity = "station"
  <2>1. v.facts = [inactive |-> f.inactive, idle |-> f.idle]
        /\ v.tier = ScoreDecantStation(f, hist).tier
    BY <1>2, <1>7 DEF DecantVerdict
  <2>2. f.inactive
    BY <2>1
  <2>3. id \in DOMAIN station
    BY <1>4, <1>6, <1>7
  <2> QED
    BY <1>3, <1>4, <1>5, <2>1, <2>2, <2>3, OfflineDecant
<1>8. CASE f.entity # "station"
  <2>1. v.facts = [misread |-> f.misread, scans |-> f.scans]
    BY <1>2, <1>8 DEF DecantVerdict
  <2>2. "inactive" \notin DOMAIN v.facts
    BY <2>1
  <2> QED
    BY <2>2
<1> QED
  BY <1>7, <1>8

LEMMA ScoredSteady ==
    ASSUME RowsInv, NEW m \in plant \ {"meta"}, NEW b \in Readings[m],
           NEW id \in DOMAIN Scored(m, b)
    PROVE  Steady(m, b, id, History(store[m], id), Scored(m, b)[id])
<1> DEFINE hist == History(store[m], id)
           v    == Scored(m, b)[id]
<1>1. FactsOK(m, v.facts)
  BY ScoredFacts DEF RowsInv
<1>2. Benign(m, b, id) /\ Calm(m, hist) => v.tier = "ok"
  BY ScoredCalm DEF RowsInv
<1>3. ASSUME m = "gtp_station",
             "perDay" \in DOMAIN v.facts, v.facts.perDay = 0,
             \A i \in DOMAIN hist : "perDay" \in DOMAIN hist[i].facts /\ hist[i].facts.perDay = 0
      PROVE  Rank(v.tier) >= Rank("watch")
  BY <1>3, GtpSteady
<1>4. ASSUME m = "decant_station", "inactive" \in DOMAIN v.facts, v.facts.inactive
      PROVE  Rank(v.tier) >= Rank("watch")
  BY <1>4, DecantSteady
<1> HIDE DEF hist, v
<1>5. Steady(m, b, id, hist, v)
  BY <1>1, <1>2, <1>3, <1>4 DEF Steady
<1> QED
  BY <1>5 DEF hist, v

LEMMA RowsNext == RowsInv /\ [Next]_vars => RowsInv'
<1> SUFFICES ASSUME RowsInv, [Next]_vars PROVE RowsInv'
  OBVIOUS
<1>1. FleetInv'
  BY FleetNext DEF RowsInv
<1>2. KnownFacts' /\ Present' /\ Stay'
  <2>1. CASE RunMeta
    <3> DEFINE said == MetaScore(MetaFeatures(Members), store["meta"])
    <3>1. Ran("meta", Members, said) /\ "meta" \in plant
      BY <2>1 DEF RunMeta, Ran, Goes
    <3>2. \A s \in DOMAIN said : Sound("meta", said[s])
      BY <3>1, MetaSays DEF RowsInv
    <3> HIDE DEF said
    <3>3. \A s \in DOMAIN said : Steady("meta", Members, s, History(store["meta"], s), said[s])
      BY DEF Steady, FactsOK, Benign
    <3> QED
      BY <3>1, <3>2, <3>3, RowsRan
  <2>2. ASSUME NEW m \in plant \ {"meta"}, RunModule(m) PROVE KnownFacts' /\ Present' /\ Stay'
    <3>1. PICK b \in Readings[m] : Ran(m, b, Scored(m, b))
      BY <2>2 DEF RunModule
    <3>2. \A id \in DOMAIN Scored(m, b) : Sound(m, Scored(m, b)[id])
      <4>1. m \in Modules \ {"meta"}
        BY ModulesOf DEF RowsInv
      <4>2. StoreOK(store[m]) /\ (m = "shuttle" => \A id : CyclesOK(History(store[m], id)))
        BY StoredRows DEF RowsInv
      <4> QED
        BY <4>1, <4>2, ReadingsAssumption, ScoredOK
    <3>3. \A id \in DOMAIN Scored(m, b) :
             Steady(m, b, id, History(store[m], id), Scored(m, b)[id])
      BY ScoredSteady
    <3> QED
      BY <3>1, <3>2, <3>3, RowsRan
  <2>3. CASE UNCHANGED vars
    BY <2>3 DEF vars, RowsInv, KnownFacts, Present, Stay
  <2> QED
    BY <2>1, <2>2, <2>3 DEF Next
<1> QED
  BY <1>1, <1>2 DEF RowsInv

(* Peers alone flag nobody: a link that is up, a controller node with idle    *)
(* time, a closed gate or a scanner that reads is ok whatever the others of   *)
(* its population read, as long as none of its own stored rows counts as a    *)
(* recurrence: the peer comparison of every score is gated by an absolute     *)
(* threshold.                                                                 *)
THEOREM BenignStay == Spec => []BenignStaysOk
<1>1. RowsInv => BenignStaysOk
  BY DEF RowsInv, Stay, BenignStays, BenignStaysOk
<1> QED
  BY RowsInit, RowsNext, <1>1, PTL DEF Spec

(* A station that is switched off and has nothing else against it loses       *)
(* twenty points at most, however many runs see it so: the runs in a row are  *)
(* capped and no other factor of its score counts them again.                 *)
THEOREM OfflineStay == Spec => []OfflineAloneStaysWatch
<1>1. RowsInv => OfflineAloneStaysWatch
  BY DEF RowsInv, Stay, OfflineStays, OfflineAloneStaysWatch
<1> QED
  BY RowsInit, RowsNext, <1>1, PTL DEF Spec

-----------------------------------------------------------------------------
(* The overview, of whatever was stored *)

(* Parts that overlap nowhere and together are a set have as many members.   *)
LEMMA PartsAddUp ==
    ASSUME NEW D, IsFiniteSet(D), NEW K, IsFiniteSet(K), NEW part \in [K -> SUBSET D],
           \A x \in D : \E k \in K : x \in part[k] /\ \A j \in K : x \in part[j] => j = k,
           NEW f, f = [k \in K |-> Cardinality(part[k])]
    PROVE  SumFunction(f) = Cardinality(D)
<1> DEFINE Of(S) == UNION {part[k] : k \in S}
<1>1. PICK g : Sums(g, f, K) /\ SumFunctionOnSet(f, K) = g[K]
  BY SumTable
<1> DEFINE Good == {S \in SUBSET K : g[S] = Cardinality(Of(S))}
<1>2. \A S \in SUBSET K : Of(S) \in SUBSET D
  OBVIOUS
<1>3. {} \in Good
  <2>1. g[{}] = 0
    BY <1>1 DEF Sums
  <2>2. Of({}) = {}
    OBVIOUS
  <2> QED
    BY <2>1, <2>2, FS_EmptySet
<1>4. ASSUME NEW S \in SUBSET K, S # {}, S \ {Pick(S)} \in Good PROVE S \in Good
  <2> DEFINE k == Pick(S)
             T == S \ {k}
  <2>1. k \in S /\ T \in SUBSET K
    BY <1>4, WithoutPick, Zenon
  <2>2. g[S] = Cardinality(part[k]) + Cardinality(Of(T))
    <3>1. g[S] = f[k] + g[T]
      BY <1>1, <1>4 DEF Sums
    <3>2. g[T] = Cardinality(Of(T))
      BY <1>4
    <3>3. f[k] = Cardinality(part[k])
      BY <2>1
    <3> QED
      BY <3>1, <3>2, <3>3
  <2> HIDE DEF k
  <2>3. Of(S) = part[k] \cup Of(T)
    BY <2>1
  <2>4. part[k] \cap Of(T) = {}
    <3> SUFFICES ASSUME NEW x \in part[k], NEW j \in T, x \in part[j] PROVE FALSE
      OBVIOUS
    <3>1. x \in D /\ j # k /\ j \in K /\ k \in K
      BY <2>1
    <3> QED
      BY <3>1
  <2>5. IsFiniteSet(part[k]) /\ IsFiniteSet(Of(T))
    <3>1. part[k] \in SUBSET D /\ Of(T) \in SUBSET D
      BY <1>2, <2>1
    <3> HIDE DEF Of, T
    <3> QED
      BY <3>1, FS_Subset
  <2>6. Cardinality(part[k] \cup Of(T)) = Cardinality(part[k]) + Cardinality(Of(T))
    <3> HIDE DEF Of, T
    <3>1. Cardinality({}) = 0 /\ Cardinality(part[k]) \in Nat /\ Cardinality(Of(T)) \in Nat
      BY <2>5, FS_EmptySet, FS_CardinalityType
    <3>2. Cardinality(part[k] \cup Of(T))
            = Cardinality(part[k]) + Cardinality(Of(T)) - Cardinality(part[k] \cap Of(T))
      BY <2>5, FS_Union
    <3>3. Cardinality(part[k] \cap Of(T)) = 0
      BY <2>4, <3>1
    <3> QED
      BY <3>1, <3>2, <3>3
  <2>7. g[S] = Cardinality(Of(S))
    <3> HIDE DEF Of, T
    <3> QED
      BY <2>2, <2>3, <2>6
  <2> QED
    BY <2>7
<1>5. K \in Good
  <2>1. K \in SUBSET K
    OBVIOUS
  <2> HIDE DEF Good
  <2> QED
    BY <1>3, <1>4, <2>1, SetGood
<1>6. Of(K) = D
  OBVIOUS
<1>7. SumFunction(f) = g[K]
  <2>1. DOMAIN f = K
    OBVIOUS
  <2> QED
    BY <1>1, <2>1 DEF SumFunction
<1> HIDE DEF Of
<1> QED
  BY <1>5, <1>6, <1>7

(* Of finitely many, the first n in the order of a number each has.          *)
LEMMA FirstOnes ==
    ASSUME NEW D, IsFiniteSet(D), NEW key \in [D -> Int], NEW n \in 0..Cardinality(D)
    PROVE  \E top \in SUBSET D : /\ Cardinality(top) = n
                                 /\ \A c \in D \ top, t \in top : ~(key[c] < key[t])
<1> DEFINE First(k, top) == /\ Cardinality(top) = k
                            /\ \A c \in D \ top, t \in top : ~(key[c] < key[t])
           Good == {k \in Nat : k <= Cardinality(D) => \E top \in SUBSET D : First(k, top)}
<1>0. Cardinality(D) \in Nat
  BY FS_CardinalityType
<1>1. 0 \in Good
  <2>1. First(0, {})
    BY FS_EmptySet
  <2> HIDE DEF First
  <2> QED
    BY <2>1
<1>2. ASSUME NEW k \in Nat, k \in Good PROVE k + 1 \in Good
  <2> SUFFICES ASSUME k + 1 <= Cardinality(D) PROVE \E top \in SUBSET D : First(k + 1, top)
    OBVIOUS
  <2>1. PICK top \in SUBSET D : First(k, top)
    BY <1>0, <1>2
  <2> DEFINE rest == D \ top
             R    == {key[c] : c \in rest}
             g    == [c \in rest |-> key[c]]
  <2>2. rest # {}
    BY <1>0, <2>1
  <2>3. IsFiniteSet(R) /\ R \subseteq Int /\ R # {}
    <3>1. IsFiniteSet(rest)
      BY FS_Subset
    <3>2. R = {g[c] : c \in rest} /\ DOMAIN g = rest
      OBVIOUS
    <3>3. IsFiniteSet(R)
      <4> HIDE DEF R, g, rest
      <4> QED
        BY <3>1, <3>2, ImageFinite
    <3> QED
      BY <2>2, <3>3
  <2>4. PICK c \in rest : \A d \in rest : key[c] <= key[d]
    <3>1. Min(R) \in R /\ \A x \in R : Min(R) <= x
      <4> HIDE DEF R
      <4> QED
        BY <2>3, MinMax
    <3>2. PICK c \in rest : key[c] = Min(R)
      BY <3>1
    <3>3. \A d \in rest : key[d] \in R
      OBVIOUS
    <3> HIDE DEF R, rest
    <3> QED
      BY <3>1, <3>2, <3>3
  <2>5. Cardinality(top \cup {c}) = k + 1
    <3>1. IsFiniteSet(top) /\ c \notin top
      BY FS_Subset
    <3> QED
      BY <2>1, <3>1, FS_AddElement
  <2>6. \A d \in D \ (top \cup {c}), t \in top \cup {c} : ~(key[d] < key[t])
    <3> SUFFICES ASSUME NEW d \in D \ (top \cup {c}), NEW t \in top \cup {c}, key[d] < key[t]
                 PROVE  FALSE
      OBVIOUS
    <3>1. d \in rest /\ key[d] \in Int /\ key[c] \in Int
      OBVIOUS
    <3>2. CASE t \in top
      BY <2>1, <3>1, <3>2
    <3>3. CASE t = c
      BY <2>4, <3>1, <3>3
    <3> QED
      BY <3>2, <3>3
  <2>7. top \cup {c} \in SUBSET D
    OBVIOUS
  <2> QED
    BY <2>5, <2>6, <2>7
<1>3. n \in Good
  <2>1. n \in Nat
    BY <1>0
  <2> HIDE DEF Good
  <2> QED
    BY <1>1, <1>2, <2>1, NatGood
<1>4. n <= Cardinality(D)
  BY <1>0
<1> QED
  BY <1>3, <1>4

LEMMA UpToFinite ==
    ASSUME NEW n \in Nat
    PROVE  IsFiniteSet(0..n) /\ IsFiniteSet(1..n)
BY FS_Interval

LEMMA FewFinite == IsFiniteSet(0..9) /\ IsFiniteSet(1..4)
<1>1. 9 \in Nat /\ 4 \in Nat
  OBVIOUS
<1> QED
  BY <1>1, UpToFinite, Zenon

LEMMA InFull ==
    ASSUME NEW x \in 0..Full
    PROVE  x \in Nat /\ x <= 10000
<1>1. Full = 10000
  BY SMT DEF Full
<1>2. x \in Nat /\ x <= Full
  BY Limits
<1> QED
  BY <1>1, <1>2

(* What the overview reads of a component. *)
Shown(c) == c.score \in 0..Full /\ c.tier \in TierNames /\ c.ttm \in Hours

LEMMA TierRank ==
    ASSUME NEW t \in TierNames
    PROVE  Rank(t) \in 1..4 /\ Tiers[Rank(t)] = t
BY RankIs DEF TierNames, Tiers

LEMMA WorstBelow ==
    ASSUME NEW tiers \in SUBSET TierNames, NEW t \in tiers
    PROVE  Rank(WorstOf(tiers)) <= Rank(t)
<1> DEFINE D == {Rank(u) : u \in tiers}
<1>1. D \subseteq 1..4 /\ D # {}
  BY TierRank
<1>2. IsFiniteSet(D)
  <2>1. IsFiniteSet(1..4)
    BY FewFinite
  <2> HIDE DEF D
  <2> QED
    BY <1>1, <2>1, FS_Subset
<1>3. Min(D) \in D /\ Min(D) <= Rank(t)
  <2>1. Rank(t) \in D /\ D \subseteq Int
    BY <1>1
  <2> HIDE DEF D
  <2> QED
    BY <1>1, <1>2, <2>1, MinMax
<1>4. PICK u \in tiers : Min(D) = Rank(u)
  BY <1>3
<1>5. WorstOf(tiers) = u
  BY <1>4, TierRank DEF WorstOf
<1> QED
  BY <1>3, <1>4, <1>5

LEMMA TiersFinite ==
    IsFiniteSet(TierNames) /\ Range(Tiers) = TierNames
<1>1. IsFiniteSet(TierNames)
  <2>1. TierNames = {"critical"} \cup {"warn"} \cup {"watch"} \cup {"ok"}
    BY DEF TierNames
  <2> QED
    BY <2>1, FS_Singleton, FS_Union
<1>2. Range(Tiers) = TierNames
  <2>1. DOMAIN Tiers = 1..4
    BY DEF Tiers
  <2>2. \A i \in 1..4 : Tiers[i] \in TierNames
    BY DEF Tiers, TierNames
  <2>3. \A t \in TierNames : \E i \in 1..4 : Tiers[i] = t
    BY TierRank
  <2> QED
    BY <2>1, <2>2, <2>3 DEF Range
<1> QED
  BY <1>1, <1>2

(* Every component is counted once among the tiers and once among the bins,  *)
(* and every one at risk with a time once among the buckets.                 *)
LEMMA ChartsAddUp ==
    ASSUME NEW all, IsFiniteSet(all), \A c \in all : Shown(c)
    PROVE  /\ SumFunction(TierCounts(all)) = Cardinality(all)
           /\ SumFunction(Histogram(all)) = Cardinality(all)
           /\ SumFunction(TtmCounts(all)) = Cardinality({c \in AtRisk(all) : c.ttm # None})
           /\ Imminent(all) = TtmCounts(all)[1]
<1>1. SumFunction(TierCounts(all)) = Cardinality(all)
  <2> DEFINE part == [t \in TierNames |-> {c \in all : c.tier = t}]
  <2>1. TierCounts(all) = [t \in TierNames |-> Cardinality(part[t])]
    BY TiersFinite DEF TierCounts
  <2>2. part \in [TierNames -> SUBSET all]
    OBVIOUS
  <2>3. \A c \in all : \E t \in TierNames : c \in part[t] /\ \A u \in TierNames : c \in part[u] => u = t
    BY DEF Shown
  <2> HIDE DEF part
  <2> QED
    BY <2>1, <2>2, <2>3, TiersFinite, PartsAddUp
<1>2. SumFunction(Histogram(all)) = Cardinality(all)
  <2> DEFINE part == [bin \in 0..9 |-> {c \in all : InBin(c.score, bin)}]
  <2>1. Histogram(all) = [bin \in 0..9 |-> Cardinality(part[bin])]
    BY DEF Histogram
  <2>2. part \in [0..9 -> SUBSET all]
    OBVIOUS
  <2>3. \A c \in all : \E bin \in 0..9 : c \in part[bin] /\ \A u \in 0..9 : c \in part[u] => u = bin
    <3> SUFFICES ASSUME NEW c \in all
                 PROVE  \E bin \in 0..9 : c \in part[bin] /\ \A u \in 0..9 : c \in part[u] => u = bin
      OBVIOUS
    <3>1. c.score \in 0..Full
      BY DEF Shown
    <3>2. PICK bin \in 0..9 : /\ InBin(c.score, bin)
                              /\ \A u \in 0..9 : InBin(c.score, u) => u = bin
      BY <3>1, BinsPartition
    <3> QED
      BY <3>2
  <2>4. IsFiniteSet(0..9)
    BY FewFinite
  <2> HIDE DEF part
  <2> QED
    BY <2>1, <2>2, <2>3, <2>4, PartsAddUp
<1> DEFINE timed == {c \in AtRisk(all) : c.ttm # None}
<1>3. IsFiniteSet(timed) /\ \A c \in timed : c.ttm \in 0..Year
  <2>1. timed \in SUBSET all
    BY DEF AtRisk
  <2>2. \A c \in timed : c.ttm \in 0..Year
    BY DEF AtRisk, Shown, Hours
  <2> HIDE DEF timed
  <2> QED
    BY <2>1, <2>2, FS_Subset
<1>4. SumFunction(TtmCounts(all)) = Cardinality(timed)
  <2> DEFINE B == DOMAIN TtmBuckets
             part == [i \in B |-> {c \in timed : InBucket(c.ttm, TtmBuckets[i])}]
  <2>1. TtmCounts(all) = [i \in B |-> Cardinality(part[i])]
    <3>1. \A i \in B : {c \in AtRisk(all) : c.ttm # None /\ InBucket(c.ttm, TtmBuckets[i])} = part[i]
      OBVIOUS
    <3> HIDE DEF part
    <3> QED
      BY <3>1 DEF TtmCounts
  <2>2. part \in [B -> SUBSET timed]
    OBVIOUS
  <2>3. \A c \in timed : \E i \in B : c \in part[i] /\ \A u \in B : c \in part[u] => u = i
    <3> SUFFICES ASSUME NEW c \in timed
                 PROVE  \E i \in B : c \in part[i] /\ \A u \in B : c \in part[u] => u = i
      OBVIOUS
    <3>1. c.ttm \in 0..Year
      BY <1>3
    <3>2. PICK i \in B : /\ InBucket(c.ttm, TtmBuckets[i])
                         /\ \A u \in B : InBucket(c.ttm, TtmBuckets[u]) => u = i
      BY <3>1, BucketsPartition
    <3> HIDE DEF timed
    <3> QED
      BY <3>2
  <2>4. IsFiniteSet(B)
    <3>1. B = 1..4
      BY DEF TtmBuckets
    <3> HIDE DEF B
    <3> QED
      BY <3>1, FewFinite
  <2> HIDE DEF part, timed, B
  <2> QED
    BY <1>3, <2>1, <2>2, <2>3, <2>4, PartsAddUp
<1>5. Imminent(all) = TtmCounts(all)[1]
  <2>1. 1 \in DOMAIN TtmBuckets
    BY DEF TtmBuckets
  <2>2. {c \in AtRisk(all) : c.ttm # None /\ c.ttm <= 24}
          = {c \in AtRisk(all) : c.ttm # None /\ InBucket(c.ttm, TtmBuckets[1])}
    <3>1. \A c \in timed : InBucket(c.ttm, TtmBuckets[1]) <=> c.ttm <= 24
      BY <1>3, BucketsPartition
    <3> QED
      BY <3>1
  <2> QED
    BY <2>1, <2>2 DEF Imminent, TtmCounts
<1> QED
  BY <1>1, <1>2, <1>4, <1>5

(* The list shows those of which none that it leaves out is worse. *)
LEMMA TopIsWorst ==
    ASSUME NEW all, IsFiniteSet(all), \A c \in all : Shown(c),
           NEW c \in AtRisk(all) \ TopAtRisk(all), NEW t \in TopAtRisk(all)
    PROVE  /\ t \in all /\ Rank(t.tier) <= Rank(c.tier)
           /\ t.tier = c.tier => t.score <= c.score
<1> DEFINE D == AtRisk(all)
           n == AtMost(Cardinality(D), TopLimit)
           key == [d \in D |-> Rank(d.tier) * 100 * U + d.score]
           Chosen(top) == top \in kSubset(n, D) /\ \A x \in D \ top, y \in top : ~Before(x, y)
<1>1. D \subseteq all /\ IsFiniteSet(D)
  <2>1. D \subseteq all
    BY DEF AtRisk
  <2> HIDE DEF D
  <2> QED
    BY <2>1, FS_Subset
<1>2. \A d \in D : d.score \in Nat /\ d.score <= 10000 /\ Rank(d.tier) \in Nat
  <2> SUFFICES ASSUME NEW d \in D
               PROVE  d.score \in Nat /\ d.score <= 10000 /\ Rank(d.tier) \in Nat
    OBVIOUS
  <2>1. d.score \in 0..Full /\ d.tier \in TierNames
    BY <1>1 DEF Shown
  <2>2. Rank(d.tier) \in Nat
    BY <2>1, RankIs DEF TierNames
  <2> QED
    BY <2>1, <2>2, InFull
<1>3. key \in [D -> Int]
  BY <1>2 DEF U
<1>4. n \in 0..Cardinality(D)
  <2>1. Cardinality(D) \in Nat
    BY <1>1, FS_CardinalityType
  <2> HIDE DEF D
  <2> QED
    BY <2>1 DEF AtMost, TopLimit
<1>5. \E top : Chosen(top)
  <2>1. PICK top \in SUBSET D : /\ Cardinality(top) = n
                                /\ \A x \in D \ top, y \in top : ~(key[x] < key[y])
    <3> HIDE DEF D, key, n
    <3> QED
      BY <1>1, <1>3, <1>4, FirstOnes
  <2>2. top \in kSubset(n, D)
    BY <2>1 DEF kSubset
  <2>3. \A x \in D \ top, y \in top : ~Before(x, y)
    BY <2>1 DEF Before
  <2> QED
    BY <2>2, <2>3
<1>7. Chosen(TopAtRisk(all))
  BY <1>5 DEF TopAtRisk
<1>8. t \in D /\ c \in D /\ ~Before(c, t)
  BY <1>7 DEF kSubset
<1>9. t.score \in Nat /\ c.score \in Nat /\ t.score <= 10000 /\ Rank(t.tier) \in Nat
      /\ Rank(c.tier) \in Nat /\ c.score <= 10000
  BY <1>2, <1>8
<1>10. ~(Rank(c.tier) * 1000000 + c.score < Rank(t.tier) * 1000000 + t.score)
  BY <1>8, <1>9 DEF Before, U
<1> HIDE DEF D
<1> QED
  BY <1>1, <1>8, <1>9, <1>10

(* A cell of the heatmap is no better than a component in it. *)
LEMMA CellIsWorst ==
    ASSUME NEW all, \A c \in all : Shown(c), NEW c \in all, AisleOf[c.id] # NoAisle
    PROVE  Rank(AisleMatrix(all)[<<AisleOf[c.id], c.module>>]) <= Rank(c.tier)
<1> DEFINE placed == {d \in all : AisleOf[d.id] # NoAisle}
           at(a, m) == {d \in placed : AisleOf[d.id] = a /\ d.module = m}
           here == at(AisleOf[c.id], c.module)
           cell == <<AisleOf[c.id], c.module>>
           tiers == {d.tier : d \in here}
<1>1. AisleMatrix(all)[cell] = TileOf(at(cell[1], cell[2]))
  <2>1. cell \in {<<AisleOf[d.id], d.module>> : d \in placed}
    OBVIOUS
  <2> QED
    BY <2>1 DEF AisleMatrix
<1>2. cell[1] = AisleOf[c.id] /\ cell[2] = c.module
  OBVIOUS
<1>3. c \in here /\ here \subseteq all
  OBVIOUS
<1>4. TileOf(here) = WorstOf(tiers)
  BY <1>3 DEF TileOf
<1>5. tiers \in SUBSET TierNames /\ c.tier \in tiers
  BY <1>3 DEF Shown
<1>6. Rank(WorstOf(tiers)) <= Rank(c.tier)
  <2> HIDE DEF tiers
  <2> QED
    BY <1>5, WorstBelow
<1> HIDE DEF tiers
<1> QED
  BY <1>1, <1>2, <1>4, <1>6

(* What the dashboard reads is finite and on the scale, whatever was stored. *)
LEMMA EverythingShown ==
    ASSUME FleetInv
    PROVE  IsFiniteSet(Everything) /\ \A c \in Everything : Shown(c)
<1> DEFINE rows(m, id) == [module |-> m, id |-> id, score |-> store[m][id][1].score,
                           tier |-> store[m][id][1].tier, ttm |-> store[m][id][1].ttm]
<1>1. ASSUME NEW m \in plant
      PROVE  IsFiniteSet(Latest(m)) /\ \A c \in Latest(m) : Shown(c)
  <2> DEFINE g == [id \in DOMAIN store[m] |-> rows(m, id)]
  <2>1. IsFiniteSet(DOMAIN store[m]) /\ Latest(m) = {g[id] : id \in DOMAIN store[m]}
    BY DEF FleetInv, Stores, Latest
  <2>2. IsFiniteSet(Latest(m))
    <3>1. DOMAIN g = DOMAIN store[m]
      OBVIOUS
    <3> HIDE DEF g
    <3> QED
      BY <2>1, <3>1, ImageFinite
  <2>3. ASSUME NEW id \in DOMAIN store[m] PROVE Shown(rows(m, id))
    <3> DEFINE r == store[m][id][1]
    <3>1. RowOK(r)
      <4>1. Kept(m, store[m][id]) /\ Len(store[m][id]) >= 1
        BY DEF FleetInv, Stores
      <4>2. 1 \in DOMAIN store[m][id]
        BY <4>1 DEF Kept
      <4> QED
        BY <4>1, <4>2 DEF Kept, GoodRow
    <3>2. r.score \in 0..Full /\ r.tier \in TierNames /\ r.ttm \in Hours
      BY <3>1, TiersFinite DEF RowOK, Hours
    <3> HIDE DEF r
    <3>3. /\ rows(m, id).score = r.score /\ rows(m, id).tier = r.tier
          /\ rows(m, id).ttm = r.ttm
      BY DEF r
    <3> HIDE DEF rows
    <3> QED
      BY <3>2, <3>3 DEF Shown
  <2>4. \A c \in Latest(m) : \E id \in DOMAIN store[m] : c = rows(m, id)
    BY DEF Latest
  <2> HIDE DEF rows
  <2> QED
    BY <2>2, <2>3, <2>4
<1>2. IsFiniteSet(plant)
  <2>1. Modules = {"lift"} \cup {"shuttle"} \cup {"conveyor"} \cup {"tracker"} \cup {"gate"}
                  \cup {"bin_mech"} \cup {"gtp_station"} \cup {"decant_station"} \cup {"network"}
                  \cup {"controller"} \cup {"meta"}
    BY DEF Modules
  <2>2. IsFiniteSet(Modules)
    BY <2>1, FS_Singleton, FS_Union
  <2> QED
    BY <2>2, ModulesOf, FS_Subset
<1>3. IsFiniteSet(Everything)
  <2> DEFINE g == [m \in plant |-> Latest(m)]
             S == {Latest(m) : m \in plant}
  <2>1. IsFiniteSet(S)
    <3>1. S = {g[m] : m \in plant} /\ DOMAIN g = plant
      OBVIOUS
    <3> HIDE DEF S, g
    <3> QED
      BY <1>2, <3>1, ImageFinite
  <2>2. \A T \in S : IsFiniteSet(T)
    BY <1>1
  <2>3. Everything = UNION S
    BY DEF Everything
  <2> HIDE DEF S
  <2> QED
    BY <2>1, <2>2, <2>3, FS_UNION
<1> QED
  BY <1>1, <1>3 DEF Everything

(* The charts of the overview never disagree about the rows they show: no     *)
(* component falls between two bins, tiers or buckets, none at risk that is   *)
(* left out of the list is worse than one on it, and no aisle looks better    *)
(* than a component in it.                                                    *)
THEOREM ChartsAgree == Spec => []OverviewAddsUp
<1>1. FleetInv => OverviewAddsUp
  <2> SUFFICES ASSUME FleetInv PROVE OverviewAddsUp
    OBVIOUS
  <2> DEFINE all == Everything
  <2>1. IsFiniteSet(all) /\ \A c \in all : Shown(c)
    BY EverythingShown
  <2> HIDE DEF all
  <2>2. \A c \in AtRisk(all) \ TopAtRisk(all), t \in TopAtRisk(all) :
           /\ Rank(t.tier) <= Rank(c.tier)
           /\ t.tier = c.tier => t.score <= c.score
    BY <2>1, TopIsWorst
  <2>3. \A c \in all : AisleOf[c.id] # NoAisle =>
           Rank(AisleMatrix(all)[<<AisleOf[c.id], c.module>>]) <= Rank(c.tier)
    BY <2>1, CellIsWorst
  <2> QED
    BY <2>1, <2>2, <2>3, ChartsAddUp DEF OverviewAddsUp, all
<1> QED
  BY FleetInit, FleetNext, <1>1, PTL DEF Spec

-----------------------------------------------------------------------------
(* Worse readings *)

(* Every component with features gets a verdict. *)
LEMMA ScoredWhom ==
    ASSUME NEW m \in Modules \ {"meta"}, NEW b
    PROVE  DOMAIN Scored(m, b) = DOMAIN Features(m, b)
<1>1. CASE m = "lift"
  BY <1>1 DEF Scored, Features, LiftScore
<1>2. CASE m = "shuttle"
  BY <1>2 DEF Scored, Features, ShuttleScore
<1>3. CASE m = "conveyor"
  BY <1>3 DEF Scored, Features, ConveyorScore
<1>4. CASE m = "tracker"
  BY <1>4 DEF Scored, Features, TrackerScore
<1>5. CASE m = "gate"
  BY <1>5 DEF Scored, Features, GateScore
<1>6. CASE m = "bin_mech"
  BY <1>6 DEF Scored, Features, BinScore
<1>7. CASE m = "gtp_station"
  BY <1>7 DEF Scored, Features, GtpScore
<1>8. CASE m = "decant_station"
  BY <1>8 DEF Scored, Features, DecantScore
<1>9. CASE m = "network"
  BY <1>9 DEF Scored, Features, NetworkScore
<1>10. CASE m = "controller"
  BY <1>10 DEF Scored, Features, ControllerScore
<1> QED
  BY <1>1, <1>2, <1>3, <1>4, <1>5, <1>6, <1>7, <1>8, <1>9, <1>10 DEF Modules

(* A bundle that is nowhere better for a component never earns it a better    *)
(* score, whatever the module and whatever is stored.                         *)
LEMMA ScoredFalls ==
    ASSUME FleetInv, NEW m \in plant, NEW a, NEW b, NEW id, Worsens(m, a, b, id)
    PROVE  Scored(m, b)[id].raw <= Scored(m, a)[id].raw
<1> DEFINE hist == store[m]
<1>1. StoreOK(hist)
  BY StoredRows
<1>2. /\ m \in Modules \ {"meta"} /\ BundleOK(m, a) /\ BundleOK(m, b)
      /\ id \in DOMAIN Features(m, a) /\ id \in DOMAIN Features(m, b)
      /\ m = "gate" => DOMAIN Features(m, a) = DOMAIN Features(m, b)
      /\ NoBetter(m, Features(m, a)[id], Features(m, b)[id])
  BY DEF Worsens
<1>3. CASE m = "lift"
  <2> DEFINE f == LiftFeatures(a)
             g == LiftFeatures(b)
  <2>1. LiftBundle(a) /\ LiftBundle(b)
    BY <1>2, <1>3 DEF BundleOK
  <2>2. Features(m, a) = f /\ Features(m, b) = g
    BY <1>3 DEF Features
  <2>3. Scored(m, a) = LiftScore(f, hist) /\ Scored(m, b) = LiftScore(g, hist)
    BY <1>3 DEF Scored
  <2>4. id \in DOMAIN f /\ id \in DOMAIN g
    BY <1>2, <2>2
  <2>5. LiftFeature(f[id]) /\ LiftFeature(g[id])
    BY <2>1, <2>4, LiftFeaturesOK
  <2>6. LiftNoBetter(f[id], g[id])
    BY <1>2, <1>3, <2>2 DEF NoBetter
  <2> HIDE DEF f, g, hist
  <2> QED
    BY <1>1, <2>3, <2>4, <2>5, <2>6, LiftFalls
<1>4. CASE m = "shuttle"
  <2> DEFINE f == ShuttleFeatures(a)
             g == ShuttleFeatures(b)
  <2>1. ShuttleBundle(a) /\ ShuttleBundle(b)
    BY <1>2, <1>4 DEF BundleOK
  <2>2. Features(m, a) = f /\ Features(m, b) = g
    BY <1>4 DEF Features
  <2>3. Scored(m, a) = ShuttleScore(f, hist) /\ Scored(m, b) = ShuttleScore(g, hist)
    BY <1>4 DEF Scored
  <2>4. id \in DOMAIN f /\ id \in DOMAIN g
    BY <1>2, <2>2
  <2>5. ShuttleFeature(f[id]) /\ ShuttleFeature(g[id])
    BY <2>1, <2>4, ShuttleFeaturesOK
  <2>6. ShuttleNoBetter(f[id], g[id])
    BY <1>2, <1>4, <2>2 DEF NoBetter
  <2> HIDE DEF f, g, hist
  <2> QED
    BY <1>1, <2>3, <2>4, <2>5, <2>6, ShuttleFalls
<1>5. CASE m = "conveyor"
  <2> DEFINE f == ConveyorFeatures(a)
             g == ConveyorFeatures(b)
  <2>1. ConveyorBundle(a) /\ ConveyorBundle(b)
    BY <1>2, <1>5 DEF BundleOK
  <2>2. Features(m, a) = f /\ Features(m, b) = g
    BY <1>5 DEF Features
  <2>3. Scored(m, a) = ConveyorScore(f, hist) /\ Scored(m, b) = ConveyorScore(g, hist)
    BY <1>5 DEF Scored
  <2>4. id \in DOMAIN f /\ id \in DOMAIN g
    BY <1>2, <2>2
  <2>5. ConveyorFeature(f[id]) /\ ConveyorFeature(g[id])
    BY <2>1, <2>4, ConveyorFeaturesOK
  <2>6. ConveyorNoBetter(f[id], g[id])
    BY <1>2, <1>5, <2>2 DEF NoBetter
  <2> HIDE DEF f, g, hist
  <2> QED
    BY <1>1, <2>3, <2>4, <2>5, <2>6, ConveyorFalls
<1>6. CASE m = "tracker"
  <2> DEFINE f == TrackerFeatures(a)
             g == TrackerFeatures(b)
  <2>1. TrackerBundle(a) /\ TrackerBundle(b)
    BY <1>2, <1>6 DEF BundleOK
  <2>2. Features(m, a) = f /\ Features(m, b) = g
    BY <1>6 DEF Features
  <2>3. Scored(m, a) = TrackerScore(f, hist) /\ Scored(m, b) = TrackerScore(g, hist)
    BY <1>6 DEF Scored
  <2>4. id \in DOMAIN f /\ id \in DOMAIN g
    BY <1>2, <2>2
  <2>5. TrackerFeature(f[id]) /\ TrackerFeature(g[id])
    BY <2>1, <2>4, TrackerFeaturesOK
  <2>6. TrackerNoBetter(f[id], g[id])
    BY <1>2, <1>6, <2>2 DEF NoBetter
  <2> HIDE DEF f, g, hist
  <2> QED
    BY <1>1, <2>3, <2>4, <2>5, <2>6, TrackerFalls
<1>7. CASE m = "gate"
  <2> DEFINE f == GateFeatures(a)
             g == GateFeatures(b)
  <2>1. GateBundle(a) /\ GateBundle(b)
    BY <1>2, <1>7 DEF BundleOK
  <2>2. Features(m, a) = f /\ Features(m, b) = g
    BY <1>7 DEF Features
  <2>3. Scored(m, a) = GateScore(f, hist) /\ Scored(m, b) = GateScore(g, hist)
    BY <1>7 DEF Scored
  <2>4. id \in DOMAIN f /\ DOMAIN g = DOMAIN f
    BY <1>2, <1>7, <2>2
  <2>5. /\ \A x \in DOMAIN f : GateFeature(f[x]) /\ GateFeature(g[x])
        /\ IsFiniteSet(DOMAIN f)
    BY <2>1, <2>4, GateFeaturesOK
  <2>6. GateNoBetter(f[id], g[id])
    BY <1>2, <1>7, <2>2 DEF NoBetter
  <2> HIDE DEF f, g, hist
  <2> QED
    BY <1>1, <2>3, <2>4, <2>5, <2>6, GateFalls
<1>8. CASE m = "bin_mech"
  <2> DEFINE f == BinFeatures(a)
             g == BinFeatures(b)
  <2>1. BinBundle(a) /\ BinBundle(b)
    BY <1>2, <1>8 DEF BundleOK
  <2>2. Features(m, a) = f /\ Features(m, b) = g
    BY <1>8 DEF Features
  <2>3. Scored(m, a) = BinScore(f, hist) /\ Scored(m, b) = BinScore(g, hist)
    BY <1>8 DEF Scored
  <2>4. id \in DOMAIN f /\ id \in DOMAIN g
    BY <1>2, <2>2
  <2>5. BinFeature(f[id]) /\ BinFeature(g[id])
    BY <2>1, <2>4, BinFeaturesOK
  <2>6. BinNoBetter(f[id], g[id])
    BY <1>2, <1>8, <2>2 DEF NoBetter
  <2> HIDE DEF f, g, hist
  <2> QED
    BY <1>1, <2>3, <2>4, <2>5, <2>6, BinFalls
<1>9. CASE m = "gtp_station"
  <2> DEFINE f == GtpFeatures(a)
             g == GtpFeatures(b)
  <2>1. GtpBundle(a) /\ GtpBundle(b)
    BY <1>2, <1>9 DEF BundleOK
  <2>2. Features(m, a) = f /\ Features(m, b) = g
    BY <1>9 DEF Features
  <2>3. Scored(m, a) = GtpScore(f, hist) /\ Scored(m, b) = GtpScore(g, hist)
    BY <1>9 DEF Scored
  <2>4. id \in DOMAIN f /\ id \in DOMAIN g
    BY <1>2, <2>2
  <2>5. GtpFeature(f[id]) /\ GtpFeature(g[id])
    BY <2>1, <2>4, GtpFeaturesOK
  <2>6. GtpNoBetter(f[id], g[id])
    BY <1>2, <1>9, <2>2 DEF NoBetter
  <2> HIDE DEF f, g, hist
  <2> QED
    BY <1>1, <2>3, <2>4, <2>5, <2>6, GtpFalls
<1>10. CASE m = "decant_station"
  <2> DEFINE f == DecantFeatures(a)
             g == DecantFeatures(b)
  <2>1. DecantBundle(a) /\ DecantBundle(b)
    BY <1>2, <1>10 DEF BundleOK
  <2>2. Features(m, a) = f /\ Features(m, b) = g
    BY <1>10 DEF Features
  <2>3. Scored(m, a) = DecantScore(f, hist) /\ Scored(m, b) = DecantScore(g, hist)
    BY <1>10 DEF Scored
  <2>4. id \in DOMAIN f /\ id \in DOMAIN g
    BY <1>2, <2>2
  <2>5. DecantFeature(f[id]) /\ DecantFeature(g[id])
    BY <2>1, <2>4, DecantFeaturesOK
  <2>6. DecantNoBetter(f[id], g[id])
    BY <1>2, <1>10, <2>2 DEF NoBetter
  <2> HIDE DEF f, g, hist
  <2> QED
    BY <1>1, <2>3, <2>4, <2>5, <2>6, DecantFalls
<1>11. CASE m = "network"
  <2> DEFINE f == NetworkFeatures(a)
             g == NetworkFeatures(b)
  <2>1. NetworkBundle(a) /\ NetworkBundle(b)
    BY <1>2, <1>11 DEF BundleOK
  <2>2. Features(m, a) = f /\ Features(m, b) = g
    BY <1>11 DEF Features
  <2>3. Scored(m, a) = NetworkScore(f, hist) /\ Scored(m, b) = NetworkScore(g, hist)
    BY <1>11 DEF Scored
  <2>4. id \in DOMAIN f /\ id \in DOMAIN g
    BY <1>2, <2>2
  <2>5. NetworkFeature(f[id]) /\ NetworkFeature(g[id])
    BY <2>1, <2>4, NetworkFeaturesOK
  <2>6. NetworkNoBetter(f[id], g[id])
    BY <1>2, <1>11, <2>2 DEF NoBetter
  <2> HIDE DEF f, g, hist
  <2> QED
    BY <1>1, <2>3, <2>4, <2>5, <2>6, NetworkFalls
<1>12. CASE m = "controller"
  <2> DEFINE f == ControllerFeatures(a)
             g == ControllerFeatures(b)
  <2>1. ControllerBundle(a) /\ ControllerBundle(b)
    BY <1>2, <1>12 DEF BundleOK
  <2>2. Features(m, a) = f /\ Features(m, b) = g
    BY <1>12 DEF Features
  <2>3. Scored(m, a) = ControllerScore(f, hist) /\ Scored(m, b) = ControllerScore(g, hist)
    BY <1>12 DEF Scored
  <2>4. id \in DOMAIN f /\ id \in DOMAIN g
    BY <1>2, <2>2
  <2>5. f[id].util \in Nat /\ g[id].util \in Nat
    BY <2>1, <2>4, ControllerFeaturesOK
  <2>6. ControllerNoBetter(f[id], g[id])
    BY <1>2, <1>12, <2>2 DEF NoBetter
  <2> HIDE DEF f, g, hist
  <2> QED
    BY <1>1, <2>3, <2>4, <2>5, <2>6, ControllerFalls
<1> QED
  BY <1>2, <1>3, <1>4, <1>5, <1>6, <1>7, <1>8, <1>9, <1>10, <1>11, <1>12 DEF Modules

LEMMA WorseVerdict ==
    ASSUME FleetInv, NEW m \in plant, NEW a, NEW b, NEW id, Worsens(m, a, b, id)
    PROVE  /\ Scored(m, b)[id].score <= Scored(m, a)[id].score
           /\ Rank(Scored(m, b)[id].tier) <= Rank(Scored(m, a)[id].tier)
<1> DEFINE v == Scored(m, a)[id]
           w == Scored(m, b)[id]
<1>1. w.raw <= v.raw
  BY ScoredFalls
<1>2. VerdictOK(v) /\ VerdictOK(w)
  <2>1. /\ m \in Modules \ {"meta"} /\ BundleOK(m, a) /\ BundleOK(m, b)
        /\ id \in DOMAIN Features(m, a) /\ id \in DOMAIN Features(m, b)
    BY DEF Worsens
  <2>2. id \in DOMAIN Scored(m, a) /\ id \in DOMAIN Scored(m, b)
    BY <2>1, ScoredWhom
  <2> QED
    BY <2>1, <2>2, StoredRows, ScoredOK DEF Sound
<1> HIDE DEF v, w
<1>3. w.score <= v.score /\ Rank(w.tier) <= Rank(v.tier)
  BY <1>1, <1>2, StoredGrows, TierGrows DEF VerdictOK, RawOK
<1> QED
  BY <1>3 DEF v, w

(* No module thinks better of a component for worse readings: where every     *)
(* feature is no lower, or was below what costs anything, its score is no     *)
(* higher and its tier no better, against whatever rows are stored by then.   *)
(* The bundles are any two of whole numbers, not only those the runs try.     *)
THEOREM WorseFalls ==
    Spec => [](\A m \in plant : \A a, b, id : Worsens(m, a, b, id) =>
                  /\ Scored(m, b)[id].score <= Scored(m, a)[id].score
                  /\ Rank(Scored(m, b)[id].tier) <= Rank(Scored(m, a)[id].tier))
<1>1. FleetInv => \A m \in plant : \A a, b, id : Worsens(m, a, b, id) =>
                     /\ Scored(m, b)[id].score <= Scored(m, a)[id].score
                     /\ Rank(Scored(m, b)[id].tier) <= Rank(Scored(m, a)[id].tier)
  BY WorseVerdict
<1> QED
  BY FleetInit, FleetNext, <1>1, PTL DEF Spec

(* A node that is idle for no longer than before, whatever the other nodes do. *)
LostIdleTime(a, b, n) ==
    /\ ControllerBundle(a) /\ ControllerBundle(b) /\ a.idleColumn /\ b.idleColumn
    /\ n \in DOMAIN a.nodes /\ n \in DOMAIN b.nodes
    /\ b.nodes[n].idle <= a.nodes[n].idle

(* A gate that was shut before, or is now open for a request, or has the same *)
(* status, with the same alerts or more, whatever the other gates do.         *)
HeldOpen(a, b, g) ==
    /\ GateBundle(a) /\ GateBundle(b) /\ g \in DOMAIN a.gates /\ DOMAIN b.gates = DOMAIN a.gates
    /\ a.gates[g] \notin {2, 3} \/ b.gates[g] = 2 \/ b.gates[g] = a.gates[g]
    /\ \A x \in a.alerts : x.gate = g => x \in b.alerts

LEMMA IdleWorsens ==
    ASSUME NEW a, NEW b, NEW n, LostIdleTime(a, b, n)
    PROVE  Worsens("controller", a, b, n)
<1> DEFINE cell(x) == AtMost(Positive(x), 100 * Percent)
           f == ControllerFeatures(a)
           g == ControllerFeatures(b)
<1>1. /\ n \in DOMAIN f /\ f[n].util = 100 * Percent - cell(a.nodes[n].idle)
      /\ n \in DOMAIN g /\ g[n].util = 100 * Percent - cell(b.nodes[n].idle)
  BY DEF ControllerFeatures, LostIdleTime
<1>2. a.nodes[n].idle \in Int /\ b.nodes[n].idle \in Int
  BY DEF LostIdleTime, ControllerBundle
<1>3. /\ cell(a.nodes[n].idle) \in Int /\ cell(b.nodes[n].idle) \in Int
      /\ cell(b.nodes[n].idle) <= cell(a.nodes[n].idle)
  BY <1>2 DEF AtMost, Positive, Percent, LostIdleTime
<1> HIDE DEF f, g, cell
<1>4. f[n].util <= g[n].util
  BY <1>1, <1>3 DEF Percent
<1>5. ControllerNoBetter(f[n], g[n])
  BY <1>4 DEF ControllerNoBetter, NoLower
<1>6. /\ Features("controller", a) = f /\ Features("controller", b) = g
      /\ BundleOK("controller", a) = ControllerBundle(a)
      /\ BundleOK("controller", b) = ControllerBundle(b)
      /\ NoBetter("controller", f[n], g[n]) = ControllerNoBetter(f[n], g[n])
      /\ "controller" \in Modules \ {"meta"}
  BY DEF Features, BundleOK, NoBetter, Modules, f, g
<1> QED
  BY <1>1, <1>5, <1>6 DEF Worsens, LostIdleTime

LEMMA HeldWorsens ==
    ASSUME NEW a, NEW b, NEW g, HeldOpen(a, b, g)
    PROVE  Worsens("gate", a, b, g)
<1> DEFINE S(x)  == {0} \cup {y.minutes : y \in {z \in x.alerts : z.gate = g}}
           open(x) == x.gates[g] \in {2, 3}
           f == GateFeatures(a)
           h == GateFeatures(b)
<1>1. /\ g \in DOMAIN f /\ DOMAIN h = DOMAIN f
      /\ f[g].code = a.gates[g] /\ f[g].nonClosed = open(a)
      /\ f[g].excess = IF open(a) THEN Positive(Max(S(a)) - 2) ELSE 0
      /\ h[g].code = b.gates[g] /\ h[g].nonClosed = open(b)
      /\ h[g].excess = IF open(b) THEN Positive(Max(S(b)) - 2) ELSE 0
  BY DEF GateFeatures, HeldOpen
<1>2. S(a) \subseteq S(b) /\ 0 \in S(a)
  BY DEF HeldOpen
<1>3. \A x \in {a, b} : IsFiniteSet(S(x)) /\ S(x) \subseteq Int
  <2> SUFFICES ASSUME NEW x, GateBundle(x) PROVE IsFiniteSet(S(x)) /\ S(x) \subseteq Int
    BY DEF HeldOpen
  <2> DEFINE mine == {z \in x.alerts : z.gate = g}
             R    == {y.minutes : y \in mine}
             to   == [y \in mine |-> y.minutes]
  <2>1. IsFiniteSet(mine)
    BY FS_Subset DEF GateBundle
  <2>2. DOMAIN to = mine /\ R = {to[y] : y \in mine}
    OBVIOUS
  <2>3. R \subseteq Int
    BY DEF GateBundle
  <2>4. S(x) = R \cup {0}
    OBVIOUS
  <2> HIDE DEF S, R, to, mine
  <2>5. IsFiniteSet(R)
    BY <2>1, <2>2, ImageFinite
  <2> QED
    BY <2>3, <2>4, <2>5, WithOne
<1> HIDE DEF S
<1>4. /\ Max(S(a)) \in Int /\ Max(S(b)) \in Int /\ Max(S(a)) <= Max(S(b))
      /\ 0 <= Max(S(a))
  BY <1>2, <1>3, MinMax
<1>5. /\ open(a) => open(b)
      /\ a.gates[g] = 2 => b.gates[g] = 2
  BY DEF HeldOpen
<1> HIDE DEF f, h, open
<1>6. f[g].excess <= h[g].excess
  BY <1>1, <1>4, <1>5 DEF Positive
<1>7. GateNoBetter(f[g], h[g])
  BY <1>1, <1>5, <1>6 DEF GateNoBetter, NoLower, StillUp
<1>8. /\ Features("gate", a) = f /\ Features("gate", b) = h
      /\ BundleOK("gate", a) = GateBundle(a) /\ BundleOK("gate", b) = GateBundle(b)
      /\ NoBetter("gate", f[g], h[g]) = GateNoBetter(f[g], h[g])
      /\ "gate" \in Modules \ {"meta"}
  BY DEF Features, BundleOK, NoBetter, Modules, f, h
<1> QED
  BY <1>1, <1>7, <1>8 DEF Worsens, HeldOpen

(* For nodes and gates this is so from what is read of them alone: a node     *)
(* that loses idle time, a gate that is held open as before or longer, never  *)
(* gets the better verdict, whatever is read of the others at the same time.  *)
THEOREM WorseReadings ==
    Spec => [](\A a, b, id :
                  /\ "controller" \in plant /\ LostIdleTime(a, b, id) =>
                       /\ Scored("controller", b)[id].score <= Scored("controller", a)[id].score
                       /\ Rank(Scored("controller", b)[id].tier)
                            <= Rank(Scored("controller", a)[id].tier)
                  /\ "gate" \in plant /\ HeldOpen(a, b, id) =>
                       /\ Scored("gate", b)[id].score <= Scored("gate", a)[id].score
                       /\ Rank(Scored("gate", b)[id].tier) <= Rank(Scored("gate", a)[id].tier))
<1>1. FleetInv => \A a, b, id :
         /\ "controller" \in plant /\ LostIdleTime(a, b, id) =>
              /\ Scored("controller", b)[id].score <= Scored("controller", a)[id].score
              /\ Rank(Scored("controller", b)[id].tier) <= Rank(Scored("controller", a)[id].tier)
         /\ "gate" \in plant /\ HeldOpen(a, b, id) =>
              /\ Scored("gate", b)[id].score <= Scored("gate", a)[id].score
              /\ Rank(Scored("gate", b)[id].tier) <= Rank(Scored("gate", a)[id].tier)
  BY IdleWorsens, HeldWorsens, WorseVerdict
<1> QED
  BY FleetInit, FleetNext, <1>1, PTL DEF Spec

-----------------------------------------------------------------------------
(* Worse members of meta *)

(* Features of a scope with as much against it, or more. *)
MoreAgainst(f, g) ==
    /\ f.breadth <= g.breadth /\ Cardinality(f.edges) <= Cardinality(g.edges)
    /\ f.compound <= g.compound
    /\ Rank(g.worst) <= Rank(f.worst) /\ Rank(g.controller) <= Rank(f.controller)
    /\ ~f.metaFlag \/ g.metaFlag

LEMMA WorstAmong ==
    ASSUME NEW tiers \in SUBSET TierNames, tiers # {}
    PROVE  WorstOf(tiers) \in tiers
<1> DEFINE D == {Rank(u) : u \in tiers}
<1>1. D \subseteq 1..4 /\ D # {}
  BY TierRank
<1>2. IsFiniteSet(D)
  <2>1. IsFiniteSet(1..4)
    BY FewFinite
  <2> HIDE DEF D
  <2> QED
    BY <1>1, <2>1, FS_Subset
<1>3. Min(D) \in D
  <2>1. D \subseteq Int
    BY <1>1
  <2> HIDE DEF D
  <2> QED
    BY <1>1, <1>2, <2>1, MinMax
<1>4. PICK u \in tiers : Min(D) = Rank(u)
  BY <1>3
<1>5. WorstOf(tiers) = u
  BY <1>4, TierRank DEF WorstOf
<1> QED
  BY <1>4, <1>5

(* A set of members of which each has one as bad, or worse, among the others. *)
Outdone(here, there) ==
    \A c \in here : \E d \in there :
        /\ d.module = c.module /\ Rank(d.tier) <= Rank(c.tier) /\ c.cross \subseteq d.cross

LEMMA CorrelateGrows ==
    ASSUME NEW here, IsFiniteSet(here), \A c \in here : c.tier \in TierNames,
           NEW there, IsFiniteSet(there), \A c \in there : c.tier \in TierNames,
           Outdone(here, there)
    PROVE  MoreAgainst(Correlate(here), Correlate(there))
<1> DEFINE bad(S)     == {m \in S : Flagged(m.tier)}
           modules(S) == {m.module : m \in bad(S)}
           tiers(S)   == {m.tier : m \in bad(S)}
           edges(S)   == {<<m.module, t>> : m \in bad(S), t \in modules(S)} \cap
                         UNION {{m.module} \X (m.cross \ {m.module}) : m \in bad(S)}
           f == Correlate(here)
           g == Correlate(there)
<1>1. /\ f.breadth = Cardinality(modules(here)) /\ f.edges = edges(here)
      /\ f.worst = IF bad(here) = {} THEN "ok" ELSE WorstOf(tiers(here))
      /\ f.controller = "ok" /\ f.compound = 0
      /\ f.metaFlag = \E m \in bad(here) : "meta" \in m.cross
  BY DEF Correlate
<1>2. /\ g.breadth = Cardinality(modules(there)) /\ g.edges = edges(there)
      /\ g.worst = IF bad(there) = {} THEN "ok" ELSE WorstOf(tiers(there))
      /\ g.controller = "ok" /\ g.compound = 0
      /\ g.metaFlag = \E m \in bad(there) : "meta" \in m.cross
  BY DEF Correlate
<1>3. \A c \in bad(here) : \E d \in bad(there) :
        d.module = c.module /\ Rank(d.tier) <= Rank(c.tier) /\ c.cross \subseteq d.cross
  BY RankIs DEF Outdone, Flagged, TierNames
<1>4. modules(here) \subseteq modules(there)
  <2> HIDE DEF bad
  <2> QED
    BY <1>3
<1>5. edges(here) \subseteq edges(there)
  <2> SUFFICES ASSUME NEW e \in edges(here) PROVE e \in edges(there)
    OBVIOUS
  <2> HIDE DEF bad
  <2>1. PICK m \in bad(here) : e \in {m.module} \X (m.cross \ {m.module})
    OBVIOUS
  <2>2. PICK t \in m.cross \ {m.module} : e = <<m.module, t>>
    BY <2>1
  <2>3. t \in modules(here)
    BY <2>2
  <2>4. PICK d \in bad(there) : d.module = m.module /\ m.cross \subseteq d.cross
    BY <1>3
  <2>5. e = <<d.module, t>> /\ t \in d.cross \ {d.module} /\ t \in modules(there)
    BY <1>4, <2>2, <2>3, <2>4
  <2>6. e \in {<<x.module, u>> : x \in bad(there), u \in modules(there)}
    BY <2>5
  <2>7. e \in {d.module} \X (d.cross \ {d.module})
    BY <2>5
  <2> QED
    BY <2>6, <2>7
<1>6. IsFiniteSet(modules(there))
  <2> DEFINE h == [m \in bad(there) |-> m.module]
  <2>1. DOMAIN h = bad(there) /\ modules(there) = {h[m] : m \in DOMAIN h}
    OBVIOUS
  <2>2. IsFiniteSet(bad(there))
    BY FS_Subset
  <2> HIDE DEF h, bad
  <2> QED
    BY <2>1, <2>2, RangeFinite
<1>7. IsFiniteSet(edges(there))
  <2> DEFINE all == modules(there) \X modules(there)
  <2>1. IsFiniteSet(all)
    <3> HIDE DEF modules
    <3> QED
      BY <1>6, FS_Product
  <2>2. edges(there) \subseteq all
    OBVIOUS
  <2> HIDE DEF all, edges
  <2> QED
    BY <2>1, <2>2, FS_Subset
<1>8. /\ Cardinality(modules(here)) <= Cardinality(modules(there))
      /\ Cardinality(edges(here)) <= Cardinality(edges(there))
  <2> HIDE DEF modules, edges
  <2> QED
    BY <1>4, <1>5, <1>6, <1>7, FS_Subset
<1>9. Rank(g.worst) <= Rank(f.worst)
  <2>1. /\ tiers(here) \in SUBSET TierNames /\ tiers(there) \in SUBSET TierNames
        /\ bad(there) # {} => tiers(there) # {}
        /\ bad(here) # {} => tiers(here) # {}
    OBVIOUS
  <2>2. g.worst \in TierNames
    <3>1. "ok" \in TierNames
      BY DEF TierNames
    <3> HIDE DEF tiers, bad, g
    <3> QED
      BY <1>2, <2>1, <3>1, WorstIs
  <2>3. CASE bad(here) = {}
    <3>1. f.worst = "ok"
      BY <1>1, <2>3
    <3> HIDE DEF f, g
    <3> QED
      BY <2>2, <3>1, RankIs DEF TierNames
  <2>4. CASE bad(here) # {}
    <3>1. f.worst = WorstOf(tiers(here)) /\ f.worst \in tiers(here)
      <4> HIDE DEF tiers, bad, f
      <4> QED
        BY <1>1, <2>1, <2>4, WorstAmong
    <3>2. PICK c \in bad(here) : f.worst = c.tier
      BY <3>1
    <3>3. PICK d \in bad(there) : Rank(d.tier) <= Rank(c.tier)
      <4> HIDE DEF bad
      <4> QED
        BY <1>3
    <3>4. g.worst = WorstOf(tiers(there)) /\ d.tier \in tiers(there)
      <4>1. bad(there) # {} /\ d.tier \in tiers(there)
        OBVIOUS
      <4> HIDE DEF bad, tiers, g
      <4> QED
        BY <1>2, <4>1
    <3>5. Rank(g.worst) <= Rank(d.tier)
      <4> HIDE DEF bad, tiers, g
      <4> QED
        BY <2>1, <3>4, WorstBelow
    <3>6. Rank(g.worst) \in Int /\ Rank(d.tier) \in Int /\ Rank(c.tier) \in Int
      <4>1. c.tier \in TierNames /\ d.tier \in TierNames
        OBVIOUS
      <4> HIDE DEF bad, g
      <4> QED
        BY <2>2, <4>1, TierRank
    <3> HIDE DEF f, g, bad
    <3> QED
      BY <3>2, <3>3, <3>5, <3>6
  <2> QED
    BY <2>3, <2>4
<1>10. ~f.metaFlag \/ g.metaFlag
  <2>1. (\E m \in bad(here) : "meta" \in m.cross) => \E m \in bad(there) : "meta" \in m.cross
    <3> HIDE DEF bad
    <3> QED
      BY <1>3
  <2> HIDE DEF bad, f, g
  <2> QED
    BY <1>1, <1>2, <2>1
<1> HIDE DEF modules, edges, bad, tiers, f, g
<1>11. MoreAgainst(f, g)
  BY <1>1, <1>2, <1>8, <1>9, <1>10, RankIs DEF MoreAgainst
<1> QED
  BY <1>11 DEF f, g

(* Rank of what the first controller says, when it is there. *)
LEMMA FirstGrows ==
    ASSUME NEW a, NEW b, MembersWorsen(a, b), NEW S, NEW T,
           S = {m \in a.components : ScopeOf(m) = System /\ m.module = "controller" /\ m.id = a.first},
           T = {m \in b.components : ScopeOf(m) = System /\ m.module = "controller" /\ m.id = b.first}
    PROVE  Rank(IF T = {} THEN "ok" ELSE (CHOOSE m \in T : TRUE).tier)
             <= Rank(IF S = {} THEN "ok" ELSE (CHOOSE m \in S : TRUE).tier)
<1>1. \A d \in T : d.tier \in TierNames
  BY TiersAre DEF MembersWorsen, MetaBundle
<1>2. CASE S = {}
  <2>1. CASE T = {}
    BY <1>2, <2>1, RankIs
  <2>2. CASE T # {}
    <3>1. (CHOOSE m \in T : TRUE).tier \in TierNames
      BY <1>1, <2>2
    <3> QED
      BY <1>2, <2>2, <3>1, TierRank, RankIs
  <2> QED
    BY <2>1, <2>2
<1>3. CASE S # {}
  <2>1. PICK c : c = (CHOOSE m \in S : TRUE) /\ c \in S
    BY <1>3
  <2>2. PICK d \in b.components : /\ d.module = c.module /\ d.id = c.id
                                  /\ Rank(d.tier) <= Rank(c.tier)
    <3>1. c \in a.components
      BY <2>1
    <3>2. \A e \in a.components : \E d \in b.components :
             d.module = e.module /\ d.id = e.id /\ Rank(d.tier) <= Rank(e.tier)
      BY DEF MembersWorsen
    <3> QED
      BY <3>1, <3>2
  <2>3. d \in T
    BY <2>1, <2>2 DEF MembersWorsen, ScopeOf
  <2>4. \A e \in T : e = d
    BY <2>1, <2>2 DEF MembersWorsen
  <2>5. (CHOOSE m \in T : TRUE) = d
    BY <2>3, <2>4
  <2> QED
    BY <1>3, <2>1, <2>2, <2>3, <2>5
<1> QED
  BY <1>2, <1>3

LEMMA MetaFeaturesGrow ==
    ASSUME NEW a, NEW b, MembersWorsen(a, b), NEW s \in DOMAIN MetaFeatures(a)
    PROVE  /\ s \in DOMAIN MetaFeatures(b)
           /\ MoreAgainst(MetaFeatures(a)[s], MetaFeatures(b)[s])
<1> DEFINE in(x, scope) == {m \in x.components : ScopeOf(m) = scope}
           aisles(x) == {ScopeOf(m) : m \in x.components} \ {System}
           aisle(x)  == [y \in aisles(x) |-> Correlate(in(x, y))]
           lead(x)  == {m \in in(x, System) : m.module = "controller" /\ m.id = x.first}
           broad(x)  == {y \in aisles(x) : aisle(x)[y].breadth >= 2}
           of(x)     == Correlate(in(x, System))
           tier(x)   == IF lead(x) = {} THEN of(x).controller ELSE (CHOOSE m \in lead(x) : TRUE).tier
           system(x) == [of(x) EXCEPT !.controller = tier(x), !.compound = Cardinality(broad(x))]
<1>1. /\ MetaFeatures(a) = [y \in aisles(a) \cup {System} |-> IF y = System THEN system(a) ELSE aisle(a)[y]]
      /\ MetaFeatures(b) = [y \in aisles(b) \cup {System} |-> IF y = System THEN system(b) ELSE aisle(b)[y]]
  BY DEF MetaFeatures
<1>2. MetaBundle(a) /\ MetaBundle(b)
  BY DEF MembersWorsen
<1>3. aisles(a) \subseteq aisles(b)
  BY DEF MembersWorsen, ScopeOf
<1>4. \A scope : MoreAgainst(Correlate(in(a, scope)), Correlate(in(b, scope)))
  <2> SUFFICES ASSUME NEW scope PROVE MoreAgainst(Correlate(in(a, scope)), Correlate(in(b, scope)))
    OBVIOUS
  <2>1. /\ IsFiniteSet(in(a, scope)) /\ \A m \in in(a, scope) : m.tier \in TierNames
        /\ IsFiniteSet(in(b, scope)) /\ \A m \in in(b, scope) : m.tier \in TierNames
    BY <1>2, TiersAre, FS_Subset DEF MetaBundle
  <2>2. Outdone(in(a, scope), in(b, scope))
    BY DEF MembersWorsen, Outdone, ScopeOf
  <2> HIDE DEF in
  <2> QED
    BY <2>1, <2>2, CorrelateGrows
<1>5. \A scope : /\ Correlate(in(a, scope)).breadth \in Nat
                 /\ Correlate(in(b, scope)).breadth \in Nat
  <2> SUFFICES ASSUME NEW scope PROVE /\ Correlate(in(a, scope)).breadth \in Nat
                                      /\ Correlate(in(b, scope)).breadth \in Nat
    OBVIOUS
  <2>1. /\ IsFiniteSet(in(a, scope)) /\ \A m \in in(a, scope) : m.tier \in TierNames
        /\ IsFiniteSet(in(b, scope)) /\ \A m \in in(b, scope) : m.tier \in TierNames
    BY <1>2, TiersAre, FS_Subset DEF MetaBundle
  <2> HIDE DEF in
  <2> QED
    BY <2>1, CorrelateOK DEF MetaFeature
<1>6. Cardinality(broad(a)) <= Cardinality(broad(b))
  <2>1. broad(a) \subseteq broad(b)
    <3>1. \A y \in aisles(a) : aisle(a)[y].breadth >= 2 => aisle(b)[y].breadth >= 2
      <4> SUFFICES ASSUME NEW y \in aisles(a), aisle(a)[y].breadth >= 2
                   PROVE  aisle(b)[y].breadth >= 2
        OBVIOUS
      <4>1. aisle(a)[y] = Correlate(in(a, y)) /\ aisle(b)[y] = Correlate(in(b, y))
        BY <1>3
      <4> HIDE DEF aisle, aisles, in
      <4> QED
        BY <1>4, <1>5, <4>1 DEF MoreAgainst
    <3> HIDE DEF aisle, aisles
    <3> QED
      BY <1>3, <3>1
  <2>2. IsFiniteSet(broad(b))
    <3> DEFINE h == [m \in b.components |-> ScopeOf(m)]
               all == {ScopeOf(m) : m \in b.components}
    <3>1. DOMAIN h = b.components /\ all = {h[m] : m \in DOMAIN h}
      OBVIOUS
    <3>2. IsFiniteSet(all)
      <4> HIDE DEF h, all
      <4> QED
        BY <1>2, <3>1, RangeFinite DEF MetaBundle
    <3>3. broad(b) \subseteq all
      <4> HIDE DEF aisle
      <4> QED
        OBVIOUS
    <3> HIDE DEF all, broad
    <3> QED
      BY <3>2, <3>3, FS_Subset
  <2> HIDE DEF broad
  <2> QED
    BY <2>1, <2>2, FS_Subset
<1>7. Rank(tier(b)) <= Rank(tier(a))
  <2>1. of(a).controller = "ok" /\ of(b).controller = "ok"
    BY DEF Correlate
  <2> DEFINE S == {m \in a.components : ScopeOf(m) = System /\ m.module = "controller" /\ m.id = a.first}
             T == {m \in b.components : ScopeOf(m) = System /\ m.module = "controller" /\ m.id = b.first}
  <2>2. lead(a) = S /\ lead(b) = T
    OBVIOUS
  <2>3. Rank(IF T = {} THEN "ok" ELSE (CHOOSE m \in T : TRUE).tier)
           <= Rank(IF S = {} THEN "ok" ELSE (CHOOSE m \in S : TRUE).tier)
    <3>1. /\ S = {m \in a.components :
                    ScopeOf(m) = System /\ m.module = "controller" /\ m.id = a.first}
          /\ T = {m \in b.components :
                    ScopeOf(m) = System /\ m.module = "controller" /\ m.id = b.first}
      OBVIOUS
    <3> HIDE DEF S, T, lead, broad, of, tier, system, aisle, aisles, in
    <3> QED
      BY <3>1, FirstGrows
  <2>4. /\ tier(a) = IF S = {} THEN "ok" ELSE (CHOOSE m \in S : TRUE).tier
        /\ tier(b) = IF T = {} THEN "ok" ELSE (CHOOSE m \in T : TRUE).tier
    <3> HIDE DEF S, T, of, lead
    <3> QED
      BY <2>1, <2>2
  <2> HIDE DEF S, T, tier
  <2> QED
    BY <2>3, <2>4
<1>8. \A x : of(x) = [modules |-> of(x).modules, breadth |-> of(x).breadth, worst |-> of(x).worst,
                      edges |-> of(x).edges, metaFlag |-> of(x).metaFlag,
                      controller |-> of(x).controller, compound |-> of(x).compound]
  BY DEF Correlate
<1>9. \A x : /\ system(x).breadth = of(x).breadth /\ system(x).edges = of(x).edges
             /\ system(x).worst = of(x).worst /\ system(x).metaFlag = of(x).metaFlag
             /\ system(x).controller = tier(x) /\ system(x).compound = Cardinality(broad(x))
  <2> HIDE DEF of, tier, broad
  <2> QED
    BY <1>8
<1>10. MoreAgainst(system(a), system(b))
  <2>1. MoreAgainst(of(a), of(b))
    BY <1>4
  <2> HIDE DEF system, of, tier, broad
  <2> QED
    BY <1>6, <1>7, <1>9, <2>1 DEF MoreAgainst
<1>11. CASE s = System
  <2> HIDE DEF system, aisle, aisles
  <2> QED
    BY <1>1, <1>10, <1>11
<1>12. CASE s # System
  <2>1. s \in aisles(a) /\ s \in aisles(b)
    <3> HIDE DEF system, aisle, aisles
    <3> QED
      BY <1>1, <1>3, <1>12
  <2>2. MetaFeatures(a)[s] = aisle(a)[s] /\ MetaFeatures(b)[s] = aisle(b)[s]
    <3> HIDE DEF system, aisle, aisles
    <3> QED
      BY <1>1, <1>12, <2>1
  <2>3. aisle(a)[s] = Correlate(in(a, s)) /\ aisle(b)[s] = Correlate(in(b, s))
    BY <2>1
  <2>4. s \in DOMAIN MetaFeatures(b)
    <3> HIDE DEF system, aisle, aisles
    <3> QED
      BY <1>1, <2>1
  <2> HIDE DEF system, aisle, aisles, in
  <2> QED
    BY <1>4, <2>2, <2>3, <2>4
<1> QED
  BY <1>11, <1>12

LEMMA CompoundGrows ==
    ASSUME NEW f, NEW g, f.breadth \in Nat, g.breadth \in Nat, f.breadth <= g.breadth,
           NEW hist, RowsOK(hist)
    PROVE  CompoundRuns(f, hist) <= CompoundRuns(g, hist)
<1> DEFINE S == {i \in DOMAIN hist : hist[i].facts.breadth < 2} \cup {Len(hist) + 1}
<1>1. CompoundRuns(f, hist) \in Nat /\ CompoundRuns(g, hist) \in Nat
  BY CompoundRunsNat
<1>2. /\ CompoundRuns(f, hist) = IF f.breadth < 2 THEN 0 ELSE Min(S)
      /\ CompoundRuns(g, hist) = IF g.breadth < 2 THEN 0 ELSE Min(S)
  BY DEF CompoundRuns
<1> HIDE DEF S
<1> QED
  BY <1>1, <1>2

LEMMA MetaGrows ==
    ASSUME NEW f, NEW g, MetaFeature(f), MetaFeature(g), MoreAgainst(f, g),
           NEW hist, RowsOK(hist)
    PROVE  TakesMore(MetaPenalties(f, CompoundRuns(f, hist)),
                     MetaPenalties(g, CompoundRuns(g, hist)))
<1> DEFINE held == CompoundRuns(f, hist)
           more == CompoundRuns(g, hist)
           by(tier, points) == IF Flagged(tier) THEN points[Rank(tier)] * U ELSE 0
           sev(x) == IF x.breadth >= 2 THEN by(x.worst, <<18, 8, 2>>) ELSE 0
           asked(x) == IF x.metaFlag THEN 18 * U ELSE 0
<1>1. held \in Nat /\ more \in Nat /\ held <= more
  BY CompoundRunsNat, CompoundGrows DEF MetaFeature, MoreAgainst
<1>2. Points(MetaPenalties(f, held)) /\ Points(MetaPenalties(g, more))
  BY <1>1, MetaPoints
<1>3. /\ by(f.worst, <<18, 8, 2>>) \in Nat /\ by(g.worst, <<18, 8, 2>>) \in Nat
      /\ by(f.worst, <<18, 8, 2>>) <= by(g.worst, <<18, 8, 2>>)
  BY RankIs DEF MetaFeature, MoreAgainst, TierNames, Flagged, U
<1>4. by(f.controller, <<30, 15, 5>>) <= by(g.controller, <<30, 15, 5>>)
  BY RankIs DEF MetaFeature, MoreAgainst, TierNames, Flagged, U
<1> HIDE DEF by
<1>5. sev(f) <= sev(g)
  BY <1>3 DEF MetaFeature, MoreAgainst
<1>6. Capped(asked(f), 18) <= Capped(asked(g), 18)
  BY DEF MoreAgainst, Capped, AtMost, Positive, U
<1> HIDE DEF sev, asked, held, more
<1>7. /\ Capped(9 * U * (f.breadth - 1), 45) <= Capped(9 * U * (g.breadth - 1), 45)
      /\ Capped(8 * U * Cardinality(f.edges), 24) <= Capped(8 * U * Cardinality(g.edges), 24)
      /\ Capped(6 * U * (held - 1), 24) <= Capped(6 * U * (more - 1), 24)
      /\ AtMost(10 * U * f.compound, 40 * U) <= AtMost(10 * U * g.compound, 40 * U)
  BY <1>1 DEF MetaFeature, MoreAgainst, Capped, AtMost, Positive, U
<1>8. /\ MetaPenalties(f, held) =
           << <<"breadth", Capped(9 * U * (f.breadth - 1), 45)>>,
              <<"severity", sev(f)>>,
              <<"chain", Capped(8 * U * Cardinality(f.edges), 24)>>,
              <<"persistence", Capped(6 * U * (held - 1), 24)>>,
              <<"meta_flag", Capped(asked(f), 18)>>,
              <<"controller_trigger", by(f.controller, <<30, 15, 5>>)>>,
              <<"aisle_breadth", AtMost(10 * U * f.compound, 40 * U)>> >>
      /\ MetaPenalties(g, more) =
           << <<"breadth", Capped(9 * U * (g.breadth - 1), 45)>>,
              <<"severity", sev(g)>>,
              <<"chain", Capped(8 * U * Cardinality(g.edges), 24)>>,
              <<"persistence", Capped(6 * U * (more - 1), 24)>>,
              <<"meta_flag", Capped(asked(g), 18)>>,
              <<"controller_trigger", by(g.controller, <<30, 15, 5>>)>>,
              <<"aisle_breadth", AtMost(10 * U * g.compound, 40 * U)>> >>
  BY DEF MetaPenalties, by, sev, asked
<1>9. TakesMore(MetaPenalties(f, held), MetaPenalties(g, more))
  BY <1>2, <1>4, <1>5, <1>6, <1>7, <1>8 DEF TakesMore
<1> QED
  BY <1>9 DEF held, more

LEMMA MetaFalls ==
    ASSUME NEW a, NEW b, MembersWorsen(a, b), NEW stored, StoreOK(stored),
           NEW s \in DOMAIN MetaFeatures(a)
    PROVE  /\ s \in DOMAIN MetaFeatures(b)
           /\ MetaScore(MetaFeatures(b), stored)[s].raw <= MetaScore(MetaFeatures(a), stored)[s].raw
<1> DEFINE feats == MetaFeatures(a)
           more  == MetaFeatures(b)
           hist  == History(stored, s)
           pen(f) == MetaPenalties(f, CompoundRuns(f, hist))
<1>1. s \in DOMAIN more /\ MoreAgainst(feats[s], more[s])
  BY MetaFeaturesGrow
<1>2. MetaFeature(feats[s]) /\ MetaFeature(more[s])
  BY <1>1, MetaFeaturesOK DEF MembersWorsen
<1> HIDE DEF feats, more
<1>3. /\ MetaScore(feats, stored)[s].raw = ScoreOf(Total(pen(feats[s])))
      /\ MetaScore(more, stored)[s].raw = ScoreOf(Total(pen(more[s])))
  BY <1>1 DEF MetaScore, Judge, feats
<1>4. TakesMore(pen(feats[s]), pen(more[s]))
  BY <1>1, <1>2, HistoryOK, MetaGrows
<1> HIDE DEF pen
<1>5. MetaScore(more, stored)[s].raw <= MetaScore(feats, stored)[s].raw
  BY <1>3, <1>4, MoreTaken
<1> QED
  BY <1>1, <1>5 DEF feats, more

LEMMA TierWorsens ==
    ASSUME FleetInv, NEW c \in Members.components, NEW tier \in TierNames, Rank(tier) <= Rank(c.tier)
    PROVE  MembersWorsen(Members, WithTier(c, tier))
<1> DEFINE a == Members
           e == [c EXCEPT !.tier = tier]
           b == WithTier(c, tier)
<1>1. MetaBundle(a)
  BY MembersOK
<1>2. \A x \in a.components : x = [module |-> x.module, id |-> x.id, tier |-> x.tier, cross |-> x.cross]
  BY DEF Members, Newest
<1>3. \A x, y \in a.components : x.module = y.module /\ x.id = y.id => x = y
  BY DEF Members, Newest
<1>4. a = [components |-> a.components, first |-> a.first]
  BY DEF Members
<1> HIDE DEF a
<1>5. b.components = (a.components \ {c}) \cup {e} /\ b.first = a.first
  BY <1>4 DEF WithTier, a
<1>6. /\ e.module = c.module /\ e.id = c.id /\ e.cross = c.cross /\ e.tier = tier
      /\ c \in a.components
  BY <1>2 DEF a
<1> HIDE DEF e, b
<1>7. MetaBundle(b)
  <2>1. IsFiniteSet(a.components \ {c})
    BY <1>1, FS_Difference DEF MetaBundle
  <2>2. IsFiniteSet(b.components)
    BY <1>5, <2>1, WithOne
  <2>3. \A x \in b.components : x.tier \in Range(Tiers)
    BY <1>1, <1>5, <1>6, TiersAre DEF MetaBundle
  <2> QED
    BY <2>2, <2>3 DEF MetaBundle
<1>8. \A x, y \in b.components : x.module = y.module /\ x.id = y.id => x = y
  BY <1>3, <1>5, <1>6
<1>9. \A x \in a.components : \E y \in b.components :
         /\ y.module = x.module /\ y.id = x.id
         /\ Rank(y.tier) <= Rank(x.tier) /\ x.cross \subseteq y.cross
  <2> SUFFICES ASSUME NEW x \in a.components
               PROVE  \E y \in b.components :
                         /\ y.module = x.module /\ y.id = x.id
                         /\ Rank(y.tier) <= Rank(x.tier) /\ x.cross \subseteq y.cross
    OBVIOUS
  <2>1. CASE x = c
    <3>1. e \in b.components
      BY <1>5
    <3> QED
      BY <1>6, <2>1, <3>1
  <2>2. CASE x # c
    <3>1. x \in b.components /\ Rank(x.tier) \in Int
      BY <1>1, <1>5, <2>2, TiersAre, TierRank DEF MetaBundle
    <3> QED
      BY <3>1
  <2> QED
    BY <2>1, <2>2
<1>10. MembersWorsen(a, b)
  BY <1>1, <1>5, <1>7, <1>8, <1>9 DEF MembersWorsen
<1> QED
  BY <1>10 DEF a, b

(* More trouble is never good news for meta: if each component has the same   *)
(* tier or a worse one, with as many links or more, and others join them, no  *)
(* aisle, nor the system, gets a better score or a better tier.               *)
THEOREM WorseMembers ==
    Spec => []("meta" \in plant =>
        \A a, b : MembersWorsen(a, b) =>
            \A s \in DOMAIN MetaFeatures(a) :
                /\ s \in DOMAIN MetaFeatures(b)
                /\ MetaSaid(b)[s].score <= MetaSaid(a)[s].score
                /\ Rank(MetaSaid(b)[s].tier) <= Rank(MetaSaid(a)[s].tier))
<1>1. ASSUME FleetInv, "meta" \in plant, NEW a, NEW b, MembersWorsen(a, b),
             NEW s \in DOMAIN MetaFeatures(a)
      PROVE  /\ s \in DOMAIN MetaFeatures(b)
             /\ MetaSaid(b)[s].score <= MetaSaid(a)[s].score
             /\ Rank(MetaSaid(b)[s].tier) <= Rank(MetaSaid(a)[s].tier)
  <2> DEFINE v == MetaSaid(a)[s]
             w == MetaSaid(b)[s]
  <2>1. StoreOK(store["meta"])
    BY <1>1, StoredRows
  <2>2. s \in DOMAIN MetaFeatures(b) /\ w.raw <= v.raw
    BY <1>1, <2>1, MetaFalls DEF MetaSaid
  <2>3. VerdictOK(v)
    <3>1. MetaFeature(MetaFeatures(a)[s])
      BY <1>1, MetaFeaturesOK DEF MembersWorsen
    <3>2. s \in DOMAIN MetaScore(MetaFeatures(a), store["meta"])
      BY <1>1 DEF MetaScore
    <3> QED
      BY <2>1, <3>1, <3>2, MetaScoreOK DEF MetaSaid
  <2>4. VerdictOK(w)
    <3>1. MetaFeature(MetaFeatures(b)[s])
      BY <1>1, <2>2, MetaFeaturesOK DEF MembersWorsen
    <3>2. s \in DOMAIN MetaScore(MetaFeatures(b), store["meta"])
      BY <2>2 DEF MetaScore
    <3> QED
      BY <2>1, <3>1, <3>2, MetaScoreOK DEF MetaSaid
  <2> HIDE DEF v, w
  <2>5. w.score <= v.score /\ Rank(w.tier) <= Rank(v.tier)
    BY <2>2, <2>3, <2>4, StoredGrows, TierGrows DEF VerdictOK, RawOK
  <2> QED
    BY <2>2, <2>5 DEF v, w
<1>2. FleetInv => ("meta" \in plant =>
          \A a, b : MembersWorsen(a, b) =>
              \A s \in DOMAIN MetaFeatures(a) :
                  /\ s \in DOMAIN MetaFeatures(b)
                  /\ MetaSaid(b)[s].score <= MetaSaid(a)[s].score
                  /\ Rank(MetaSaid(b)[s].tier) <= Rank(MetaSaid(a)[s].tier))
  BY <1>1
<1> QED
  BY FleetInit, FleetNext, <1>2, PTL DEF Spec

(* Each pair of readings of which the runs say that the second is worse never *)
(* earns its component the better score, with any rows stored; and no aisle   *)
(* would gain if one of the components had the next worse tier.               *)
THEOREM WorseScores == Spec => []WorseNeverBetter
<1>1. ASSUME FleetInv, NEW w \in Worsenings, w.module \in plant
      PROVE  Scored(w.module, w.worse)[w.id].raw <= Scored(w.module, w.better)[w.id].raw
  <2>1. Worsens(w.module, w.better, w.worse, w.id)
    BY WorseningsAssumption
  <2> QED
    BY <1>1, <2>1, ScoredFalls
<1>2. ASSUME FleetInv, "meta" \in plant, NEW c \in Members.components, c.tier # "critical",
             NEW s \in DOMAIN MetaSaid(Members)
      PROVE  MetaSaid(WithTier(c, Tiers[Rank(c.tier) - 1]))[s].raw <= MetaSaid(Members)[s].raw
  <2> DEFINE tier == Tiers[Rank(c.tier) - 1]
  <2>1. c.tier \in TierNames
    BY <1>2, MembersOK, TiersAre DEF MetaBundle
  <2>2. tier \in TierNames /\ Rank(tier) <= Rank(c.tier)
    BY <1>2, <2>1, RankIs DEF TierNames, Tiers
  <2> HIDE DEF tier
  <2>3. MembersWorsen(Members, WithTier(c, tier))
    BY <1>2, <2>2, TierWorsens
  <2>4. StoreOK(store["meta"]) /\ s \in DOMAIN MetaFeatures(Members)
    BY <1>2, StoredRows DEF MetaSaid, MetaScore
  <2>5. MetaSaid(WithTier(c, tier))[s].raw <= MetaSaid(Members)[s].raw
    BY <2>3, <2>4, MetaFalls DEF MetaSaid
  <2> QED
    BY <2>5 DEF tier
<1>3. FleetInv => WorseNeverBetter
  BY <1>1, <1>2 DEF WorseNeverBetter
<1> QED
  BY FleetInit, FleetNext, <1>3, PTL DEF Spec
=============================================================================
