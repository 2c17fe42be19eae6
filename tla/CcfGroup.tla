------------------------------- MODULE CcfGroup -------------------------------
(***************************************************************************)
(* Groups of basic events with common causes (src/src/ccf_group.h,         *)
(* src/src/ccf_group.cc): members, distribution and factors that come one  *)
(* after the other, and the events that take the place of the members.  A  *)
(* probability is the share of the distribution, a fraction <<n, d>>.      *)
(***************************************************************************)
EXTENDS Integers, Sequences, FiniteSets, FiniteSetsExt

gcd[m \in Nat, n \in Nat] == IF n = 0 THEN m ELSE gcd[n, m % n]

lowest[p \in Nat \X Nat] ==
  LET common == gcd[p[1], p[2]] IN <<p[1] \div common, p[2] \div common>>

Times(p, q) == lowest[<<p[1] * q[1], p[2] * q[2]>>]

Plus(p, q) == lowest[<<p[1] * q[2] + q[1] * p[2], p[2] * q[2]>>]

Rest(p) == <<p[2] - p[1], p[2]>>

Over(p, q) == lowest[<<p[1] * q[2], p[2] * q[1]>>]

TotalOf(f) == MapThenFoldSet(Plus, <<0, 1>>, LAMBDA i : f[i], LAMBDA S : CHOOSE i \in S : TRUE, DOMAIN f)

ProductOf(f) == MapThenFoldSet(Times, <<1, 1>>, LAMBDA i : f[i], LAMBDA S : CHOOSE i \in S : TRUE, DOMAIN f)

-----------------------------------------------------------------------------
(* The place in the factors for a level that has not come yet.             *)
Missing == [level |-> 0, value |-> <<0, 1>>]

NewGroup(model) == [model |-> model, members |-> <<>>, distribution |-> FALSE,
                    factors |-> <<>>, last |-> 0]

AcceptsMember(group, names, name) ==
  ~group.distribution /\ group.factors = <<>> /\ name \notin names

WithMember(group, event) == [group EXCEPT !.members = Append(@, event)]

AcceptsDistribution(group) == ~group.distribution /\ Len(group.members) >= 2

WithDistribution(group) == [group EXCEPT !.distribution = TRUE]

MinLevel(group) ==
  CASE group.model = "beta-factor" -> Len(group.members)
    [] group.model = "MGL" -> 2
    [] group.model \in {"alpha-factor", "phi-factor"} -> 1

(* Seeded defect: the level after the last one in order, not the last one  *)
(* given.                                                                  *)
LevelOfHighest(group, level) ==
  IF level > 0 THEN level ELSE Len(group.factors) + MinLevel(group)

(* A factor without a level (0) is of the level after the last one given.  *)
LevelOf(group, level) ==
  IF level > 0 THEN level ELSE IF group.last > 0 THEN group.last + 1 ELSE MinLevel(group)

Index(group, level) == LevelOf(group, level) - MinLevel(group) + 1

AcceptsFactor(group, factor) ==
  LET index == Index(group, factor.level)
  IN /\ LevelOf(group, factor.level) \in MinLevel(group)..Len(group.members)
     /\ index \in DOMAIN group.factors => group.factors[index] = Missing

WithFactor(group, factor) ==
  LET index == Index(group, factor.level)
      level == LevelOf(group, factor.level)
      count == IF index > Len(group.factors) THEN index ELSE Len(group.factors)
  IN [group EXCEPT
        !.factors = [i \in 1..count |->
                       IF i = index THEN [level |-> level, value |-> factor.value]
                       ELSE IF i \in DOMAIN group.factors THEN group.factors[i] ELSE Missing],
        !.last = level]

(* Validate: no level is left out, every factor is a probability, and the  *)
(* factors of the phi model come to one.                                   *)
IsValidGroup(group) ==
  /\ group.distribution /\ group.members /= <<>> /\ group.factors /= <<>>
  /\ \A i \in DOMAIN group.factors :
       group.factors[i] /= Missing /\ group.factors[i].value[1] <= group.factors[i].value[2]
  /\ group.model = "phi-factor" =>
       LET total == TotalOf([i \in DOMAIN group.factors |-> group.factors[i].value])
       IN total[1] = total[2]

-----------------------------------------------------------------------------
(* CalculateCombinationReciprocal: one over the number of ways to choose k *)
(* of n.                                                                   *)
Reciprocal(n, k) ==
  LET more == IF n - k > k THEN n - k ELSE k
  IN ProductOf([i \in 1..(n - more) |-> <<i, more + i>>])

(* CalculateProbabilities of the four models, by the number of members that*)
(* an event takes out.                                                     *)
Probabilities(group) ==
  LET n == Len(group.members)
      factor == [i \in DOMAIN group.factors |-> group.factors[i].value]
      highest == group.factors[Len(factor)].level
      Each(k) == Reciprocal(n - 1, k - 1)
      weights == TotalOf([i \in DOMAIN factor |-> Times(<<i, 1>>, factor[i])])
  IN CASE group.model = "beta-factor" ->
            [k \in {1, highest} |-> IF k = 1 THEN Rest(factor[1]) ELSE factor[1]]
       [] group.model = "MGL" ->
            [k \in 1..highest |->
               Times(Times(Each(k), ProductOf([j \in 1..(k - 1) |-> factor[j]])),
                     IF k < highest THEN Rest(factor[k]) ELSE <<1, 1>>)]
       [] group.model = "alpha-factor" ->
            [k \in 1..highest |-> Times(Times(<<k, 1>>, Each(k)), Over(factor[k], weights))]
       [] group.model = "phi-factor" -> [k \in 1..highest |-> factor[k]]

(* ApplyModel: an event for every combination of members at every level    *)
(* that has a probability.                                                 *)
CcfEvents(group) ==
  LET probability == Probabilities(group)
      members == {group.members[i] : i \in DOMAIN group.members}
  IN UNION {{[members |-> taken, probability |-> probability[k]] : taken \in kSubset(k, members)} :
              k \in DOMAIN probability}

Proxied(events, member) == {e \in events : member \in e.members}
=============================================================================
