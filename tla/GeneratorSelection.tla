-------------------------- MODULE GeneratorSelection --------------------------
(***************************************************************************)
(* The choice of Generators for one slot of a Batch                        *)
(* (restscope/request_generation/selection.py).                            *)
(*                                                                         *)
(* A configuration gives each input its positive candidates and lists the  *)
(* negative ones; a candidate is a chance and a strategy, a negative one   *)
(* also has its input and its rule.  Candidates stand in the order of      *)
(* their ids.  `score` gives the arms with feedback their attempts and     *)
(* rewards.  The draws are: whether an exceptional slot takes a negative   *)
(* Generator, whether an arm is explored, and a number that every choice   *)
(* takes modulo the length of its list.                                    *)
(***************************************************************************)
EXTENDS Constraints

Skipped == <<"skipped">>
NoChoice == [node |-> "none"]

PickFrom(s, k) == s[(k % Len(s)) + 1]

\* RewardStatistics of an arm; an untried arm has a mean of zero.
Score(score, arm) == IF arm \in DOMAIN score THEN score[arm] ELSE [attempts |-> 0, rewards |-> 0]
BetterMean(s, t) ==
  IF t.attempts = 0 THEN s.rewards > 0
  ELSE s.attempts > 0 /\ s.rewards * t.attempts > t.rewards * s.attempts

Greedy(candidates, kind, n, score) ==
  Filter(candidates, LAMBDA x : \A i \in DOMAIN candidates :
    ~BetterMean(Score(score, <<kind, n, candidates[i]>>), Score(score, <<kind, n, x>>)))

\* _epsilon_greedy
EpsilonGreedy(candidates, kind, n, score, draws) ==
  PickFrom(IF draws.explore THEN candidates ELSE Greedy(candidates, kind, n, score), draws.pick)

NegativeInputs(config) == {config.negative[i].node : i \in DOMAIN config.negative}
NegativesOf(config, n) == Filter(config.negative, LAMBDA x : x.node = n)

\* choose_case_generators; `ids` is the order of the inputs.
Choose(config, ids, constraints, mode, score, draws) ==
  LET action == IF mode = "happy_path" THEN "happy_path"
                ELSE IF draws.negative THEN "negative_generator" ELSE "ignored_constraint"
      inputs == Filter(ids, LAMBDA n : n \in NegativeInputs(config))
      target == PickFrom(inputs, draws.pick)
      negative == EpsilonGreedy(NegativesOf(config, target), "negative", target, score, draws)
      ignored == CASE action = "happy_path" -> {}
                   [] action = "negative_generator" -> AssociatedConstraints(constraints, target)
                   [] action = "ignored_constraint" -> {PickFrom(constraints, draws.pick).id}
      kept == Filter(constraints, LAMBDA r : r.id \notin ignored)
      positive == DOMAIN config.positive \ (IF action = "negative_generator" THEN {target} ELSE {})
      chosen == [n \in positive |->
                   EpsilonGreedy(config.positive[n], "positive", n, score, draws)]
  IN  IF \/ action = "negative_generator" /\ inputs = << >>
         \/ action = "ignored_constraint" /\ constraints = << >>
      THEN Skipped
      ELSE <<"selected",
             [action |-> action, positive |-> chosen,
              negative |-> IF action = "negative_generator" THEN negative ELSE NoChoice,
              generators |-> [n \in DOMAIN config.positive |->
                IF n \in positive THEN chosen[n]
                ELSE [chance |-> negative.chance, strategy |-> negative.strategy]],
              ignored |-> ignored,
              constraints |-> FlattenSeq([i \in DOMAIN kept |-> kept[i].constraints])]>>
=============================================================================
