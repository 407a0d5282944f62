----------------------------- MODULE ShadowRules -----------------------------
(***************************************************************************)
(* The evaluation of the shadow rules (alerts/evaluator.py, policy.py):    *)
(* live on an observation (handler.py), and again when its exported event  *)
(* is replayed (replay.py; module Replay).  The rules are tried in         *)
(* ascending priority; the first that matches decides, and every rule      *)
(* tried is traced.                                                        *)
(*                                                                         *)
(* The priorities of a policy are distinct, as in COMMUNITY_POLICY, so     *)
(* ties by rule id do not arise; no rule looks at the kind of the event.   *)
(***************************************************************************)
EXTENDS Naturals, Sequences

CONSTANTS
  Lifecycle, Label, Zone,  \* values that occur in observations
  MaxObjects               \* bound: objects of an observation

ASSUME ShadowRulesAssumption == MaxObjects \in Nat

(* The three values of ObservedObject.stationary.                          *)
Stationary == {"yes", "no", "unknown"}

Fact ==
  [lifecycle : Lifecycle, labels : SUBSET Label, zones : SUBSET Zone,
   object_stationary : UNION {[1 .. n -> Stationary] : n \in 0 .. MaxObjects}]

-----------------------------------------------------------------------------
AnyFact == [lifecycles |-> {}, labels_any |-> {}, zones_any |-> {},
            exclude_labels |-> {}, all_stationary |-> "any"]

Rule(priority, outcome, match) ==
  [priority |-> priority, outcome |-> outcome, match |-> match]

COMMUNITY_POLICY ==
  { Rule(10, "escalate", [AnyFact EXCEPT !.labels_any = {"person"},
                                     !.zones_any = {"porch", "entrance", "perimeter"}]),
    Rule(20, "send",     [AnyFact EXCEPT !.labels_any = {"person"}]),
    Rule(30, "suppress", [AnyFact EXCEPT !.lifecycles = {"updated"},
                                     !.all_stationary = "yes",
                                     !.exclude_labels = {"person"}]),
    Rule(40, "send",     [AnyFact EXCEPT !.labels_any =
                            {"car", "truck", "bus", "motorcycle", "bicycle"}]) }

(* _stationary_matches: nothing known never matches.                       *)
StationaryMatches(required, values) ==
  \/ required = "any"
  \/ /\ values # <<>>
     /\ \A i \in DOMAIN values : values[i] # "unknown"
     /\ (required = "yes") = (\A i \in DOMAIN values : values[i] = "yes")

Allows(wanted, present) == wanted = {} \/ wanted \cap present # {}

(* _evaluate_rule *)
Matches(rule, fact) ==
  LET m == rule.match
  IN  /\ Allows(m.lifecycles, {fact.lifecycle})
      /\ Allows(m.labels_any, fact.labels)
      /\ Allows(m.zones_any, fact.zones)
      /\ m.exclude_labels \cap fact.labels = {}
      /\ StationaryMatches(m.all_stationary, fact.object_stationary)

(* ReplayEvent has no objects, so the sink has no stationary flags.        *)
ReplayFact(fact) == [fact EXCEPT !.object_stationary = <<>>]

-----------------------------------------------------------------------------
\* Variant: descending priority.
LastFirst(S) == CHOOSE r \in S : \A q \in S : q.priority <= r.priority

\* sorted by priority
NextRule(S) == CHOOSE r \in S : \A q \in S : r.priority <= q.priority

Tried(rule, matched) == [rule |-> rule, matched |-> matched]

(* evaluate: the outcome and the trace of the rules tried for it.          *)
Evaluate(fact) ==
  LET from[todo \in SUBSET COMMUNITY_POLICY] ==
        IF todo = {} THEN [outcome |-> "no_action", trace |-> <<>>]
        ELSE LET r == NextRule(todo)
             IN  IF Matches(r, fact)
                 THEN [outcome |-> r.outcome, trace |-> <<Tried(r, TRUE)>>]
                 ELSE [from[todo \ {r}] EXCEPT !.trace = <<Tried(r, FALSE)>> \o @]
  IN  from[COMMUNITY_POLICY]

-----------------------------------------------------------------------------
(* What an evaluation must look like, said without its loop: the rule of   *)
(* least priority among those that match decides, and the trace lists the  *)
(* rules up to it, all of them and in order.                               *)
Explained(fact) ==
  LET e == Evaluate(fact)
      tried == {e.trace[i].rule : i \in DOMAIN e.trace}
      matching == {r \in COMMUNITY_POLICY : Matches(r, fact)}
      first == CHOOSE r \in matching : \A q \in matching : r.priority <= q.priority
  IN  /\ \A i, j \in DOMAIN e.trace : i < j => e.trace[i].rule.priority < e.trace[j].rule.priority
      /\ \A i \in DOMAIN e.trace : e.trace[i].matched = (e.trace[i].rule \in matching)
      /\ tried = {r \in COMMUNITY_POLICY : matching # {} => r.priority <= first.priority}
      /\ e.outcome = IF matching = {} THEN "no_action" ELSE first.outcome

(* A person is escalated in a priority zone and sent elsewhere, whatever   *)
(* else the observation shows.                                             *)
PersonNotified(fact) ==
  "person" \in fact.labels =>
    Evaluate(fact).outcome =
      IF fact.zones \cap {"porch", "entrance", "perimeter"} # {} THEN "escalate" ELSE "send"

(* Both, for every fact.                                                   *)
RulesAreSound == \A fact \in Fact : Explained(fact) /\ PersonNotified(fact)
=============================================================================
