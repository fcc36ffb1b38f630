------------------------------ MODULE MCKafka ------------------------------
(* Values for the constants of Kafka: topics lists as in the README of the  *)
(* component (a wildcard and a name, with and without filters) and none.    *)
EXTENDS Kafka

CONSTANTS t1, t2, f1, k1, k2

Wildcard(fs) == [wild |-> TRUE, names |-> {t1, t2}, filters |-> fs]
Name(t, fs) == [wild |-> FALSE, names |-> {t}, filters |-> fs]

MCConfig ==
  {[csv |-> TRUE, entries |-> <<Wildcard({}), Name(t2, {f1})>>],
   [csv |-> TRUE, entries |-> <<Wildcard({f1})>>],
   [csv |-> FALSE, entries |-> <<>>]}

\* A name and a wildcard that no topic of the other entry matches.
TwoEntries ==
  {[csv |-> TRUE, entries |-> <<Name(t1, {}),
      [wild |-> TRUE, names |-> {t2}, filters |-> {}]>>]}

MCMessage ==
  {[topic |-> t1, keys |-> {k1}, passes |-> {f1}],
   [topic |-> t2, keys |-> {k1, k2}, passes |-> {}]}
=============================================================================
