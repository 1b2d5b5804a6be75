--------------------------- MODULE MCSubscription ---------------------------
(* Instances of Subscription for TLC.                                      *)
EXTENDS Subscription, FiniteSets, TLC

\* Four bytes a topic, eight for the time stamp.
MCDataSize ==
  [lay \in Layout |-> 4 * Cardinality(lay.topics)
                        + IF lay.stamp THEN 8 ELSE 0]

\* Small packages of one topic, and one of all topics with the time stamp.
MCSelections ==
  {[topics |-> {t}, stamp |-> FALSE] : t \in Topics}
    \cup {[topics |-> Topics, stamp |-> TRUE]}

\* Topics of one size and addresses are interchangeable (safety runs only).
MCSymmetry == Permutations(Topics) \cup Permutations(Buffers)

=============================================================================
