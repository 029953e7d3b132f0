--------------------------- MODULE MCRadioConnection ---------------------------
(* Instances of RadioConnection for TLC.                                       *)
EXTENDS RadioConnection, TLC

\* Configurations, nodes and channels are interchangeable.
Symmetry == Permutations(Config) \cup Permutations(Node) \cup Permutations(Channel)
==============================================================================
