--------------------------- MODULE MCCausalGroup ---------------------------
(* Bounds of the model-checking run of CausalGroup: three members, and who   *)
(* sends how much and who fails in each scenario.                            *)
EXTENDS CausalGroup

CONSTANTS a, b, c

Three == {a, b, c}

Counts(i, j, k) == [n \in Nodes |-> CASE n = a -> i [] n = b -> j [] n = c -> k]

FailureScenarios ==
    { \* nobody fails: dependencies, acknowledgements and collection
      [data |-> Counts(2, 2, 0), faulty |-> {}, suspects |-> {}],
      \* a member crashes or leaves after b may have seen its data and a has not
      [data |-> Counts(0, 1, 1), faulty |-> {c}, suspects |-> {}],
      \* that member is well, and the others fail it
      [data |-> Counts(0, 1, 1), faulty |-> {}, suspects |-> {c}],
      \* two members crash or leave: nobody is left to confirm the first failure
      [data |-> Counts(0, 0, 1), faulty |-> {b, c}, suspects |-> {}],
      \* one member crashes or leaves while another is failed though it is well
      [data |-> Counts(0, 0, 1), faulty |-> {b}, suspects |-> {c}] }
============================================================================
