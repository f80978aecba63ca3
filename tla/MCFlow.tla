------------------------------- MODULE MCFlow -------------------------------
(***************************************************************************)
(* Small instances of Flow: two independent stages, and a chain as         *)
(* src/src/ingest_flow.rs builds it.                                       *)
(***************************************************************************)
EXTENDS Flow, TLC

Twin == [s \in Stages |-> {}]

Chain == [s \in Stages |-> IF s = 1 THEN {} ELSE {s - 1}]

ProducerSymmetry == Permutations(Producers)

=============================================================================
