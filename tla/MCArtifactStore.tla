---------------------------- MODULE MCArtifactStore ----------------------------
(* Instances of ArtifactStore for TLC. *)
EXTENDS ArtifactStore, TLC

CONSTANTS w1, w2, run, plain, treated, c1, c2, truth

OneRun == [i \in Invocations |-> run]

(* Invocations that take the datasets of those before them.                  *)
Chain == [i \in Invocations |-> {j \in Invocations : j < i}]

(* All messages on one stream, or the last one on a stream of its own.       *)
MixedMessages == [i \in Invocations |-> IF i = 1 THEN <<"s">> ELSE <<"s", "t">>]
TwoMessages == [i \in Invocations |-> <<"s", "s">>]

OneKey == [i \in Invocations |-> {"k"}]
NoCommands == [i \in Invocations |-> {}]

Symmetry == Permutations(Writers)
===============================================================================
