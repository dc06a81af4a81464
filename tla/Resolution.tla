----------------------------- MODULE Resolution -----------------------------
(***************************************************************************)
(* The resolution stage: the four coordination mechanisms of ecora/eco.py, *)
(* the exact allocation of exact.py and the first feasible proposal of     *)
(* nulls.py.  Agents are numbered in the order of their identities, which  *)
(* is also the order of their proposals; a proposal is the sequence of the *)
(* actuators its steps write, empty for the explicit no-op.                *)
(***************************************************************************)
EXTENDS Integers, Sequences, FiniteSets, SequencesExt, FiniteSetsExt

CONSTANTS
    Agents,
    Scada,           \* those of the SCADA service; the others are AMI
    Cost             \* of a step on each actuator

AgeOrdered == {"expiring_marks", "yield_aging"}
Coordinated == AgeOrdered \cup {"reservation", "backoff"}

(* _resources *)
Touched(proposal) == ToSet(proposal)

Claims(proposals) == UNION {Touched(proposals[a]) : a \in DOMAIN proposals}
Contenders(proposals, resource) ==
    {a \in DOMAIN proposals : resource \in Touched(proposals[a])}

(* Since when an agent has been waiting, as an epoch.                        *)
Since(waiting, epoch, a) == IF a \in DOMAIN waiting THEN waiting[a] ELSE epoch

Oldest(waiting, epoch, S) ==
    {a \in S : \A b \in S :
        \/ Since(waiting, epoch, a) < Since(waiting, epoch, b)
        \/ Since(waiting, epoch, a) = Since(waiting, epoch, b) /\ a <= b}

(* The marks of a round are all written at its watermark, so every contender *)
(* has a live one.  A resource nobody contends for is won without a grant.   *)
Eligible(mechanism, grants, proposals, resource) ==
    LET contenders == Contenders(proposals, resource)
    IN  IF mechanism = "reservation" /\ Cardinality(contenders) > 1
        THEN contenders \cap grants[resource] ELSE contenders

(* Backoff: each agent draws one delay for the round.                        *)
Draws(mechanism, proposals) ==
    IF mechanism = "backoff"
    THEN {d \in [DOMAIN proposals -> DOMAIN proposals] :
            \A a, b \in DOMAIN proposals : a # b => d[a] # d[b]}
    ELSE {<<>>}

(* _settle *)
Winner(mechanism, grants, proposals, waiting, epoch, delays, resource) ==
    LET eligible == Eligible(mechanism, grants, proposals, resource)
    IN  IF mechanism = "backoff"
        THEN {a \in eligible : \A b \in eligible : delays[a] <= delays[b]}
        ELSE Oldest(waiting, epoch, eligible)

(* A proposal is admitted when it wins any resource it would write.          *)
AdmittedByMechanism(mechanism, grants, proposals, waiting, epoch, delays) ==
    UNION {Winner(mechanism, grants, proposals, waiting, epoch, delays, resource) :
             resource \in Claims(proposals)}

ConflictFree(proposals, S) ==
    \A a, b \in S : a # b => Touched(proposals[a]) \cap Touched(proposals[b]) = {}

Spent(proposals, S) ==
    MapThenSumSet(LAMBDA a : MapThenSumSet(LAMBDA r : Cost[r], Touched(proposals[a])), S)

(* _score: SCADA first, then AMI, then the cheaper, then the later names.    *)
Better(proposals, S, T) ==
    LET scada(U) == Cardinality(U \cap Scada)
        ami(U) == Cardinality(U \ Scada)
    IN  \/ scada(S) > scada(T)
        \/ scada(S) = scada(T) /\ ami(S) > ami(T)
        \/ /\ scada(S) = scada(T) /\ ami(S) = ami(T)
           /\ \/ Spent(proposals, S) < Spent(proposals, T)
              \/ /\ Spent(proposals, S) = Spent(proposals, T)
                 /\ Min(S \ T) > Min(T \ S)

(* One by construction: the order of the names leaves no tie.                *)
Allocations(proposals) ==
    {S \in SUBSET DOMAIN proposals :
        /\ ConflictFree(proposals, S)
        /\ \A T \in SUBSET DOMAIN proposals :
              T # S /\ ConflictFree(proposals, T) => Better(proposals, S, T)}

(* _command: the first step, when it may be issued.                          *)
CanCommand(proposal, issuable) == proposal # <<>> /\ Head(proposal) \in issuable

FirstFeasible(proposals, issuable) ==
    LET feasible == {a \in DOMAIN proposals : CanCommand(proposals[a], issuable)}
    IN  {a \in feasible : \A b \in feasible : a <= b}

(* The sets of agents a round may admit; only backoff leaves a choice.       *)
Admitted(mechanism, grants, proposals, waiting, epoch, issuable) ==
    IF mechanism = "null" THEN {FirstFeasible(proposals, issuable)}
    ELSE IF mechanism = "exact" THEN Allocations(proposals)
    ELSE {AdmittedByMechanism(mechanism, grants, proposals, waiting, epoch, delays) :
            delays \in Draws(mechanism, proposals)}

FollowingAnew(mechanism, proposals, waiting, epoch, admitted) ==
    IF mechanism \notin Coordinated THEN <<>> ELSE [a \in DOMAIN proposals |-> epoch]

(* Only agents that propose keep a clock; a winner's restarts.               *)
Following(mechanism, proposals, waiting, epoch, admitted) ==
    IF mechanism \notin Coordinated THEN <<>>
    ELSE [a \in DOMAIN proposals |->
            IF a \in admitted THEN epoch ELSE Since(waiting, epoch, a)]
=============================================================================
