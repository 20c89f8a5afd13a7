---------------------------- MODULE DuelRecords -----------------------------
(***************************************************************************)
(* contracts/DuelRecords.sol: duel results on chain, agreed between the two *)
(* sides or vouched for by witnesses.  A transaction is atomic and a revert *)
(* leaves no trace, so an action is a call that does not revert.            *)
(*                                                                         *)
(* A result is what EIP-712 hashes and signs; the hash is taken as          *)
(* injective, so a result stands for its own, and a signature for a result  *)
(* nobody signed recovers to nobody's address.                             *)
(***************************************************************************)
EXTENDS Naturals, FiniteSetsExt, SequencesExt

CONSTANTS
    Player,
    Id,             \* duel ids, bytes32(0) excepted
    Result,         \* bound: the results anybody draws up, right or wrong
    NoRecord,       \* bytes32(0)
    MaxTeam,        \* MAX_TEAM
    MaxWitnesses,   \* MAX_WITNESSES
    MaxCount        \* 2^32 - 1

Draft == [id : Id, teams : [1..2 -> Seq(Player)], kills : [1..2 -> Seq(Nat)],
          limit : Nat, winner : Nat]

ASSUME DuelAssumption ==
    /\ Result \subseteq Draft
    /\ NoRecord \notin Result
    /\ MaxTeam \in Nat /\ MaxWitnesses \in Nat /\ MaxCount \in Nat

VARIABLES
    recordOf, witnessedOf,
    agreed,         \* kills, wins and losses
    witnessed,      \* witnessedKills, witnessedWins and witnessedLosses
    signed,         \* who has signed what, off chain
    sentBy,         \* the Recorded events: who sent each agreed result
    witnesses       \* the Witnessed events: on whose signatures

vars == <<recordOf, witnessedOf, agreed, witnessed, signed, sentBy, witnesses>>

Nothing == [p \in Player |-> 0]
NoCounts == [kills |-> Nothing, wins |-> Nothing, losses |-> Nothing]

Init ==
    /\ recordOf = [d \in Id |-> NoRecord]
    /\ witnessedOf = [d \in Id |-> NoRecord]
    /\ agreed = NoCounts
    /\ witnessed = NoCounts
    /\ signed = {}
    /\ sentBy = {}
    /\ witnesses = {}

-----------------------------------------------------------------------------
In(r, side) == ToSet(r.teams[side])

\* Mutant of Distinct: a player may be on both sides.
DistinctWithin(r) == \A side \in 1..2 : IsInjective(r.teams[side])

Distinct(r) ==
    /\ \A side \in 1..2 : IsInjective(r.teams[side])
    /\ In(r, 1) \cap In(r, 2) = {}

Valid(r) ==
    /\ \A side \in 1..2 :
          /\ Len(r.teams[side]) \in 1..MaxTeam
          /\ Len(r.kills[side]) = Len(r.teams[side])
          /\ SumFunction(r.kills[side]) <= r.limit
    /\ r.winner \in 1..2
    /\ r.limit > 0
    /\ Distinct(r)

(***************************************************************************)
(* _tally, for both teams: what a result adds to the counts.               *)
(***************************************************************************)
Kills(r, p) ==
    SumFunction([side \in 1..2 |->
        SumFunctionOnSet(r.kills[side], {n \in DOMAIN r.teams[side] : r.teams[side][n] = p})])

Won(r, p) == p \in In(r, r.winner)
Lost(r, p) == p \in In(r, 3 - r.winner)

Tallied(counts, r) ==
    [kills  |-> [p \in Player |-> counts.kills[p] + Kills(r, p)],
     wins   |-> [p \in Player |-> counts.wins[p] + (IF Won(r, p) THEN 1 ELSE 0)],
     losses |-> [p \in Player |-> counts.losses[p] + (IF Lost(r, p) THEN 1 ELSE 0)]]

Fits(counts) ==
    \A p \in Player :
        counts.kills[p] <= MaxCount /\ counts.wins[p] <= MaxCount /\ counts.losses[p] <= MaxCount

-----------------------------------------------------------------------------
Sign(p, r) ==
    /\ signed' = signed \cup {<<p, r>>}
    /\ UNCHANGED <<recordOf, witnessedOf, agreed, witnessed, sentBy, witnesses>>

Agreed(r, sender, signer) ==
    \/ sender \in In(r, 1) /\ signer \in In(r, 2)
    \/ sender \notin In(r, 1) /\ sender \in In(r, 2) /\ signer \in In(r, 1)

\* Mutant of Record: a witnessed result that is agreed later joins both counts.
RecordTwice(sender, r, signer) ==
    /\ recordOf[r.id] = NoRecord
    /\ Valid(r)
    /\ <<signer, r>> \in signed
    /\ Agreed(r, sender, signer)
    /\ Fits(Tallied(agreed, r))
    /\ recordOf' = [recordOf EXCEPT ![r.id] = r]
    /\ agreed' = Tallied(agreed, r)
    /\ witnessed' = IF witnessedOf[r.id] = NoRecord THEN witnessed ELSE Tallied(witnessed, r)
    /\ sentBy' = sentBy \cup {<<sender, r>>}
    /\ UNCHANGED <<witnessedOf, signed, witnesses>>

Record(sender, r, signer) ==
    /\ recordOf[r.id] = NoRecord
    /\ Valid(r)
    /\ <<signer, r>> \in signed
    /\ Agreed(r, sender, signer)
    /\ Fits(Tallied(agreed, r))
    /\ recordOf' = [recordOf EXCEPT ![r.id] = r]
    /\ agreed' = Tallied(agreed, r)
    /\ sentBy' = sentBy \cup {<<sender, r>>}
    /\ UNCHANGED <<witnessedOf, witnessed, signed, witnesses>>

Witnesses(r, who) ==
    /\ Len(who) \in 1..MaxWitnesses
    /\ IsInjective(who)
    /\ ToSet(who) \cap (In(r, 1) \cup In(r, 2)) = {}

\* Mutant of CanWitness: a result both sides agreed on may be witnessed too.
CanWitnessAgreed(d) == witnessedOf[d] = NoRecord

CanWitness(d) == recordOf[d] = NoRecord /\ witnessedOf[d] = NoRecord

RecordWitnessed(sender, r, who) ==
    /\ CanWitness(r.id)
    /\ Valid(r)
    /\ sender \in In(r, 1) \cup In(r, 2)
    /\ \A p \in ToSet(who) : <<p, r>> \in signed
    /\ Witnesses(r, who)
    /\ Fits(Tallied(witnessed, r))
    /\ witnessedOf' = [witnessedOf EXCEPT ![r.id] = r]
    /\ witnessed' = Tallied(witnessed, r)
    /\ witnesses' = witnesses \cup {<<r, who>>}
    /\ UNCHANGED <<recordOf, agreed, signed, sentBy>>

Next ==
    \E p \in Player, r \in Result :
       \/ Sign(p, r)
       \/ \E signer \in Player : Record(p, r, signer)
       \/ \E who \in BoundedSeq(Player, MaxWitnesses) : RecordWitnessed(p, r, who)

Spec == Init /\ [][Next]_vars

-----------------------------------------------------------------------------
(***************************************************************************)
(* "Nobody can write down a win the losers did not sign for, and nobody can *)
(* write down a loss the winners did not sign for": behind every agreed     *)
(* result are two different people, one of each team, each of whom signed   *)
(* exactly this result or paid to have it recorded.                        *)
(***************************************************************************)
VouchedFor(p, r) == <<p, r>> \in signed \cup sentBy

BothSidesAgreed ==
    \A d \in Id : recordOf[d] # NoRecord =>
        LET r == recordOf[d]
        IN  /\ r.id = d
            /\ \E p \in In(r, 1), q \in In(r, 2) :
                  p # q /\ VouchedFor(p, r) /\ VouchedFor(q, r)

(***************************************************************************)
(* Behind every witnessed result is somebody who signed it and was in       *)
(* neither team, and an id that both sides agreed on is never witnessed     *)
(* afterwards.                                                             *)
(***************************************************************************)
WitnessesWereThere ==
    \A d \in Id : witnessedOf[d] # NoRecord =>
        LET r == witnessedOf[d]
        IN  /\ r.id = d
            /\ \E p \in Player \ (In(r, 1) \cup In(r, 2)) : <<p, r>> \in signed

AgreementIsLast ==
    [][\A d \in Id :
          /\ recordOf[d] # NoRecord => UNCHANGED <<recordOf[d], witnessedOf[d]>>
          /\ witnessedOf[d] # NoRecord => UNCHANGED witnessedOf[d]]_vars

(***************************************************************************)
(* Each count is what the results behind it add up to, each once: agreed    *)
(* ones in `kills', `wins' and `losses', witnessed ones apart, also when    *)
(* the same duel is first witnessed and agreed on later.                   *)
(***************************************************************************)
SumsUp(counts, of) ==
    LET results == {of[d] : d \in {e \in Id : of[e] # NoRecord}}
    IN  \A p \in Player :
           /\ counts.kills[p] = SumFunction([r \in results |-> Kills(r, p)])
           /\ counts.wins[p] = Cardinality({r \in results : Won(r, p)})
           /\ counts.losses[p] = Cardinality({r \in results : Lost(r, p)})

CountsAddUp == SumsUp(agreed, recordOf) /\ SumsUp(witnessed, witnessedOf)
=============================================================================
