-------------------------- MODULE DuelRecordsProofs --------------------------
(***************************************************************************)
(* Proofs about DuelRecords, for any players, ids, results and limits: who  *)
(* stands behind a record, that records stay, and that the counts are what  *)
(* the records add up to.                                                  *)
(*                                                                         *)
(* Then about DuelAgreement: what the town says is on chain is there, and   *)
(* what it puts before a wallet is signed by somebody who counts.           *)
(***************************************************************************)
EXTENDS DuelAgreement, DataProofs

(***************************************************************************)
(* The inductive invariant needs no more than that both maps are maps: the  *)
(* signatures and the events only ever grow, so what vouches for a record   *)
(* once does so for ever.                                                  *)
(***************************************************************************)
RecordTypes ==
    /\ recordOf \in [Id -> Result \cup {NoRecord}]
    /\ witnessedOf \in [Id -> Result \cup {NoRecord}]

RecordInv == RecordTypes /\ BothSidesAgreed /\ WitnessesWereThere

\* A result is filed under its own id, and is not the absence of one.
LEMMA ResultIsFiled ==
    ASSUME NEW r \in Result
    PROVE  r.id \in Id /\ r # NoRecord
BY DuelAssumption DEF DuelAssumption, Draft

\* The empty contract: nothing is recorded, so nothing has to be vouched for.
LEMMA RecordInit == Init => RecordInv
BY DEF Init, RecordInv, RecordTypes, BothSidesAgreed, WitnessesWereThere

(***************************************************************************)
(* A step that leaves both maps alone keeps the invariant if nobody's       *)
(* signature or call is forgotten.                                         *)
(***************************************************************************)
LEMMA VouchersLast ==
    ASSUME RecordInv, UNCHANGED <<recordOf, witnessedOf>>,
           signed \subseteq signed', sentBy \subseteq sentBy'
    PROVE  RecordInv'
BY DEF RecordInv, RecordTypes, BothSidesAgreed, WitnessesWereThere, VouchedFor, In

(***************************************************************************)
(* Both sides: the caller is on one, the signer on the other, and the two   *)
(* have nobody in common (Distinct), so they are two people.               *)
(***************************************************************************)
LEMMA TwoPeople ==
    ASSUME NEW r, NEW sender, NEW signer, Valid(r), Agreed(r, sender, signer)
    PROVE  /\ sender # signer
           /\ \/ sender \in In(r, 1) /\ signer \in In(r, 2)
              \/ signer \in In(r, 1) /\ sender \in In(r, 2)
BY DEF Valid, Distinct, Agreed

\* record: the new record is vouched for, the others are as they were.
LEMMA RecordKeeps ==
    ASSUME RecordInv, NEW p \in Player, NEW r \in Result, NEW signer \in Player,
           Record(p, r, signer)
    PROVE  RecordInv'
<1>1. /\ recordOf' = [recordOf EXCEPT ![r.id] = r]
      /\ UNCHANGED <<witnessedOf, signed>>
      /\ sentBy' = sentBy \cup {<<p, r>>}
      /\ <<signer, r>> \in signed
      /\ Valid(r) /\ Agreed(r, p, signer)
  BY DEF Record
<1>2. RecordTypes'
  BY <1>1, ResultIsFiled DEF RecordInv, RecordTypes
<1> DEFINE Backed(a, s) == <<a, s>> \in signed' \cup sentBy'
<1>3. Backed(p, r) /\ Backed(signer, r)
  BY <1>1
<1>4. BothSidesAgreed'
  <2> SUFFICES ASSUME NEW d \in Id, recordOf'[d] # NoRecord
               PROVE  /\ recordOf'[d].id = d
                      /\ \E a \in In(recordOf'[d], 1), b \in In(recordOf'[d], 2) :
                            a # b /\ Backed(a, recordOf'[d]) /\ Backed(b, recordOf'[d])
    BY DEF BothSidesAgreed, VouchedFor, In
  <2>1. CASE d = r.id
    <3>1. recordOf'[d] = r
      BY <1>1, <2>1 DEF RecordInv, RecordTypes
    <3>2. \E a \in In(r, 1), b \in In(r, 2) : a # b /\ Backed(a, r) /\ Backed(b, r)
      <4> HIDE DEF Backed
      <4> QED BY <1>1, <1>3, TwoPeople
    <3> QED BY <2>1, <3>1, <3>2
  <2>2. CASE d # r.id
    <3>1. recordOf'[d] = recordOf[d]
      BY <1>1, <2>2 DEF RecordInv, RecordTypes
    <3>2. PICK a \in In(recordOf[d], 1), b \in In(recordOf[d], 2) :
             a # b /\ VouchedFor(a, recordOf[d]) /\ VouchedFor(b, recordOf[d])
      BY <3>1 DEF RecordInv, BothSidesAgreed
    <3>3. Backed(a, recordOf[d]) /\ Backed(b, recordOf[d])
      BY <1>1, <3>2 DEF VouchedFor
    <3>4. recordOf[d].id = d
      BY <3>1 DEF RecordInv, BothSidesAgreed
    <3> HIDE DEF Backed
    <3> QED BY <3>1, <3>2, <3>3, <3>4
  <2> QED BY <2>1, <2>2
<1>5. WitnessesWereThere'
  BY <1>1 DEF RecordInv, WitnessesWereThere, In
<1> QED BY <1>2, <1>4, <1>5 DEF RecordInv

\* recordWitnessed: of the witnesses there is one, who signed and was not in it.
LEMMA WitnessedKeeps ==
    ASSUME RecordInv, NEW p \in Player, NEW r \in Result,
           NEW who \in BoundedSeq(Player, MaxWitnesses), RecordWitnessed(p, r, who)
    PROVE  RecordInv'
<1>1. /\ witnessedOf' = [witnessedOf EXCEPT ![r.id] = r]
      /\ UNCHANGED <<recordOf, signed, sentBy>>
      /\ \A q \in ToSet(who) : <<q, r>> \in signed
      /\ Witnesses(r, who)
  BY DEF RecordWitnessed
<1>2. RecordTypes'
  BY <1>1, ResultIsFiled DEF RecordInv, RecordTypes
<1>3. BothSidesAgreed'
  BY <1>1 DEF RecordInv, BothSidesAgreed, VouchedFor, In
<1>4. who[1] \in Player \ (In(r, 1) \cup In(r, 2)) /\ <<who[1], r>> \in signed
  <2>1. who \in Seq(Player) /\ Len(who) >= 1
    BY <1>1, DuelAssumption DEF Witnesses, BoundedSeq, SeqOf, DuelAssumption
  <2>2. who[1] \in ToSet(who) /\ who[1] \in Player
    BY <2>1 DEF ToSet
  <2> QED BY <1>1, <2>2 DEF Witnesses
<1>5. WitnessesWereThere'
  <2> SUFFICES ASSUME NEW d \in Id, witnessedOf'[d] # NoRecord
               PROVE  /\ witnessedOf'[d].id = d
                      /\ \E q \in Player \ (In(witnessedOf'[d], 1) \cup In(witnessedOf'[d], 2)) :
                            <<q, witnessedOf'[d]>> \in signed
    BY <1>1 DEF WitnessesWereThere, In
  <2>1. CASE d = r.id
    <3>1. witnessedOf'[d] = r
      BY <1>1, <2>1 DEF RecordInv, RecordTypes
    <3> QED BY <1>4, <2>1, <3>1
  <2>2. CASE d # r.id
    <3>1. witnessedOf'[d] = witnessedOf[d]
      BY <1>1, <2>2 DEF RecordInv, RecordTypes
    <3> QED BY <3>1 DEF RecordInv, WitnessesWereThere
  <2> QED BY <2>1, <2>2
<1> QED BY <1>2, <1>3, <1>5 DEF RecordInv

LEMMA RecordStep == RecordInv /\ [Next]_vars => RecordInv'
<1> SUFFICES ASSUME RecordInv, [Next]_vars PROVE RecordInv'
  OBVIOUS
<1>1. ASSUME NEW p \in Player, NEW r \in Result, Sign(p, r) PROVE RecordInv'
  BY <1>1, VouchersLast DEF Sign
<1>2. ASSUME NEW p \in Player, NEW r \in Result, NEW signer \in Player, Record(p, r, signer)
      PROVE  RecordInv'
  BY <1>2, RecordKeeps
<1>3. ASSUME NEW p \in Player, NEW r \in Result, NEW who \in BoundedSeq(Player, MaxWitnesses),
             RecordWitnessed(p, r, who)
      PROVE  RecordInv'
  BY <1>3, WitnessedKeeps
<1>4. CASE UNCHANGED vars
  BY <1>4, VouchersLast DEF vars
<1> QED BY <1>1, <1>2, <1>3, <1>4 DEF Next

LEMMA RecordsHold == Spec => []RecordInv
BY RecordInit, RecordStep, PTL DEF Spec

(***************************************************************************)
(* Behind every agreed result are two people, one of each team, who each    *)
(* signed exactly it or sent it (DuelRecords.record).                      *)
(***************************************************************************)
THEOREM AgreedBySides == Spec => []BothSidesAgreed
BY RecordsHold, PTL DEF RecordInv

(***************************************************************************)
(* Behind every witnessed result is somebody outside both teams who signed  *)
(* it (DuelRecords.recordWitnessed).                                       *)
(***************************************************************************)
THEOREM WitnessedByOthers == Spec => []WitnessesWereThere
BY RecordsHold, PTL DEF RecordInv

(***************************************************************************)
(* What is agreed is never changed and never witnessed afterwards, and what *)
(* is witnessed is never witnessed otherwise (the reverts of record and     *)
(* recordWitnessed).                                                       *)
(***************************************************************************)
THEOREM RecordsStay == Spec => AgreementIsLast
<1> DEFINE Stays == \A d \in Id :
                /\ recordOf[d] # NoRecord => UNCHANGED <<recordOf[d], witnessedOf[d]>>
                /\ witnessedOf[d] # NoRecord => UNCHANGED witnessedOf[d]
<1>1. RecordInv /\ [Next]_vars => [Stays]_vars
  <2> SUFFICES ASSUME RecordInv, Next, NEW d \in Id
               PROVE  /\ recordOf[d] # NoRecord => UNCHANGED <<recordOf[d], witnessedOf[d]>>
                      /\ witnessedOf[d] # NoRecord => UNCHANGED witnessedOf[d]
    OBVIOUS
  <2>1. ASSUME NEW p \in Player, NEW r \in Result, Sign(p, r)
        PROVE  UNCHANGED <<recordOf[d], witnessedOf[d]>>
    BY <2>1 DEF Sign
  <2>2. ASSUME NEW p \in Player, NEW r \in Result, NEW signer \in Player, Record(p, r, signer)
        PROVE  /\ recordOf[d] # NoRecord => UNCHANGED recordOf[d]
               /\ UNCHANGED witnessedOf[d]
    BY <2>2 DEF Record, RecordInv, RecordTypes
  <2>3. ASSUME NEW p \in Player, NEW r \in Result, NEW who \in BoundedSeq(Player, MaxWitnesses),
               RecordWitnessed(p, r, who)
        PROVE  /\ UNCHANGED recordOf[d]
               /\ recordOf[d] # NoRecord \/ witnessedOf[d] # NoRecord => UNCHANGED witnessedOf[d]
    BY <2>3 DEF RecordWitnessed, CanWitness, RecordInv, RecordTypes
  <2> QED BY <2>1, <2>2, <2>3 DEF Next
<1> QED BY <1>1, RecordsHold, PTL DEF Spec, AgreementIsLast
-----------------------------------------------------------------------------
(***************************************************************************)
(* The counts.  Behind them are finitely many results, each valid and under *)
(* its own id, so that one filed under a free id is not among them.         *)
(***************************************************************************)
Filed(of) == {of[d] : d \in {e \in Id : of[e] # NoRecord}}

Booked(counts, of) ==
    /\ of \in [Id -> Result \cup {NoRecord}]
    /\ IsFiniteSet(Filed(of))
    /\ \A s \in Filed(of) : s \in Result /\ Valid(s) /\ of[s.id] = s
    /\ SumsUp(counts, of)

\* A valid result gives everybody a number of kills.
LEMMA KillsType ==
    ASSUME NEW r \in Result, Valid(r), NEW p PROVE Kills(r, p) \in Nat
<1> DEFINE his(side) == {n \in DOMAIN r.teams[side] : r.teams[side][n] = p}
           f == [side \in 1..2 |-> SumFunctionOnSet(r.kills[side], his(side))]
<1>1. ASSUME NEW side \in 1..2 PROVE SumFunctionOnSet(r.kills[side], his(side)) \in Nat
  <2>1. r.teams[side] \in Seq(Player) /\ r.kills[side] \in Seq(Nat)
    BY DuelAssumption DEF DuelAssumption, Draft
  <2>2. Len(r.kills[side]) = Len(r.teams[side])
    BY DEF Valid
  <2>3. \A n \in DOMAIN r.teams[side] : r.kills[side][n] \in Nat
    BY <2>1, <2>2
  <2>4. IsFiniteSet(DOMAIN r.teams[side])
    <3>1. IsFiniteSet(1..Len(r.teams[side]))
      BY <2>1, FS_Interval
    <3> QED BY <2>1, <3>1
  <2>5. his(side) \in SUBSET (DOMAIN r.teams[side])
    OBVIOUS
  <2> HIDE DEF his
  <2> QED BY <2>3, <2>4, <2>5, SumType
<1>2. IsFiniteSet(1..2)
  <2>1. \A n \in Nat : IsFiniteSet(1..n)
    BY FS_Interval
  <2> QED BY <2>1
<1>3. \A side \in 1..2 : f[side] \in Nat
  BY <1>1
<1>4. DOMAIN f = 1..2 /\ Kills(r, p) = SumFunction(f)
  BY DEF Kills
<1> HIDE DEF f
<1> QED BY <1>2, <1>3, <1>4, SumType DEF SumFunction

(***************************************************************************)
(* A result under a free id adds to the counts what _tally adds.           *)
(***************************************************************************)
LEMMA OneMoreResult ==
    ASSUME NEW counts, NEW of, Booked(counts, of),
           NEW r \in Result, Valid(r), of[r.id] = NoRecord
    PROVE  Booked(Tallied(counts, r), [of EXCEPT ![r.id] = r])
<1> DEFINE new == [of EXCEPT ![r.id] = r]
           old == Filed(of)
<1>1. r.id \in Id /\ r # NoRecord
  BY ResultIsFiled
<1>2. new \in [Id -> Result \cup {NoRecord}] /\ new[r.id] = r
      /\ \A d \in Id : d # r.id => new[d] = of[d]
  BY <1>1 DEF Booked
<1>3. r \notin old
  BY <1>1 DEF Booked
<1>4. Filed(new) = old \cup {r}
  <2> HIDE DEF new
  <2>1. \A d \in Id : of[d] # NoRecord => d # r.id
    OBVIOUS
  <2>2. ASSUME NEW x \in Filed(new) PROVE x \in old \cup {r}
    <3>1. PICK d \in Id : new[d] # NoRecord /\ x = new[d]
      BY DEF Filed
    <3> QED BY <1>2, <3>1 DEF Filed
  <2>3. ASSUME NEW x \in old PROVE x \in Filed(new)
    <3>1. PICK d \in Id : of[d] # NoRecord /\ x = of[d]
      BY DEF Filed
    <3> QED BY <1>2, <2>1, <3>1 DEF Filed
  <2>4. r \in Filed(new)
    BY <1>1, <1>2 DEF Filed
  <2> HIDE DEF old
  <2> QED BY <2>2, <2>3, <2>4
<1>5. IsFiniteSet(old) /\ IsFiniteSet(old \cup {r})
  BY FS_AddElement DEF Booked
<1>6. \A s \in old : s \in Result /\ Valid(s) /\ of[s.id] = s
  BY DEF Booked
<1>7. ASSUME NEW s \in old \cup {r} PROVE s \in Result /\ Valid(s) /\ new[s.id] = s
  <2>1. CASE s = r
    BY <1>2, <2>1
  <2>2. CASE s \in old
    <3>1. s.id \in Id /\ s.id # r.id
      BY <1>1, <1>6, <2>2, ResultIsFiled
    <3> HIDE DEF new
    <3> QED BY <1>2, <1>6, <2>2, <3>1
  <2> QED BY <2>1, <2>2
<1>8. ASSUME NEW p \in Player
      PROVE  /\ Tallied(counts, r).kills[p] = SumFunction([s \in old \cup {r} |-> Kills(s, p)])
             /\ Tallied(counts, r).wins[p] = Cardinality({s \in old \cup {r} : Won(s, p)})
             /\ Tallied(counts, r).losses[p] = Cardinality({s \in old \cup {r} : Lost(s, p)})
  <2>1. /\ Tallied(counts, r).kills[p] = counts.kills[p] + Kills(r, p)
        /\ Tallied(counts, r).wins[p] = counts.wins[p] + (IF Won(r, p) THEN 1 ELSE 0)
        /\ Tallied(counts, r).losses[p] = counts.losses[p] + (IF Lost(r, p) THEN 1 ELSE 0)
    BY DEF Tallied
  <2>2. /\ counts.kills[p] = SumFunction([s \in old |-> Kills(s, p)])
        /\ counts.wins[p] = Cardinality({s \in old : Won(s, p)})
        /\ counts.losses[p] = Cardinality({s \in old : Lost(s, p)})
    BY DEF Booked, SumsUp, Filed
  <2> HIDE DEF old, new
  <2>3. SumFunction([s \in old \cup {r} |-> Kills(s, p)])
           = SumFunction([s \in old |-> Kills(s, p)]) + Kills(r, p)
    <3> DEFINE f == [s \in old |-> Kills(s, p)]
               g == [s \in old \cup {r} |-> Kills(s, p)]
    <3>1. /\ DOMAIN f = old /\ DOMAIN g = old \cup {r} /\ g[r] = Kills(r, p)
          /\ \A s \in old : f[s] = Kills(s, p) /\ g[s] = f[s]
      OBVIOUS
    <3> HIDE DEF f, g
    <3>2. \A s \in old : f[s] \in Nat /\ g[s] = f[s]
      BY <1>6, <3>1, KillsType
    <3>3. \A s \in old \cup {r} : g[s] \in Nat
      BY <1>6, <3>1, KillsType
    <3>4. SumFunctionOnSet(g, old \cup {r}) = g[r] + SumFunctionOnSet(g, old)
      BY <1>3, <1>5, <3>3, SumAdd
    <3>5. SumFunctionOnSet(g, old) = SumFunctionOnSet(f, old)
      BY <1>5, <3>2, SumSame
    <3>6. SumFunctionOnSet(f, old) \in Nat /\ g[r] \in Nat
      BY <1>5, <3>2, <3>3, SumType
    <3>7. SumFunction(g) = SumFunction(f) + Kills(r, p)
      BY <3>1, <3>4, <3>5, <3>6 DEF SumFunction
    <3> QED BY <3>7 DEF f, g
  <2>4. ASSUME NEW W
        PROVE  Cardinality({s \in old \cup {r} : s \in W})
                  = Cardinality({s \in old : s \in W}) + (IF r \in W THEN 1 ELSE 0)
    <3> DEFINE w == {s \in old : s \in W}
    <3>1. IsFiniteSet(w) /\ r \notin w
      BY <1>3, <1>5, FS_Subset
    <3>2. CASE r \in W
      <4>1. {s \in old \cup {r} : s \in W} = w \cup {r}
        BY <3>2
      <4> HIDE DEF w
      <4>2. Cardinality(w \cup {r}) = Cardinality(w) + 1
        BY <3>1, FS_AddElement
      <4> QED BY <3>2, <4>1, <4>2 DEF w
    <3>3. CASE r \notin W
      <4>1. {s \in old \cup {r} : s \in W} = w
        BY <3>3
      <4>2. Cardinality(w) \in Nat
        BY <3>1, FS_CardinalityType
      <4> QED BY <3>3, <4>1, <4>2
    <3> QED BY <3>2, <3>3
  <2>5. Cardinality({s \in old \cup {r} : Won(s, p)})
           = Cardinality({s \in old : Won(s, p)}) + (IF Won(r, p) THEN 1 ELSE 0)
    <3> DEFINE W == {s \in old \cup {r} : Won(s, p)}
    <3>1. /\ {s \in old \cup {r} : s \in W} = {s \in old \cup {r} : Won(s, p)}
          /\ {s \in old : s \in W} = {s \in old : Won(s, p)} /\ (r \in W <=> Won(r, p))
      OBVIOUS
    <3> HIDE DEF W
    <3>2. Cardinality({s \in old \cup {r} : s \in W})
             = Cardinality({s \in old : s \in W}) + (IF r \in W THEN 1 ELSE 0)
      BY <2>4
    <3> QED BY <3>1, <3>2
  <2>6. Cardinality({s \in old \cup {r} : Lost(s, p)})
           = Cardinality({s \in old : Lost(s, p)}) + (IF Lost(r, p) THEN 1 ELSE 0)
    <3> DEFINE W == {s \in old \cup {r} : Lost(s, p)}
    <3>1. /\ {s \in old \cup {r} : s \in W} = {s \in old \cup {r} : Lost(s, p)}
          /\ {s \in old : s \in W} = {s \in old : Lost(s, p)} /\ (r \in W <=> Lost(r, p))
      OBVIOUS
    <3> HIDE DEF W
    <3>2. Cardinality({s \in old \cup {r} : s \in W})
             = Cardinality({s \in old : s \in W}) + (IF r \in W THEN 1 ELSE 0)
      BY <2>4
    <3> QED BY <3>1, <3>2
  <2> QED BY <2>1, <2>2, <2>3, <2>5, <2>6
<1>9. SumsUp(Tallied(counts, r), new)
  <2>1. {new[d] : d \in {e \in Id : new[e] # NoRecord}} = old \cup {r}
    BY <1>4 DEF Filed
  <2> HIDE DEF new, old
  <2> QED BY <1>8, <2>1 DEF SumsUp
<1> HIDE DEF new, old
<1>10. Booked(Tallied(counts, r), new)
  BY <1>2, <1>4, <1>5, <1>7, <1>9 DEF Booked
<1> QED BY <1>10 DEF new

\* An empty contract counts nothing.
LEMMA NothingBooked == Booked(NoCounts, [d \in Id |-> NoRecord])
<1> DEFINE of == [d \in Id |-> NoRecord]
<1>1. Filed(of) = {} /\ of \in [Id -> Result \cup {NoRecord}]
  BY DEF Filed
<1>2. IsFiniteSet({}) /\ Cardinality({}) = 0
  BY FS_EmptySet
<1>3. \A p \in Player : SumFunction([s \in {} |-> Kills(s, p)]) = 0
  BY SumEmpty DEF SumFunction
<1>4. SumsUp(NoCounts, of)
  <2>1. {of[d] : d \in {e \in Id : of[e] # NoRecord}} = {}
    OBVIOUS
  <2>2. \A p \in Player : {s \in {} : Won(s, p)} = {} /\ {s \in {} : Lost(s, p)} = {}
    OBVIOUS
  <2> HIDE DEF of
  <2> QED BY <1>2, <1>3, <2>1, <2>2 DEF SumsUp, NoCounts, Nothing
<1> HIDE DEF of
<1>5. Booked(NoCounts, of)
  BY <1>1, <1>2, <1>4 DEF Booked
<1> QED BY <1>5 DEF of

CountInv == Booked(agreed, recordOf) /\ Booked(witnessed, witnessedOf)

LEMMA CountStep == CountInv /\ [Next]_vars => CountInv'
<1> SUFFICES ASSUME CountInv, [Next]_vars
             PROVE  Booked(agreed', recordOf') /\ Booked(witnessed', witnessedOf')
  BY DEF CountInv, Booked, SumsUp, Filed
<1>1. ASSUME UNCHANGED <<recordOf, witnessedOf, agreed, witnessed>>
      PROVE  Booked(agreed', recordOf') /\ Booked(witnessed', witnessedOf')
  BY <1>1 DEF CountInv
<1>2. ASSUME NEW p \in Player, NEW r \in Result, Sign(p, r)
      PROVE  Booked(agreed', recordOf') /\ Booked(witnessed', witnessedOf')
  BY <1>1, <1>2 DEF Sign
<1>3. ASSUME NEW p \in Player, NEW r \in Result, NEW signer \in Player, Record(p, r, signer)
      PROVE  Booked(agreed', recordOf') /\ Booked(witnessed', witnessedOf')
  <2>1. /\ recordOf[r.id] = NoRecord /\ Valid(r) /\ UNCHANGED <<witnessedOf, witnessed>>
        /\ recordOf' = [recordOf EXCEPT ![r.id] = r] /\ agreed' = Tallied(agreed, r)
    BY <1>3 DEF Record
  <2>2. Booked(agreed, recordOf) /\ Booked(witnessed, witnessedOf)
    BY DEF CountInv
  <2>3. Booked(Tallied(agreed, r), [recordOf EXCEPT ![r.id] = r])
    BY <2>1, <2>2, OneMoreResult
  <2> QED BY <2>1, <2>2, <2>3
<1>4. ASSUME NEW p \in Player, NEW r \in Result, NEW who \in BoundedSeq(Player, MaxWitnesses),
             RecordWitnessed(p, r, who)
      PROVE  Booked(agreed', recordOf') /\ Booked(witnessed', witnessedOf')
  <2>1. /\ witnessedOf[r.id] = NoRecord /\ Valid(r) /\ UNCHANGED <<recordOf, agreed>>
        /\ witnessedOf' = [witnessedOf EXCEPT ![r.id] = r] /\ witnessed' = Tallied(witnessed, r)
    BY <1>4 DEF RecordWitnessed, CanWitness
  <2>2. Booked(agreed, recordOf) /\ Booked(witnessed, witnessedOf)
    BY DEF CountInv
  <2>3. Booked(Tallied(witnessed, r), [witnessedOf EXCEPT ![r.id] = r])
    BY <2>1, <2>2, OneMoreResult
  <2> QED BY <2>1, <2>2, <2>3
<1>5. CASE UNCHANGED vars
  BY <1>1, <1>5 DEF vars
<1> QED BY <1>2, <1>3, <1>4, <1>5 DEF Next

(***************************************************************************)
(* Each count is what the results behind it add up to, each once, agreed    *)
(* and witnessed ones apart (_tally, record, recordWitnessed).             *)
(***************************************************************************)
THEOREM CountsCorrect == Spec => []CountsAddUp
<1>1. Init => CountInv
  BY NothingBooked DEF Init, CountInv
<1>2. CountInv => CountsAddUp
  BY DEF CountInv, Booked, CountsAddUp
<1> QED BY <1>1, <1>2, CountStep, PTL DEF Spec

-----------------------------------------------------------------------------
(***************************************************************************)
(* DuelAgreement.  Its steps are steps of DuelRecords or leave the contract *)
(* alone, so what is recorded stays recorded, and what was signed, signed.  *)
(***************************************************************************)
LEMMA TownLeavesChain == [AgreementNext]_<<vars, townVars>> => [Next]_vars
BY DEF AgreementNext

(***************************************************************************)
(* So with the town, its desk and the wallets around it the contract is      *)
(* still the contract, and what is proved of Spec holds of AgreementSpec.    *)
(***************************************************************************)
THEOREM TownUsesContract == AgreementSpec => Spec
BY TownLeavesChain, PTL DEF AgreementSpec, AgreementInit, Spec

LEMMA ChainGrows ==
    ASSUME RecordTypes, [Next]_vars
    PROVE  /\ RecordTypes'
           /\ signed \subseteq signed'
           /\ \A d \in Id : /\ recordOf[d] # NoRecord => recordOf'[d] # NoRecord
                            /\ witnessedOf[d] # NoRecord => witnessedOf'[d] # NoRecord
<1>1. ASSUME NEW p \in Player, NEW r \in Result, Sign(p, r)
      PROVE  UNCHANGED <<recordOf, witnessedOf>> /\ signed \subseteq signed'
  BY <1>1 DEF Sign
<1>2. ASSUME NEW p \in Player, NEW r \in Result, NEW signer \in Player, Record(p, r, signer)
      PROVE  /\ recordOf' = [recordOf EXCEPT ![r.id] = r]
             /\ UNCHANGED <<witnessedOf, signed>>
  BY <1>2 DEF Record
<1>3. ASSUME NEW p \in Player, NEW r \in Result, NEW who \in BoundedSeq(Player, MaxWitnesses),
             RecordWitnessed(p, r, who)
      PROVE  /\ witnessedOf' = [witnessedOf EXCEPT ![r.id] = r]
             /\ UNCHANGED <<recordOf, signed>>
  BY <1>3 DEF RecordWitnessed
<1>4. CASE UNCHANGED vars
  BY <1>4 DEF vars, RecordTypes
<1> QED BY <1>1, <1>2, <1>3, <1>4, ResultIsFiled DEF Next, RecordTypes

(***************************************************************************)
(* The invariant.  A signature the town keeps, or has copied for an errand,  *)
(* is the one of the account it is kept for; an errand that asks or sends    *)
(* does so for a fighter, and asks only the other team.                     *)
(***************************************************************************)
Signatures == [Player -> Player \cup {Unsigned}]
TownResult == [known : BOOLEAN, signatures : Signatures, asked : Seq(Player \ Fighters),
               witnesses : Signatures, onChain : BOOLEAN, witnessedOnChain : BOOLEAN]

Genuine(r) ==
    /\ r \in TownResult
    /\ \A a \in Player :
          /\ r.signatures[a] # Unsigned => r.signatures[a] = a /\ <<a, Fought>> \in signed
          /\ r.witnesses[a] # Unsigned => r.witnesses[a] = a /\ <<a, Fought>> \in signed

Behind(r) ==
    /\ r.onChain => recordOf[Fought.id] # NoRecord
    /\ r.witnessedOnChain => witnessedOf[Fought.id] # NoRecord

\* An errand v may have.
Proper(v, e) ==
    /\ e = Errand(e.doing, e.r, e.left, e.with)
    /\ Genuine(e.r)
    /\ e.doing \in {"look", "ask"} => AddressOf[v] \in Fighters
    /\ e.doing = "ask" => \A p \in e.left : AddressOf[p] \in OtherTeam(AddressOf[v])
    /\ e.doing = "send" =>
          \A s \in ToSet(e.with) : <<s, Fought>> \in signed /\ Agreed(Fought, AddressOf[v], s)
    /\ e.doing = "sendWitnessed" =>
          \A s \in ToSet(e.with) : <<s, Fought>> \in signed /\ s \notin Fighters

TownInv ==
    /\ RecordTypes
    /\ Genuine(result) /\ Behind(result)
    /\ DOMAIN desk = Visitor /\ \A v \in Visitor : Proper(v, desk[v])
    /\ desk = [v \in Visitor |-> desk[v]]

\* What a wallet is asked to send is signed by somebody who counts.
OffersAreSigned ==
    \A v \in Visitor :
       /\ desk[v].doing = "send" =>
             \A s \in ToSet(desk[v].with) : <<s, Fought>> \in signed /\ Agreed(Fought, AddressOf[v], s)
       /\ desk[v].doing = "sendWitnessed" =>
             \A s \in ToSet(desk[v].with) : <<s, Fought>> \in signed /\ s \notin Fighters

LEMMA NotFoughtIsGenuine == Genuine(NotFought)
<1>1. NotFought.signatures = [p \in Player |-> Unsigned]
      /\ NotFought.witnesses = [p \in Player |-> Unsigned]
  BY DEF NotFought
<1>2. NotFought \in TownResult
  BY DEF NotFought, TownResult, Signatures
<1> HIDE DEF NotFought
<1> QED BY <1>1, <1>2 DEF Genuine

LEMMA ErrandIs ==
    ASSUME NEW doing, NEW r, NEW left, NEW with, NEW e, e = Errand(doing, r, left, with)
    PROVE  /\ e.doing = doing /\ e.r = r /\ e.left = left /\ e.with = with
           /\ e = Errand(e.doing, e.r, e.left, e.with)
BY DEF Errand

LEMMA IdleIsProper == ASSUME NEW v \in Visitor PROVE Proper(v, Idle)
<1>1. /\ Idle.doing = "idle" /\ Idle.r = NotFought
      /\ Idle = Errand(Idle.doing, Idle.r, Idle.left, Idle.with)
  BY ErrandIs DEF Idle
<1> QED BY <1>1, NotFoughtIsGenuine DEF Proper

\* A good answer is the signature of the account that gave it.
LEMMA GoodAnswer ==
    ASSUME NEW v \in Visitor, NEW s \in Signature, SignedFor(AddressOf[v], s)
    PROVE  /\ s = AddressOf[v] /\ s \in Player
           /\ <<s, Fought>> \in signed
BY VisitorAssumption DEF VisitorAssumption, SignedFor, Signature

LEMMA FoughtIn == \A side \in 1..2 : In(Fought, side) \subseteq Player
BY DuelAssumption, VisitorAssumption DEF DuelAssumption, VisitorAssumption, Draft, In, ToSet

LEMMA SignatureKept ==
    ASSUME NEW r, Genuine(r), NEW v \in Visitor, NEW s \in Signature,
           SignedFor(AddressOf[v], s)
    PROVE  /\ Genuine([r EXCEPT !.signatures[AddressOf[v]] = s])
           /\ Genuine([r EXCEPT !.witnesses[AddressOf[v]] = s])
<1>1. s = AddressOf[v] /\ s \in Player /\ <<s, Fought>> \in signed
  BY GoodAnswer
<1> DEFINE q == [r EXCEPT !.signatures[AddressOf[v]] = s]
           w == [r EXCEPT !.witnesses[AddressOf[v]] = s]
<1>2. r \in TownResult
  BY DEF Genuine
<1>3. /\ q \in TownResult /\ q.witnesses = r.witnesses
      /\ q.signatures = [r.signatures EXCEPT ![s] = s]
  BY <1>1, <1>2 DEF TownResult, Signatures
<1>4. /\ w \in TownResult /\ w.signatures = r.signatures
      /\ w.witnesses = [r.witnesses EXCEPT ![s] = s]
  BY <1>1, <1>2 DEF TownResult, Signatures
<1>5. r.signatures \in Signatures /\ r.witnesses \in Signatures
  BY <1>2 DEF TownResult
<1> HIDE DEF q, w
<1>6. Genuine(q)
  BY <1>1, <1>3, <1>5 DEF Genuine, Signatures
<1>7. Genuine(w)
  BY <1>1, <1>4, <1>5 DEF Genuine, Signatures
<1> QED BY <1>6, <1>7 DEF q, w

LEMMA FlagKept ==
    ASSUME NEW r, Genuine(r)
    PROVE  /\ Genuine([r EXCEPT !.known = TRUE])
           /\ Genuine([r EXCEPT !.onChain = TRUE])
           /\ Genuine([r EXCEPT !.witnessedOnChain = TRUE])
           /\ \A who \in Seq(Player \ Fighters) : Genuine([r EXCEPT !.asked = who])
BY DEF Genuine, TownResult

-----------------------------------------------------------------------------
LEMMA AgreementStarts == AgreementInit => TownInv
<1> SUFFICES ASSUME AgreementInit PROVE TownInv
  OBVIOUS
<1>1. RecordTypes
  BY DEF AgreementInit, Init, RecordTypes
<1>2. Genuine(result) /\ Behind(result)
  BY NotFoughtIsGenuine DEF AgreementInit, TownInit, Behind, NotFought
<1>3. desk = [v \in Visitor |-> Idle]
  BY DEF AgreementInit, TownInit
<1> QED BY <1>1, <1>2, <1>3, IdleIsProper DEF TownInv

\* Errands do not change as the chain grows.
LEMMA ChainStep ==
    ASSUME TownInv, [Next]_vars, UNCHANGED townVars
    PROVE  TownInv'
<1>1. /\ RecordTypes' /\ signed \subseteq signed'
      /\ \A d \in Id : /\ recordOf[d] # NoRecord => recordOf'[d] # NoRecord
                       /\ witnessedOf[d] # NoRecord => witnessedOf'[d] # NoRecord
  BY ChainGrows DEF TownInv
<1>2. result' = result /\ desk' = desk
  BY DEF townVars
<1>3. Fought.id \in Id
  BY VisitorAssumption, ResultIsFiled DEF VisitorAssumption
<1>4. Genuine(result)'
  BY <1>1, <1>2 DEF TownInv, Genuine
<1>5. Behind(result)'
  BY <1>1, <1>2, <1>3 DEF TownInv, Behind
<1>6. ASSUME NEW v \in Visitor PROVE Proper(v, desk[v])'
  <2>1. Proper(v, desk[v])
    BY DEF TownInv
  <2>2. Genuine(desk[v].r)'
    BY <1>1, <1>2, <2>1 DEF Proper, Genuine
  <2> QED BY <1>1, <1>2, <2>1, <2>2 DEF Proper
<1>7. DOMAIN desk' = Visitor /\ desk' = [v \in Visitor |-> desk'[v]]
  BY <1>2 DEF TownInv
<1> QED BY <1>1, <1>4, <1>5, <1>6, <1>7 DEF TownInv

(***************************************************************************)
(* A step of the town: what it keeps afterwards, and the errands it leaves,  *)
(* have to be good by what is signed and recorded already.                  *)
(***************************************************************************)
LEMMA TownKeeps ==
    ASSUME TownInv, UNCHANGED vars, Genuine(result'), Behind(result'),
           \/ desk' = desk
           \/ \E v \in Visitor : \E e : desk' = [desk EXCEPT ![v] = e] /\ Proper(v, e)
    PROVE  TownInv'
<1>1. UNCHANGED <<recordOf, witnessedOf, signed>>
  BY DEF vars
<1>2. RecordTypes'
  BY <1>1 DEF TownInv, RecordTypes
<1>3. Genuine(result)' /\ Behind(result)'
  BY <1>1 DEF Genuine, Behind
<1>4. /\ DOMAIN desk' = Visitor /\ desk' = [v \in Visitor |-> desk'[v]]
      /\ \A v \in Visitor : Proper(v, desk'[v])
  BY DEF TownInv
<1>5. ASSUME NEW v \in Visitor PROVE Proper(v, desk[v])'
  <2>1. Proper(v, desk'[v])
    BY <1>4
  <2>2. Genuine(desk[v].r)'
    BY <1>1, <2>1 DEF Proper, Genuine
  <2> QED BY <1>1, <2>1, <2>2 DEF Proper
<1> QED BY <1>2, <1>3, <1>4, <1>5 DEF TownInv

-----------------------------------------------------------------------------
\* The steps that ask for agreement and for witnesses.
LEMMA AnsweredKeeps ==
    ASSUME TownInv, NEW now, NEW left, Genuine(now), Behind(now), AllAnswered(now, left)
    PROVE  Genuine(result') /\ Behind(result')
<1>1. CASE result' = now
  BY <1>1
<1>2. ASSUME NEW bystanders \in SUBSET Of(Player \ Fighters), NEW order \in SetToSeqs(bystanders),
             result' = [now EXCEPT !.asked = [n \in DOMAIN order |-> AddressOf[order[n]]]]
      PROVE  Genuine(result') /\ Behind(result')
  <2>1. [n \in DOMAIN order |-> AddressOf[order[n]]] \in Seq(Player \ Fighters)
    <3>1. Cardinality(bystanders) \in Nat
      BY VisitorAssumption, FS_Subset, FS_CardinalityType DEF VisitorAssumption, Of
    <3>2. order \in [1..Cardinality(bystanders) -> bystanders]
      BY DEF SetToSeqs
    <3>3. \A v \in bystanders : AddressOf[v] \in Player \ Fighters
      BY DEF Of
    <3>4. [n \in DOMAIN order |-> AddressOf[order[n]]] \in [1..Cardinality(bystanders) -> Player \ Fighters]
      BY <3>2, <3>3
    <3> QED BY <3>1, <3>4
  <2>2. /\ result'.onChain = now.onChain /\ result'.witnessedOnChain = now.witnessedOnChain
    BY <1>2 DEF Genuine, TownResult
  <2> QED BY <1>2, <2>1, <2>2, FlagKept DEF Behind
<1> QED BY <1>1, <1>2 DEF AllAnswered

LEMMA SignatureBehind ==
    ASSUME NEW r, Genuine(r), Behind(r), NEW a, NEW s
    PROVE  Behind([r EXCEPT !.signatures[a] = s]) /\ Behind([r EXCEPT !.witnesses[a] = s])
BY DEF Genuine, TownResult, Behind

LEMMA AskingKeeps ==
    ASSUME TownInv, UNCHANGED vars,
           \/ Ends
           \/ \E v \in Visitor :
                 \/ DoesNotAnswer(v) \/ DoesNotWitness(v)
                 \/ \E s \in Signature : Answers(v, s) \/ Witnessed(v, s)
    PROVE  TownInv'
<1>1. Genuine(result) /\ Behind(result)
  BY DEF TownInv
<1>2. CASE Ends
  <2>1. /\ result' = [result EXCEPT !.known = TRUE] /\ desk' = desk
    BY <1>2 DEF Ends
  <2>2. Behind(result')
    BY <1>1, <2>1 DEF Genuine, TownResult, Behind
  <2> QED BY <1>1, <2>1, <2>2, FlagKept, TownKeeps
<1>3. ASSUME NEW v \in Visitor, DoesNotAnswer(v) PROVE TownInv'
  BY <1>1, <1>3, AnsweredKeeps, TownKeeps DEF DoesNotAnswer
<1>4. ASSUME NEW v \in Visitor, DoesNotWitness(v) PROVE TownInv'
  BY <1>1, <1>4, TownKeeps DEF DoesNotWitness
<1>5. ASSUME NEW v \in Visitor, NEW s \in Signature, Answers(v, s) PROVE TownInv'
  <2>1. /\ SignedFor(AddressOf[v], s) /\ desk' = desk
        /\ AllAnswered([result EXCEPT !.signatures[AddressOf[v]] = s], agreeing')
    BY <1>5 DEF Answers
  <2>2. /\ Genuine([result EXCEPT !.signatures[AddressOf[v]] = s])
        /\ Behind([result EXCEPT !.signatures[AddressOf[v]] = s])
    BY <1>1, <2>1, SignatureKept, SignatureBehind
  <2>3. Genuine(result') /\ Behind(result')
    BY <2>1, <2>2, AnsweredKeeps
  <2> QED BY <2>1, <2>3, TownKeeps
<1>6. ASSUME NEW v \in Visitor, NEW s \in Signature, Witnessed(v, s) PROVE TownInv'
  <2>1. /\ SignedFor(AddressOf[v], s) /\ desk' = desk
        /\ result' = [result EXCEPT !.witnesses[AddressOf[v]] = s]
    BY <1>6 DEF Witnessed
  <2>2. Genuine(result') /\ Behind(result')
    BY <1>1, <2>1, SignatureKept, SignatureBehind
  <2> QED BY <2>1, <2>2, TownKeeps
<1> QED BY <1>2, <1>3, <1>4, <1>5, <1>6

-----------------------------------------------------------------------------
\* The errands.
LEMMA SendingIsProper ==
    ASSUME NEW v \in Visitor, NEW s \in Player, <<s, Fought>> \in signed,
           AddressOf[v] \in Fighters, s \in OtherTeam(AddressOf[v]),
           NEW e, e = Errand("send", NotFought, {}, <<s>>)
    PROVE  Proper(v, e)
<1>1. Agreed(Fought, AddressOf[v], s)
  BY DEF Fighters, OtherTeam, TeamOf, Agreed, In
<1>2. /\ e.doing = "send" /\ e.r = NotFought /\ e.with = <<s>>
      /\ e = Errand(e.doing, e.r, e.left, e.with)
  BY ErrandIs
<1>3. ToSet(<<s>>) = {s}
  BY DEF ToSet
<1> QED BY <1>1, <1>2, <1>3, NotFoughtIsGenuine DEF Proper

LEMMA WitnessesAreSigned ==
    ASSUME NEW r, Genuine(r), NEW s \in ToSet(WitnessSignatures(r))
    PROVE  s \notin Fighters /\ <<s, Fought>> \in signed
<1> DEFINE given == [n \in DOMAIN r.asked |-> r.witnesses[r.asked[n]]]
<1>0. /\ r.asked \in Seq(Player \ Fighters) /\ given \in Seq(Player \cup {Unsigned})
      /\ DOMAIN given = DOMAIN r.asked
  BY DEF Genuine, TownResult, Signatures
<1>1. PICK n \in DOMAIN given : s = given[n] /\ s # Unsigned
  <2>1. s \in ToSet(given) \ {Unsigned}
    BY <1>0, WithoutSet DEF WitnessSignatures
  <2> QED BY <2>1 DEF ToSet
<1> DEFINE a == r.asked[n]
<1>2. a \in Player \ Fighters /\ s = r.witnesses[a]
  BY <1>0, <1>1
<1>3. s = a /\ <<a, Fought>> \in signed
  BY <1>1, <1>2 DEF Genuine
<1> QED BY <1>2, <1>3

LEMMA WitnessedIsProper ==
    ASSUME NEW v \in Visitor, NEW r, Genuine(r),
           NEW e, e = Errand("sendWitnessed", NotFought, {}, WitnessSignatures(r))
    PROVE  Proper(v, e)
<1>1. /\ e.doing = "sendWitnessed" /\ e.r = NotFought /\ e.with = WitnessSignatures(r)
      /\ e = Errand(e.doing, e.r, e.left, e.with)
  BY ErrandIs
<1> QED BY <1>1, WitnessesAreSigned, NotFoughtIsGenuine DEF Proper

LEMMA AsWitnessedKeeps ==
    ASSUME TownInv, UNCHANGED vars, NEW v \in Visitor, AsWitnessed(v), result' = result
    PROVE  TownInv'
<1>1. Proper(v, desk[v]) /\ Genuine(result') /\ Behind(result')
  BY DEF TownInv
<1>2. Genuine(desk[v].r)
  BY <1>1 DEF Proper
<1>3. \E e : desk' = [desk EXCEPT ![v] = e] /\ Proper(v, e)
  BY <1>2, WitnessedIsProper, IdleIsProper DEF AsWitnessed
<1> QED BY <1>1, <1>3, TownKeeps

\* The desk's steps that change no result.
LEMMA ErrandsKeep ==
    ASSUME TownInv, UNCHANGED vars, NEW v \in Visitor,
           \/ Agree(v) \/ PutOnChain(v) \/ DidNotGo(v) \/ NotThere(v)
           \/ \E p \in Visitor : DoesNotSign(v, p)
    PROVE  TownInv'
<1>1. Genuine(result) /\ Behind(result) /\ Proper(v, desk[v])
  BY DEF TownInv
<1>2. ASSUME NEW doing \in {"agree", "look"}, NEW r, Genuine(r), Begin(v, doing, r)
      PROVE  TownInv'
  <2> DEFINE e == Errand(doing, r, {}, <<>>)
  <2>1. e.doing = doing /\ e.r = r /\ e = Errand(e.doing, e.r, e.left, e.with)
    BY ErrandIs
  <2>2. /\ AddressOf[v] \in Fighters /\ result' = result
        /\ desk' = [desk EXCEPT ![v] = e]
    BY <1>2 DEF Begin
  <2> HIDE DEF e
  <2>3. Proper(v, e)
    BY <1>2, <2>1, <2>2 DEF Proper
  <2> QED BY <1>1, <2>2, <2>3, TownKeeps
<1>3. CASE Agree(v)
  BY <1>2, <1>3, NotFoughtIsGenuine DEF Agree
<1>4. CASE PutOnChain(v)
  BY <1>1, <1>2, <1>4 DEF PutOnChain
<1>5. CASE DidNotGo(v)
  BY <1>1, <1>5, IdleIsProper, TownKeeps DEF DidNotGo
<1>6. CASE NotThere(v)
  <2> DEFINE r == desk[v].r
             others == OtherTeam(AddressOf[v])
             given == {a \in others : SignedBy(r, a)}
  <2>1. /\ result' = result /\ Genuine(r)
        /\ AddressOf[v] \in Fighters /\ others \subseteq Player
    <3>1. AddressOf[v] \in Fighters
      BY <1>1, <1>6 DEF NotThere, Proper
    <3>2. others \subseteq Player
      BY VisitorAssumption, FoughtIn DEF OtherTeam, TeamOf
    <3> QED BY <1>1, <1>6, <3>1, <3>2 DEF NotThere, Proper
  <2>2. ASSUME NEW a \in given, Sending(v, r.signatures[a]) PROVE TownInv'
    <3>1. r.signatures[a] = a /\ a \in Player /\ <<a, Fought>> \in signed
      BY <2>1, <2>2 DEF SignedBy, Genuine
    <3> QED BY <1>1, <2>1, <2>2, <3>1, SendingIsProper, TownKeeps DEF Sending
  <2>3. ASSUME AsWitnessed(v) PROVE TownInv'
    BY <2>1, <2>3, AsWitnessedKeeps
  <2>4. ASSUME NEW here \in SUBSET Of(others),
               desk' = [desk EXCEPT ![v] = Errand("ask", r, here, <<>>)]
        PROVE  TownInv'
    <3> DEFINE e == Errand("ask", r, here, <<>>)
    <3>1. /\ e.doing = "ask" /\ e.r = r /\ e.left = here
          /\ e = Errand(e.doing, e.r, e.left, e.with)
      BY ErrandIs
    <3>2. desk' = [desk EXCEPT ![v] = e]
      BY <2>4
    <3> HIDE DEF e
    <3>3. Proper(v, e)
      BY <2>1, <2>4, <3>1 DEF Proper, Of
    <3> QED BY <1>1, <2>1, <3>2, <3>3, TownKeeps
  <2> QED BY <1>6, <2>2, <2>3, <2>4 DEF NotThere
<1>7. ASSUME NEW p \in Visitor, DoesNotSign(v, p) PROVE TownInv'
  <2>1. CASE AsWitnessed(v)
    BY <1>7, <2>1, AsWitnessedKeeps DEF DoesNotSign
  <2>2. CASE desk' = [desk EXCEPT ![v].left = @ \ {p}]
    <3> DEFINE e == [desk[v] EXCEPT !.left = @ \ {p}]
    <3>1. /\ e.doing = "ask" /\ e.r = desk[v].r /\ e.left = desk[v].left \ {p}
          /\ e = Errand(e.doing, e.r, e.left, e.with) /\ desk[v].doing = "ask"
      BY <1>1, <1>7 DEF DoesNotSign, Proper, Errand
    <3>2. desk' = [desk EXCEPT ![v] = e]
      BY <2>2
    <3> HIDE DEF e
    <3>3. Proper(v, e)
      BY <1>1, <3>1 DEF Proper
    <3> QED BY <1>1, <1>7, <3>2, <3>3, TownKeeps DEF DoesNotSign
  <2> QED BY <1>7, <2>1, <2>2 DEF DoesNotSign
<1> QED BY <1>3, <1>4, <1>5, <1>6, <1>7

\* Those that do.
LEMMA ResultsKeep ==
    ASSUME TownInv, UNCHANGED vars, NEW v \in Visitor,
           \/ AlreadyThere(v) \/ Sent(v) \/ SentWitnessed(v)
           \/ \E s \in Signature :
                 Agrees(v, s) \/ \E p \in Visitor : SignsForIt(v, p, s)
    PROVE  TownInv'
<1>1. /\ Genuine(result) /\ Behind(result) /\ Proper(v, desk[v])
      /\ Proper(v, Idle)
  BY IdleIsProper DEF TownInv
<1>2. CASE AlreadyThere(v) \/ Sent(v)
  <2>1. /\ result' = [result EXCEPT !.onChain = TRUE]
        /\ recordOf[Fought.id] # NoRecord /\ desk' = [desk EXCEPT ![v] = Idle]
    BY <1>2 DEF AlreadyThere, Sent, Confirmed
  <2>2. Behind(result')
    BY <1>1, <2>1 DEF Genuine, TownResult, Behind
  <2> QED BY <1>1, <2>1, <2>2, FlagKept, TownKeeps
<1>3. CASE SentWitnessed(v)
  <2>1. /\ result' = [result EXCEPT !.witnessedOnChain = TRUE]
        /\ witnessedOf[Fought.id] # NoRecord /\ desk' = [desk EXCEPT ![v] = Idle]
    BY <1>3 DEF SentWitnessed, Confirmed
  <2>2. Behind(result')
    BY <1>1, <2>1 DEF Genuine, TownResult, Behind
  <2> QED BY <1>1, <2>1, <2>2, FlagKept, TownKeeps
<1>4. ASSUME NEW s \in Signature, Agrees(v, s) PROVE TownInv'
  <2>1. /\ result' = [result EXCEPT !.signatures[AddressOf[v]] = s]
        /\ SignedFor(AddressOf[v], s) /\ desk' = [desk EXCEPT ![v] = Idle]
    BY <1>4 DEF Agrees, Kept
  <2>2. Genuine(result') /\ Behind(result')
    BY <1>1, <2>1, SignatureKept, SignatureBehind
  <2> QED BY <1>1, <2>1, <2>2, TownKeeps
<1>5. ASSUME NEW s \in Signature, NEW p \in Visitor, SignsForIt(v, p, s) PROVE TownInv'
  <2>1. /\ result' = [result EXCEPT !.signatures[AddressOf[p]] = s]
        /\ desk[v].doing = "ask" /\ p \in desk[v].left
        /\ SignedFor(AddressOf[p], s)
        /\ desk' = [desk EXCEPT ![v] = Errand("send", NotFought, {}, <<s>>)]
    BY <1>5 DEF SignsForIt, Kept, Sending
  <2>2. Genuine(result') /\ Behind(result')
    BY <1>1, <2>1, SignatureKept, SignatureBehind
  <2>3. /\ s = AddressOf[p] /\ s \in Player /\ <<s, Fought>> \in signed
        /\ AddressOf[v] \in Fighters /\ s \in OtherTeam(AddressOf[v])
    BY <1>1, <2>1, GoodAnswer DEF Proper
  <2> QED BY <2>1, <2>2, <2>3, SendingIsProper, TownKeeps
<1> QED BY <1>2, <1>3, <1>4, <1>5

LEMMA TownStays == TownInv /\ [AgreementNext]_<<vars, townVars>> => TownInv'
<1> SUFFICES ASSUME TownInv, [AgreementNext]_<<vars, townVars>> PROVE TownInv'
  OBVIOUS
<1>1. CASE UNCHANGED townVars
  BY <1>1, ChainStep, TownLeavesChain
<1>2. CASE TownStep /\ UNCHANGED vars
  BY <1>2, AskingKeeps, ErrandsKeep, ResultsKeep DEF TownStep
<1> QED BY <1>1, <1>2 DEF AgreementNext

LEMMA TownHolds == AgreementSpec => []TownInv
BY AgreementStarts, TownStays, PTL DEF AgreementSpec

(***************************************************************************)
(* However many errands, answers and lies: the town's record says a duel is *)
(* on chain, or witnessed there, only once it is (Duels.onChain and the two  *)
(* places that set it).                                                    *)
(***************************************************************************)
THEOREM TownFollowsTheChain == AgreementSpec => []TownIsBehindTheChain
BY TownHolds, PTL DEF TownInv, Behind, TownIsBehindTheChain

(***************************************************************************)
(* What a visitor's wallet is asked to send carries the signature of         *)
(* somebody of the other team, or of bystanders only, over exactly the       *)
(* duel fought (Duels.signedFor, putOnChain and putWitnessed).              *)
(***************************************************************************)
THEOREM OffersSigned == AgreementSpec => []OffersAreSigned
<1>1. TownInv => OffersAreSigned
  BY DEF TownInv, Proper, OffersAreSigned
<1> QED BY <1>1, TownHolds, PTL
=============================================================================
