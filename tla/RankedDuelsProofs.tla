-------------------------- MODULE RankedDuelsProofs --------------------------
(***************************************************************************)
(* Proofs about RankedDuels, for any players, accounts, duels and limit:    *)
(* who is in what, who is sealed, that results are final, that a result    *)
(* says what was fought, and that the standings are the results added up.  *)
(***************************************************************************)
EXTENDS RankedDuels, DataProofs

State == {"unused", "pending", "live", "off", "over"}

Record == [state : State, teams : [Team -> SUBSET Player], limit : Nat,
           accepted : SUBSET Player, kills : [Player -> Nat],
           frags : [Team -> Nat], winner : Team, forfeit : BOOLEAN]

(***************************************************************************)
(* The inductive invariant: a side is none, or one in a duel; and the two   *)
(* invariants, which need each other: that nobody is in two open duels is   *)
(* what makes the start of one, or its end, leave the sides of others alone.*)
(***************************************************************************)
DuelTypes ==
    /\ here \subseteq Player
    /\ duels \in [Duel -> Record]
    /\ busy \in [Player -> Duel \cup {None}]
    /\ sides \in [Player -> [duel : Duel, team : Team] \cup {NoSide}]

DuelInv == DuelTypes /\ BusyIsOpen /\ SealedIsLive

-----------------------------------------------------------------------------
\* An id not given out yet is a record as well, and is not open.
LEMMA UnusedIsRecord == Unused \in Record /\ Unused.state \notin {"pending", "live"}
BY DEF Unused, Record, State, Team

\* Before the first challenge nobody is in anything.
LEMMA DuelInit == Init => DuelInv
<1> SUFFICES ASSUME Init PROVE DuelInv
  OBVIOUS
<1>1. DuelTypes
  BY UnusedIsRecord DEF Init, DuelTypes
<1>2. \A d \in Duel : duels[d].state = "unused"
  BY DEF Init, Unused
<1>3. BusyIsOpen /\ SealedIsLive
  BY <1>2 DEF Init, BusyIsOpen, SealedIsLive, Open
<1> QED BY <1>1, <1>3 DEF DuelInv

\* Who is in an open challenge or duel is who is busy with it.
LEMMA BusyIsIn ==
    ASSUME DuelInv, NEW d \in Duel, Open(d), NEW p \in Player
    PROVE  p \in Everyone(duels[d]) <=> busy[p] = d
BY DuelAssumption DEF DuelInv, BusyIsOpen, DuelAssumption

\* Whoever has a side is busy with that duel, which is live.
LEMMA SealedIsBusy ==
    ASSUME DuelInv, NEW p \in Player, sides[p] # NoSide
    PROVE  /\ sides[p].duel \in Duel /\ sides[p].team \in Team
           /\ duels[sides[p].duel].state = "live"
           /\ p \in duels[sides[p].duel].teams[sides[p].team]
           /\ busy[p] = sides[p].duel
<1>1. /\ sides[p].duel \in Duel /\ sides[p].team \in Team
      /\ duels[sides[p].duel].state = "live"
      /\ p \in duels[sides[p].duel].teams[sides[p].team]
  BY DEF DuelInv, DuelTypes, SealedIsLive
<1>2. p \in Everyone(duels[sides[p].duel])
  BY <1>1 DEF Everyone, Team
<1> QED BY <1>1, <1>2 DEF DuelInv, BusyIsOpen, Open

(***************************************************************************)
(* What release and finish have in common: the challenge or duel is closed, *)
(* whoever was in it is busy with nothing and on no side, and nobody else   *)
(* is touched.                                                             *)
(***************************************************************************)
Closes(d) ==
    /\ duels' \in [Duel -> Record]
    /\ duels'[d].state \in {"off", "over"}
    /\ \A e \in Duel : e # d => duels'[e] = duels[e]
    /\ busy' = [p \in Player |-> IF busy[p] = d THEN None ELSE busy[p]]
    /\ sides' = [p \in Player |-> IF busy[p] = d THEN NoSide ELSE sides[p]]

LEMMA ClosingKeeps ==
    ASSUME DuelInv, NEW d \in Duel, Open(d), Closes(d),
           here' \subseteq here, \A p \in here \ here' : busy[p] = d
    PROVE  DuelInv'
<1>1. DuelTypes'
  BY DEF DuelInv, DuelTypes, Closes
<1>2. \A e \in Duel : e # d => duels'[e] = duels[e]
  BY DEF Closes
<1>3. duels'[d].state # "pending" /\ duels'[d].state # "live"
  BY DEF Closes
<1>4. \A p \in Player : /\ busy[p] = d => busy'[p] = None /\ sides'[p] = NoSide
                        /\ busy[p] # d => busy'[p] = busy[p] /\ sides'[p] = sides[p]
  BY DEF Closes
<1>5. BusyIsOpen'
  <2> SUFFICES ASSUME NEW p \in Player
        PROVE  /\ busy'[p] # None => /\ duels'[busy'[p]].state \in {"pending", "live"}
                                     /\ p \in Everyone(duels'[busy'[p]])
                                     /\ p \in here'
               /\ \A e \in Duel :
                     duels'[e].state \in {"pending", "live"} /\ p \in Everyone(duels'[e])
                        => busy'[p] = e
    BY DEF BusyIsOpen, Open, Everyone
  <2>1. ASSUME busy'[p] # None
        PROVE  /\ duels'[busy'[p]].state \in {"pending", "live"}
               /\ p \in Everyone(duels'[busy'[p]])
               /\ p \in here'
    <3>1. busy[p] # d /\ busy'[p] = busy[p] /\ busy[p] \in Duel
      BY <1>4, <2>1 DEF DuelInv, DuelTypes
    <3>2. Open(busy[p]) /\ p \in Everyone(duels[busy[p]]) /\ p \in here
      BY <2>1, <3>1 DEF DuelInv, BusyIsOpen
    <3> QED BY <1>2, <3>1, <3>2 DEF Open
  <2>2. ASSUME NEW e \in Duel, duels'[e].state \in {"pending", "live"}, p \in Everyone(duels'[e])
        PROVE  busy'[p] = e
    <3>1. e # d /\ duels'[e] = duels[e]
      BY <1>2, <1>3, <2>2
    <3>2. busy[p] = e
      BY <2>2, <3>1 DEF DuelInv, BusyIsOpen, Open
    <3> QED BY <1>4, <3>1, <3>2
  <2> QED BY <2>1, <2>2
<1>6. SealedIsLive'
  <2> SUFFICES ASSUME NEW p \in Player
        PROVE  /\ sides'[p] # NoSide => /\ duels'[sides'[p].duel].state = "live"
                                        /\ p \in duels'[sides'[p].duel].teams[sides'[p].team]
               /\ \A e \in Duel : duels'[e].state = "live" /\ p \in Everyone(duels'[e])
                                     => sides'[p].duel = e
    BY DEF SealedIsLive, Everyone
  <2>1. ASSUME sides'[p] # NoSide
        PROVE  /\ duels'[sides'[p].duel].state = "live"
               /\ p \in duels'[sides'[p].duel].teams[sides'[p].team]
    <3>1. busy[p] # d /\ sides'[p] = sides[p]
      BY <1>4, <2>1
    <3> QED BY <1>2, <2>1, <3>1, SealedIsBusy
  <2>2. ASSUME NEW e \in Duel, duels'[e].state = "live", p \in Everyone(duels'[e])
        PROVE  sides'[p].duel = e
    <3>1. e # d /\ duels'[e] = duels[e]
      BY <1>2, <1>3, <2>2
    <3>2. sides[p].duel = e /\ busy[p] = e
      BY <2>2, <3>1 DEF DuelInv, SealedIsLive, BusyIsOpen, Open
    <3> QED BY <1>4, <3>1, <3>2
  <2> QED BY <2>1, <2>2
<1> QED BY <1>1, <1>5, <1>6 DEF DuelInv

(***************************************************************************)
(* Calling a challenge off closes it; nobody was on a side for it yet.      *)
(***************************************************************************)
LEMMA CancelledCloses ==
    ASSUME DuelInv, NEW d \in Duel, duels[d].state = "pending", Cancelled(d),
           \/ UNCHANGED sides
           \/ \E p \in Player : busy[p] = d /\ sides' = [sides EXCEPT ![p] = NoSide]
    PROVE  Closes(d)
<1>1. \A p \in Player : busy[p] = d => sides[p] = NoSide
  BY SealedIsBusy
<1>2. /\ duels' = [duels EXCEPT ![d].state = "off"]
      /\ busy' = [p \in Player |-> IF busy[p] = d THEN None ELSE busy[p]]
  BY DEF Cancelled, Released
<1>3. duels \in [Duel -> Record] /\ duels[d] \in Record
  BY DEF DuelInv, DuelTypes
<1>4. [duels[d] EXCEPT !.state = "off"] \in Record
  BY <1>3 DEF Record, State
<1>5. duels' = [duels EXCEPT ![d] = [duels[d] EXCEPT !.state = "off"]]
  BY <1>2, <1>3
<1>6. duels' \in [Duel -> Record] /\ \A e \in Duel : e # d => duels'[e] = duels[e]
  BY <1>3, <1>4, <1>5
<1>7. duels'[d].state = "off"
  BY <1>3, <1>5 DEF Record
<1>8. sides' = [p \in Player |-> IF busy[p] = d THEN NoSide ELSE sides[p]]
  BY <1>1 DEF DuelInv, DuelTypes
<1> QED BY <1>2, <1>6, <1>7, <1>8 DEF Closes

(***************************************************************************)
(* finish closes a live duel, whatever its record r says by then, even if   *)
(* somebody who was in it has lost their side already.                     *)
(***************************************************************************)
LEMMA FinishCloses ==
    ASSUME DuelInv, NEW d \in Duel, duels[d].state = "live",
           NEW r \in Record, r.teams = duels[d].teams, NEW left,
           left = sides \/ \E p \in Player : busy[p] = d /\ left = [sides EXCEPT ![p] = NoSide],
           Finish(d, r, left)
    PROVE  Closes(d)
<1> DEFINE over == [r EXCEPT !.state = "over"]
<1>1. /\ duels' = [duels EXCEPT ![d] = over]
      /\ sides' = [p \in Player |-> IF p \in Everyone(over) THEN NoSide ELSE left[p]]
      /\ busy' = [p \in Player |-> IF p \in Everyone(r) THEN None ELSE busy[p]]
  BY DEF Finish, OffSides
<1>2. over \in Record /\ over.state = "over" /\ over.teams = r.teams
  BY DEF Record, State
<1>3. duels \in [Duel -> Record]
  BY DEF DuelInv, DuelTypes
<1>4. duels' \in [Duel -> Record] /\ duels'[d] = over /\ \A e \in Duel : e # d => duels'[e] = duels[e]
  BY <1>1, <1>2, <1>3
<1>5. Everyone(over) = Everyone(duels[d]) /\ Everyone(r) = Everyone(duels[d])
  BY <1>2 DEF Everyone
<1>6. \A p \in Player : p \in Everyone(duels[d]) <=> busy[p] = d
  BY BusyIsIn DEF Open
<1>7. \A p \in Player : busy[p] # d => left[p] = sides[p]
  BY DEF DuelInv, DuelTypes
<1> HIDE DEF over
<1>8. busy' = [p \in Player |-> IF busy[p] = d THEN None ELSE busy[p]]
  BY <1>1, <1>5, <1>6
<1>9. sides' = [p \in Player |-> IF busy[p] = d THEN NoSide ELSE sides[p]]
  BY <1>1, <1>5, <1>6, <1>7
<1> QED BY <1>2, <1>4, <1>8, <1>9 DEF Closes

\* Writing a result down leaves a record of the same teams.
LEMMA ResultIsRecord ==
    ASSUME NEW r \in Record, NEW w \in Team
    PROVE  /\ [r EXCEPT !.winner = w] \in Record /\ [r EXCEPT !.winner = w].teams = r.teams
           /\ [r EXCEPT !.winner = w, !.forfeit = TRUE] \in Record
           /\ [r EXCEPT !.winner = w, !.forfeit = TRUE].teams = r.teams
<1>1. [r EXCEPT !.winner = w] \in Record /\ [r EXCEPT !.winner = w].teams = r.teams
  BY DEF Record
<1>2. \A s \in Record : [s EXCEPT !.forfeit = TRUE] \in Record /\ [s EXCEPT !.forfeit = TRUE].teams = s.teams
  BY DEF Record
<1>3. [r EXCEPT !.winner = w, !.forfeit = TRUE] = [[r EXCEPT !.winner = w] EXCEPT !.forfeit = TRUE]
  BY DEF Record
<1> QED BY <1>1, <1>2, <1>3

(***************************************************************************)
(* forfeit closes what the player is in, pending or live.                  *)
(***************************************************************************)
LEMMA ForfeitCloses ==
    ASSUME DuelInv, NEW p \in Player, busy[p] # None, NEW left,
           left = sides \/ left = [sides EXCEPT ![p] = NoSide], Forfeit(p, left)
    PROVE  busy[p] \in Duel /\ Open(busy[p]) /\ Closes(busy[p])
<1> DEFINE d == busy[p]
<1>1. d \in Duel /\ Open(d)
  BY DEF DuelInv, DuelTypes, BusyIsOpen
<1>2. CASE duels[d].state = "pending"
  <2>1. Cancelled(d) /\ sides' = left
    BY <1>2 DEF Forfeit
  <2> QED BY <1>1, <1>2, <2>1, CancelledCloses
<1>3. CASE duels[d].state = "live"
  <2>1. PICK w \in Team :
           Finish(d, [duels[d] EXCEPT !.winner = w, !.forfeit = TRUE], left)
    BY <1>3 DEF Forfeit, Team
  <2> DEFINE r == [duels[d] EXCEPT !.winner = w, !.forfeit = TRUE]
  <2>2. r \in Record /\ r.teams = duels[d].teams
    BY <1>1, ResultIsRecord DEF DuelInv, DuelTypes
  <2> HIDE DEF r
  <2>3. Finish(d, r, left)
    BY <2>1 DEF r
  <2> QED BY <1>1, <1>3, <2>2, <2>3, FinishCloses
<1> QED BY <1>1, <1>2, <1>3 DEF Open

-----------------------------------------------------------------------------
(***************************************************************************)
(* challenge: everybody in it was free, and is busy with it now.           *)
(***************************************************************************)
LEMMA ChallengeKeeps ==
    ASSUME DuelInv, NEW d \in Duel, NEW a \in SUBSET Player, NEW b \in SUBSET Player,
           NEW limit \in 1..MAX_LIMIT, NEW host \in a, Challenge(d, host, a, b, limit)
    PROVE  DuelInv'
<1> DEFINE r == [Unused EXCEPT !.state = "pending", !.limit = limit, !.accepted = {host},
                               !.teams = [t \in Team |-> IF t = "A" THEN a ELSE b]]
<1>1. /\ duels[d] = Unused /\ \A p \in a \cup b : busy[p] = None /\ p \in here
      /\ duels' = [duels EXCEPT ![d] = r]
      /\ busy' = [p \in Player |-> IF p \in a \cup b THEN d ELSE busy[p]]
      /\ UNCHANGED <<here, sides>>
  BY DEF Challenge, MayFace, Free
<1>2. limit \in Nat
  BY LimitAssumption DEF LimitAssumption
<1>3. /\ r \in Record /\ r.state = "pending" /\ r.teams["A"] = a /\ r.teams["B"] = b
  BY <1>2, UnusedIsRecord DEF Record, State, Team, Unused
<1> HIDE DEF r
<1>4. Everyone(r) = a \cup b
  BY <1>3 DEF Everyone
<1>5. DuelTypes'
  BY <1>1, <1>3 DEF DuelInv, DuelTypes
<1>6. duels'[d] = r /\ \A e \in Duel : e # d => duels'[e] = duels[e]
  BY <1>1, <1>3 DEF DuelInv, DuelTypes
<1>7. ~Open(d)
  BY <1>1, UnusedIsRecord DEF Open
<1>8. BusyIsOpen'
  <2> SUFFICES ASSUME NEW p \in Player
        PROVE  /\ busy'[p] # None => /\ duels'[busy'[p]].state \in {"pending", "live"}
                                     /\ p \in Everyone(duels'[busy'[p]])
                                     /\ p \in here
               /\ \A e \in Duel :
                     duels'[e].state \in {"pending", "live"} /\ p \in Everyone(duels'[e])
                        => busy'[p] = e
    BY <1>1 DEF BusyIsOpen, Open, Everyone
  <2>1. CASE p \in a \cup b
    <3>1. busy'[p] = d /\ p \in here /\ p \in Everyone(duels'[d])
      BY <1>1, <1>4, <1>6, <2>1
    <3>2. ASSUME NEW e \in Duel, e # d, duels'[e].state \in {"pending", "live"},
                 p \in Everyone(duels'[e])
          PROVE  FALSE
      <4>1. Open(e) /\ p \in Everyone(duels[e])
        BY <1>6, <3>2 DEF Open
      <4>2. busy[p] = e
        BY <4>1 DEF DuelInv, BusyIsOpen
      <4> QED BY <1>1, <2>1, <4>2, DuelAssumption DEF DuelAssumption
    <3> QED BY <1>3, <1>6, <3>1, <3>2
  <2>2. CASE p \notin a \cup b
    <3>1. busy'[p] = busy[p]
      BY <1>1, <2>2
    <3>2. ASSUME busy[p] # None
          PROVE  /\ duels'[busy[p]].state \in {"pending", "live"}
                 /\ p \in Everyone(duels'[busy[p]])
                 /\ p \in here
      <4>1. busy[p] \in Duel /\ Open(busy[p]) /\ p \in Everyone(duels[busy[p]]) /\ p \in here
        BY <3>2 DEF DuelInv, DuelTypes, BusyIsOpen
      <4>2. busy[p] # d
        BY <1>7, <4>1
      <4> QED BY <1>6, <4>1, <4>2 DEF Open
    <3>3. ASSUME NEW e \in Duel, duels'[e].state \in {"pending", "live"},
                 p \in Everyone(duels'[e])
          PROVE  busy[p] = e
      <4>1. e # d
        BY <1>4, <1>6, <2>2, <3>3
      <4> QED BY <1>6, <3>3, <4>1 DEF DuelInv, BusyIsOpen, Open
    <3> QED BY <3>1, <3>2, <3>3
  <2> QED BY <2>1, <2>2
<1>9. SealedIsLive'
  <2> SUFFICES ASSUME NEW p \in Player
        PROVE  /\ sides[p] # NoSide => /\ duels'[sides[p].duel].state = "live"
                                       /\ p \in duels'[sides[p].duel].teams[sides[p].team]
               /\ \A e \in Duel : duels'[e].state = "live" /\ p \in Everyone(duels'[e])
                                     => sides[p].duel = e
    BY <1>1 DEF SealedIsLive, Everyone
  <2>1. ASSUME sides[p] # NoSide
        PROVE  /\ duels'[sides[p].duel].state = "live"
               /\ p \in duels'[sides[p].duel].teams[sides[p].team]
    <3>1. sides[p].duel # d
      BY <1>7, <2>1, SealedIsBusy DEF Open
    <3> QED BY <1>6, <2>1, <3>1, SealedIsBusy
  <2>2. ASSUME NEW e \in Duel, duels'[e].state = "live", p \in Everyone(duels'[e])
        PROVE  sides[p].duel = e
    <3>1. e # d
      BY <1>3, <1>6, <2>2
    <3> QED BY <1>6, <2>2, <3>1 DEF DuelInv, SealedIsLive
  <2> QED BY <2>1, <2>2
<1> QED BY <1>5, <1>8, <1>9 DEF DuelInv

(***************************************************************************)
(* A yes or a frag that ends nothing: the record of one duel is written on, *)
(* its teams and whether it is open stay, and with them who is in it.      *)
(***************************************************************************)
LEMMA WritingKeeps ==
    ASSUME DuelInv, NEW d \in Duel, NEW r \in Record,
           r.teams = duels[d].teams, r.state = duels[d].state,
           duels' = [duels EXCEPT ![d] = r], UNCHANGED <<here, busy, sides>>
    PROVE  DuelInv'
<1>1. DuelTypes'
  BY DEF DuelInv, DuelTypes
<1>2. \A e \in Duel : duels'[e].teams = duels[e].teams /\ duels'[e].state = duels[e].state
  BY DEF DuelInv, DuelTypes
<1>3. \A e \in Duel : Everyone(duels'[e]) = Everyone(duels[e])
  BY <1>2 DEF Everyone
<1>4. BusyIsOpen'
  <2>1. \A p \in Player : busy[p] # None => busy[p] \in Duel
    BY DEF DuelInv, DuelTypes
  <2> QED BY <1>2, <1>3, <2>1 DEF DuelInv, BusyIsOpen, Open
<1>5. SealedIsLive'
  <2>1. \A p \in Player : sides[p] # NoSide => sides[p].duel \in Duel
    BY SealedIsBusy
  <2> QED BY <1>2, <1>3, <2>1 DEF DuelInv, SealedIsLive
<1> QED BY <1>1, <1>4, <1>5 DEF DuelInv

(***************************************************************************)
(* The last yes: everybody in it takes their side.  They had none, being in *)
(* nothing else that is live.                                              *)
(***************************************************************************)
LEMMA StartKeeps ==
    ASSUME DuelInv, NEW d \in Duel, duels[d].state = "pending",
           NEW r \in Record, r.teams = duels[d].teams, r.state = "live",
           duels' = [duels EXCEPT ![d] = r], sides' = Start(d), UNCHANGED <<here, busy>>
    PROVE  DuelInv'
<1> DEFINE teamOf(p) == IF p \in duels[d].teams["A"] THEN "A" ELSE "B"
<1>1. duels'[d] = r /\ \A e \in Duel : e # d => duels'[e] = duels[e]
  BY DEF DuelInv, DuelTypes
<1>2. \A e \in Duel : Everyone(duels'[e]) = Everyone(duels[e])
  BY <1>1 DEF Everyone
<1>3. \A p \in Player : p \in Everyone(duels[d]) <=> busy[p] = d
  BY BusyIsIn DEF Open
<1>4. \A p \in Player :
        /\ busy[p] = d => sides'[p] = [duel |-> d, team |-> teamOf(p)]
        /\ busy[p] # d => sides'[p] = sides[p]
  BY <1>3 DEF Start
<1>5. DuelTypes'
  <2>1. sides' \in [Player -> [duel : Duel, team : Team] \cup {NoSide}]
    BY DEF Start, DuelInv, DuelTypes, Team
  <2> QED BY <2>1 DEF DuelInv, DuelTypes
<1>6. BusyIsOpen'
  <2>1. \A p \in Player : busy[p] # None => busy[p] \in Duel
    BY DEF DuelInv, DuelTypes
  <2>2. \A e \in Duel : duels'[e].state \in {"pending", "live"} <=> Open(e)
    BY <1>1 DEF Open
  <2> QED BY <1>2, <2>1, <2>2 DEF DuelInv, BusyIsOpen, Open
<1>7. SealedIsLive'
  <2> SUFFICES ASSUME NEW p \in Player
        PROVE  /\ sides'[p] # NoSide => /\ duels'[sides'[p].duel].state = "live"
                                        /\ p \in duels'[sides'[p].duel].teams[sides'[p].team]
               /\ \A e \in Duel : duels'[e].state = "live" /\ p \in Everyone(duels'[e])
                                     => sides'[p].duel = e
    BY DEF SealedIsLive, Everyone
  <2>1. CASE busy[p] = d
    <3>1. sides'[p].duel = d /\ sides'[p].team = teamOf(p)
      <4> HIDE DEF teamOf
      <4>1. sides'[p] = [duel |-> d, team |-> teamOf(p)]
        BY <1>4, <2>1
      <4> QED BY <4>1
    <3>2. p \in duels[d].teams["A"] \cup duels[d].teams["B"]
      BY <1>3, <2>1 DEF Everyone
    <3>3. ASSUME NEW e \in Duel, duels'[e].state = "live", p \in Everyone(duels'[e])
          PROVE  e = d
      BY <1>1, <1>2, <2>1, <3>3 DEF DuelInv, BusyIsOpen, Open
    <3> QED BY <1>1, <3>1, <3>2, <3>3
  <2>2. CASE busy[p] # d
    <3>1. sides'[p] = sides[p]
      BY <1>4, <2>2
    <3>2. ASSUME sides[p] # NoSide
          PROVE  /\ duels'[sides[p].duel].state = "live"
                 /\ p \in duels'[sides[p].duel].teams[sides[p].team]
      BY <1>1, <2>2, <3>2, SealedIsBusy
    <3>3. ASSUME NEW e \in Duel, duels'[e].state = "live", p \in Everyone(duels'[e])
          PROVE  sides[p].duel = e
      <4>1. e # d
        BY <1>2, <1>3, <2>2, <3>3
      <4> QED BY <1>1, <3>3, <4>1 DEF DuelInv, SealedIsLive
    <3> QED BY <3>1, <3>2, <3>3
  <2> QED BY <2>1, <2>2
<1> QED BY <1>5, <1>6, <1>7 DEF DuelInv

-----------------------------------------------------------------------------
(***************************************************************************)
(* The handlers.  Of each: the invariant, and that a closed record stays.   *)
(***************************************************************************)
Final == \A d \in Duel : duels[d].state \in {"off", "over"} => duels'[d] = duels[d]

LEMMA ClosingIsFinal ==
    ASSUME NEW d \in Duel, Open(d), Closes(d) PROVE Final
BY DEF Open, Closes, Final

LEMMA ChangeIsFinal ==
    ASSUME DuelInv, NEW d \in Duel, duels[d].state \notin {"off", "over"}, NEW r,
           duels' = [duels EXCEPT ![d] = r]
    PROVE  Final
BY DEF DuelInv, DuelTypes, Final

\* accept: one more yes, or the start.
LEMMA AcceptKeeps ==
    ASSUME DuelInv, NEW d \in Duel, NEW p \in Player, Accept(d, p)
    PROVE  DuelInv' /\ Final
<1> DEFINE noted == [duels[d] EXCEPT !.accepted = Agreed(d, p)]
           live == [noted EXCEPT !.state = "live"]
<1>1. duels \in [Duel -> Record] /\ duels[d] \in Record /\ duels[d].state = "pending"
  BY DEF DuelInv, DuelTypes, Accept
<1>2. Agreed(d, p) \in SUBSET Player
  BY <1>1 DEF Agreed, Record
<1>3. noted \in Record /\ noted.teams = duels[d].teams /\ noted.state = "pending"
  BY <1>1, <1>2 DEF Record
<1>4. live \in Record /\ live.teams = duels[d].teams /\ live.state = "live"
  <2> HIDE DEF noted
  <2> QED BY <1>3 DEF Record, State
<1>5. UNCHANGED <<here, busy>>
  BY DEF Accept
<1>6. CASE Everyone(duels[d]) \subseteq Agreed(d, p)
  <2>1. sides' = Start(d)
    BY <1>6 DEF Accept
  <2>2. duels' = [duels EXCEPT ![d] = live]
    <3>1. duels' = [duels EXCEPT ![d].accepted = Agreed(d, p), ![d].state = "live"]
      BY <1>6 DEF Accept
    <3> QED BY <1>1, <3>1
  <2> HIDE DEF live
  <2> QED BY <1>1, <1>4, <1>5, <2>1, <2>2, StartKeeps, ChangeIsFinal
<1>7. CASE ~(Everyone(duels[d]) \subseteq Agreed(d, p))
  <2>1. duels' = [duels EXCEPT ![d] = noted] /\ UNCHANGED sides
    <3>1. duels' = [duels EXCEPT ![d].accepted = Agreed(d, p)] /\ UNCHANGED sides
      BY <1>7 DEF Accept
    <3> QED BY <1>1, <3>1
  <2> HIDE DEF noted
  <2> QED BY <1>1, <1>3, <1>5, <2>1, WritingKeeps, ChangeIsFinal
<1> QED BY <1>6, <1>7

\* decline, and the timer of a challenge.
LEMMA CallingOffKeeps ==
    ASSUME DuelInv, NEW d \in Duel, duels[d].state = "pending", Cancelled(d),
           UNCHANGED <<here, sides>>
    PROVE  DuelInv' /\ Final
<1>1. Open(d) /\ Closes(d)
  BY CancelledCloses DEF Open
<1> QED BY <1>1, ClosingKeeps, ClosingIsFinal

\* A frag changes two counts of a record.
LEMMA ScoredIsRecord ==
    ASSUME NEW s \in Record, NEW killer \in Player, NEW t \in Team
    PROVE  /\ Scored(s, killer, t) \in Record
           /\ Scored(s, killer, t).teams = s.teams
           /\ Scored(s, killer, t).state = s.state
<1> DEFINE f == [s.frags EXCEPT ![t] = @ + 1]
           k == [s.kills EXCEPT ![killer] = @ + 1]
<1>1. s.frags \in [Team -> Nat] /\ s.kills \in [Player -> Nat]
  BY DEF Record
<1>2. f \in [Team -> Nat] /\ k \in [Player -> Nat]
  BY <1>1
<1>3. Scored(s, killer, t) = [s EXCEPT !.frags = f, !.kills = k]
  BY DEF Scored, Record
<1> HIDE DEF f, k
<1> QED BY <1>2, <1>3 DEF Record

\* A frag writes on a live duel, or ends it.
LEMMA KillKeeps ==
    ASSUME DuelInv, NEW victim \in Player, NEW killer \in Player, Kill(victim, killer)
    PROVE  DuelInv' /\ Final
<1> DEFINE d == sides[killer].duel
           t == sides[killer].team
           r == Scored(duels[d], killer, t)
<1>1. sides[killer] # NoSide
  BY DEF Kill, MayHurt, NoSide
<1>2. d \in Duel /\ t \in Team /\ duels[d].state = "live"
  BY <1>1, SealedIsBusy
<1>3. duels[d] \in Record
  BY <1>2 DEF DuelInv, DuelTypes
<1>4. r \in Record /\ r.teams = duels[d].teams /\ r.state = duels[d].state
  <2> HIDE DEF d, t
  <2> QED BY <1>2, <1>3, ScoredIsRecord
<1>5. UNCHANGED here
  BY DEF Kill
<1>6. \/ \E w \in Team : Finish(d, [r EXCEPT !.winner = w], sides)
      \/ duels' = [duels EXCEPT ![d] = r] /\ UNCHANGED <<busy, sides>>
  BY DEF Kill, Team
<1> HIDE DEF d, t, r
<1>7. CASE \E w \in Team : Finish(d, [r EXCEPT !.winner = w], sides)
  <2>1. PICK w \in Team : Finish(d, [r EXCEPT !.winner = w], sides)
    BY <1>7
  <2>2. [r EXCEPT !.winner = w] \in Record /\ [r EXCEPT !.winner = w].teams = duels[d].teams
    BY <1>4, ResultIsRecord
  <2>3. Closes(d) /\ Open(d)
    BY <1>2, <2>1, <2>2, FinishCloses DEF Open
  <2> QED BY <1>2, <1>5, <2>3, ClosingKeeps, ClosingIsFinal
<1>8. CASE duels' = [duels EXCEPT ![d] = r] /\ UNCHANGED <<busy, sides>>
  BY <1>2, <1>4, <1>5, <1>8, WritingKeeps, ChangeIsFinal
<1> QED BY <1>6, <1>7, <1>8

\* Giving up, at the desk.
LEMMA GiveUpKeeps ==
    ASSUME DuelInv, NEW p \in Player, GiveUp(p) PROVE DuelInv' /\ Final
<1>1. busy[p] # None /\ Forfeit(p, sides) /\ UNCHANGED here
  BY DEF GiveUp
<1>2. busy[p] \in Duel /\ Open(busy[p]) /\ Closes(busy[p])
  BY <1>1, ForfeitCloses
<1> QED BY <1>1, <1>2, ClosingKeeps, ClosingIsFinal

\* PlayerRemoving: who leaves is out of everything, and had no side unless busy.
LEMMA LeaveKeeps ==
    ASSUME DuelInv, NEW p \in Player, Leave(p) PROVE DuelInv' /\ Final
<1> DEFINE left == [sides EXCEPT ![p] = NoSide]
<1>1. here' = here \ {p}
  BY DEF Leave
<1>2. CASE busy[p] # None
  <2>1. Forfeit(p, left)
    BY <1>2 DEF Leave
  <2>2. busy[p] \in Duel /\ Open(busy[p]) /\ Closes(busy[p])
    BY <1>2, <2>1, ForfeitCloses
  <2> QED BY <1>1, <2>2, ClosingKeeps, ClosingIsFinal
<1>3. CASE busy[p] = None
  <2>1. sides' = left /\ UNCHANGED <<duels, busy>>
    BY <1>3 DEF Leave
  <2>2. sides[p] = NoSide
    BY <1>3, SealedIsBusy, DuelAssumption DEF DuelAssumption
  <2>3. sides' = sides
    BY <2>1, <2>2 DEF DuelInv, DuelTypes
  <2>4. \A q \in Player : busy[q] # None => q \in here'
    BY <1>1, <1>3 DEF DuelInv, BusyIsOpen
  <2> QED BY <1>1, <2>1, <2>3, <2>4
       DEF DuelInv, DuelTypes, BusyIsOpen, SealedIsLive, Open, Final
<1> QED BY <1>2, <1>3

LEMMA DuelStep == DuelInv /\ [Next]_vars => DuelInv' /\ Final
<1> SUFFICES ASSUME DuelInv, [Next]_vars PROVE DuelInv' /\ Final
  OBVIOUS
<1>1. ASSUME UNCHANGED <<here, duels, busy, sides>> PROVE DuelInv' /\ Final
  BY <1>1 DEF DuelInv, DuelTypes, BusyIsOpen, SealedIsLive, Open, Everyone, Final
<1>2. ASSUME NEW p \in Player, SignIn(p) PROVE DuelInv' /\ Final
  BY <1>1, <1>2 DEF SignIn
<1>3. ASSUME NEW d \in Duel, NEW a \in Sides, NEW b \in Sides, NEW limit \in 1..MAX_LIMIT,
             NEW host \in a, Challenge(d, host, a, b, limit)
      PROVE  DuelInv' /\ Final
  <2>1. a \in SUBSET Player /\ b \in SUBSET Player
    BY DEF Sides, kSubset
  <2>2. DuelInv'
    BY <1>3, <2>1, ChallengeKeeps
  <2>3. duels[d].state = "unused"
    BY <1>3 DEF Challenge, Unused
  <2> QED BY <1>3, <2>2, <2>3, ChangeIsFinal DEF Challenge
<1>4. ASSUME NEW d \in Duel, NEW p \in Player, Decline(d, p) PROVE DuelInv' /\ Final
  BY <1>4, CallingOffKeeps DEF Decline
<1>5. ASSUME NEW d \in Duel, Expire(d) PROVE DuelInv' /\ Final
  BY <1>5, CallingOffKeeps DEF Expire
<1>6. CASE UNCHANGED vars
  BY <1>1, <1>6 DEF vars
<1> QED BY <1>2, <1>3, <1>4, <1>5, <1>6, AcceptKeeps, KillKeeps, GiveUpKeeps, LeaveKeeps DEF Next

LEMMA DuelsHold == Spec => []DuelInv
BY DuelInit, DuelStep, PTL DEF Spec

(***************************************************************************)
(* Whoever is in an open challenge or duel is here and busy with that one   *)
(* only, and nobody else is busy (Duels.challenge, release, finish).       *)
(***************************************************************************)
THEOREM BusyCorrect == Spec => []BusyIsOpen
BY DuelsHold, PTL DEF DuelInv

(***************************************************************************)
(* Exactly those in a live duel are sealed, each on the side they fight for *)
(* (Health.mayHurt, Duels.start, finish).                                  *)
(***************************************************************************)
THEOREM SealsCorrect == Spec => []SealedIsLive
BY DuelsHold, PTL DEF DuelInv

(***************************************************************************)
(* What is off or over stays as it is, whatever timer, answer or departure  *)
(* comes late (Duels.cancel, accept, finish).                              *)
(***************************************************************************)
THEOREM ResultsStay == Spec => ClosedStays
<1>1. DuelInv /\ [Next]_vars =>
        [\A d \in Duel : duels[d].state \in {"off", "over"} => duels'[d] = duels[d]]_vars
  BY DuelStep DEF Final
<1> QED BY <1>1, DuelsHold, PTL DEF Spec, ClosedStays

-----------------------------------------------------------------------------
(***************************************************************************)
(* The score.  A record is fair when it says what ScoreIsFought asks, and   *)
(* what makes that stay: nobody is on both teams, nothing is counted before *)
(* the fight, and nobody has walked out of what is not over.               *)
(***************************************************************************)
Fair(r) ==
    /\ r.teams["A"] \cap r.teams["B"] = {}
    /\ \A t \in Team : r.frags[t] = SumFunctionOnSet(r.kills, r.teams[t])
    /\ r.state \in {"pending", "live"} => ~r.forfeit /\ \A t \in Team : r.frags[t] < r.limit
    /\ r.state = "over" => /\ r.frags[Other(r.winner)] < r.limit
                           /\ r.forfeit <=> r.frags[r.winner] < r.limit

ScoreInv == DuelInv /\ \A d \in Duel : Fair(duels[d])

LEMMA UnusedIsFair == Fair(Unused)
BY SumEmpty DEF Fair, Unused, Team

LEMMA OneFair ==
    ASSUME ScoreInv, NEW d \in Duel, NEW r, Fair(r), duels' = [duels EXCEPT ![d] = r]
    PROVE  \A e \in Duel : Fair(duels'[e])
BY DEF ScoreInv, DuelInv, DuelTypes

\* challenge: nobody has a kill, and nobody challenges themselves.
LEMMA ChallengeIsFair ==
    ASSUME ScoreInv, NEW d \in Duel, NEW a \in SUBSET Player, NEW b \in SUBSET Player,
           NEW limit \in 1..MAX_LIMIT, NEW host \in a, Challenge(d, host, a, b, limit)
    PROVE  \A e \in Duel : Fair(duels'[e])
<1> DEFINE r == [Unused EXCEPT !.state = "pending", !.limit = limit, !.accepted = {host},
                               !.teams = [t \in Team |-> IF t = "A" THEN a ELSE b]]
<1>1. a \cap b = {} /\ duels' = [duels EXCEPT ![d] = r]
  BY DEF Challenge, MayFace
<1>2. limit \in Nat /\ limit > 0
  BY LimitAssumption DEF LimitAssumption
<1>3. /\ r.state = "pending" /\ r.limit = limit /\ r.forfeit = FALSE
      /\ r.teams = [t \in Team |-> IF t = "A" THEN a ELSE b]
      /\ r.kills = [p \in Player |-> 0] /\ r.frags = [t \in Team |-> 0]
  BY DEF Unused
<1> HIDE DEF r
<1>4. \A t \in Team : SumFunctionOnSet(r.kills, r.teams[t]) = 0
  <2> SUFFICES ASSUME NEW t \in Team PROVE SumFunctionOnSet(r.kills, r.teams[t]) = 0
    OBVIOUS
  <2>1. r.teams[t] \in SUBSET Player
    BY <1>3
  <2>2. IsFiniteSet(r.teams[t])
    BY <2>1, PlayerAssumption, FS_Subset DEF PlayerAssumption
  <2>3. \A x \in r.teams[t] : r.kills[x] = 0
    BY <1>3, <2>1
  <2> QED BY <2>2, <2>3, SumZero
<1>5. r.teams["A"] = a /\ r.teams["B"] = b /\ \A t \in Team : r.frags[t] = 0
  BY <1>3 DEF Team
<1>6. Fair(r)
  BY <1>1, <1>2, <1>3, <1>4, <1>5 DEF Fair
<1> QED BY <1>1, <1>6, OneFair

\* What is written on a record besides who says yes and whether it is still on is the same score.
LEMMA SameScoreIsFair ==
    ASSUME NEW s, NEW r, Fair(s), s.state \in {"pending", "live"},
           r.state \in {"pending", "live", "off"},
           r.teams = s.teams, r.kills = s.kills, r.frags = s.frags, r.limit = s.limit,
           r.forfeit = s.forfeit
    PROVE  Fair(r)
BY DEF Fair

LEMMA AcceptIsFair ==
    ASSUME ScoreInv, NEW d \in Duel, NEW p \in Player, Accept(d, p)
    PROVE  \A e \in Duel : Fair(duels'[e])
<1>1. duels \in [Duel -> Record] /\ duels[d].state = "pending" /\ Fair(duels[d])
  BY DEF ScoreInv, DuelInv, DuelTypes, Accept
<1>2. PICK state \in {"pending", "live"} :
         duels' = [duels EXCEPT ![d] = [duels[d] EXCEPT !.accepted = Agreed(d, p), !.state = state]]
  <2>1. CASE Everyone(duels[d]) \subseteq Agreed(d, p)
    <3>1. duels' = [duels EXCEPT ![d] = [duels[d] EXCEPT !.accepted = Agreed(d, p), !.state = "live"]]
      BY <1>1, <2>1 DEF Accept
    <3> QED BY <3>1
  <2>2. CASE ~(Everyone(duels[d]) \subseteq Agreed(d, p))
    <3>1. duels' = [duels EXCEPT ![d] = [duels[d] EXCEPT !.accepted = Agreed(d, p)]]
      BY <1>1, <2>2 DEF Accept
    <3>2. [duels[d] EXCEPT !.accepted = Agreed(d, p)]
             = [duels[d] EXCEPT !.accepted = Agreed(d, p), !.state = "pending"]
      BY <1>1 DEF Record
    <3> QED BY <3>1, <3>2
  <2> QED BY <2>1, <2>2
<1> DEFINE r == [duels[d] EXCEPT !.accepted = Agreed(d, p), !.state = state]
<1>3. /\ r.state = state /\ r.teams = duels[d].teams /\ r.kills = duels[d].kills
      /\ r.frags = duels[d].frags /\ r.limit = duels[d].limit /\ r.forfeit = duels[d].forfeit
  BY <1>1 DEF Record
<1> HIDE DEF r
<1>4. Fair(r)
  BY <1>1, <1>3, SameScoreIsFair
<1> QED BY <1>2, <1>4, OneFair DEF r

LEMMA CalledOffIsFair ==
    ASSUME ScoreInv, NEW d \in Duel, duels[d].state = "pending", Cancelled(d)
    PROVE  \A e \in Duel : Fair(duels'[e])
<1> DEFINE r == [duels[d] EXCEPT !.state = "off"]
<1>1. duels \in [Duel -> Record] /\ Fair(duels[d])
  BY DEF ScoreInv, DuelInv, DuelTypes
<1>2. duels' = [duels EXCEPT ![d] = r]
  BY <1>1 DEF Cancelled
<1>3. /\ r.state = "off" /\ r.teams = duels[d].teams /\ r.kills = duels[d].kills
      /\ r.frags = duels[d].frags /\ r.limit = duels[d].limit /\ r.forfeit = duels[d].forfeit
  BY <1>1 DEF Record
<1> HIDE DEF r
<1> QED BY <1>1, <1>2, <1>3, SameScoreIsFair, OneFair

(***************************************************************************)
(* A frag adds to the killer's team what it adds to the killer, who is on   *)
(* that team and not on the other.                                         *)
(***************************************************************************)
LEMMA ScoredAddsUp ==
    ASSUME NEW s \in Record, Fair(s), NEW t \in Team, NEW killer \in s.teams[t]
    PROVE  LET r == Scored(s, killer, t)
           IN  /\ r.frags = [s.frags EXCEPT ![t] = @ + 1]
               /\ \A u \in Team : r.frags[u] = SumFunctionOnSet(r.kills, s.teams[u])
               /\ r.limit = s.limit /\ r.forfeit = s.forfeit
<1> DEFINE f == [s.frags EXCEPT ![t] = @ + 1]
           k == [s.kills EXCEPT ![killer] = @ + 1]
<1>1. s.frags \in [Team -> Nat] /\ s.kills \in [Player -> Nat] /\ s.teams \in [Team -> SUBSET Player]
  BY DEF Record
<1>2. Scored(s, killer, t) = [s EXCEPT !.frags = f, !.kills = k]
  BY DEF Scored, Record
<1>3. [s EXCEPT !.frags = f, !.kills = k].frags = f /\ [s EXCEPT !.frags = f, !.kills = k].kills = k
  BY DEF Record
<1>4. [s EXCEPT !.frags = f, !.kills = k].limit = s.limit
      /\ [s EXCEPT !.frags = f, !.kills = k].forfeit = s.forfeit
  BY DEF Record
<1>5. killer \in Player /\ k[killer] = s.kills[killer] + 1 /\ k[killer] \in Nat /\ s.kills[killer] \in Nat
      /\ \A p \in Player : p # killer => k[p] = s.kills[p] /\ s.kills[p] \in Nat
  BY <1>1
<1> HIDE DEF k
<1>6. ASSUME NEW u \in Team PROVE f[u] = SumFunctionOnSet(k, s.teams[u])
  <2>1. IsFiniteSet(s.teams[u]) /\ s.teams[u] \in SUBSET Player
    BY <1>1, PlayerAssumption, FS_Subset DEF PlayerAssumption
  <2>2. SumFunctionOnSet(s.kills, s.teams[u]) = s.frags[u] /\ s.frags[u] \in Nat
    BY <1>1 DEF Fair
  <2>3. CASE u = t
    <3>1. killer \in s.teams[u]
      BY <2>3
    <3>2. \A y \in s.teams[u] \ {killer} : s.kills[y] \in Nat /\ k[y] = s.kills[y]
      BY <1>5, <2>1
    <3> DEFINE new == SumFunctionOnSet(k, s.teams[u])
    <3>3. new + s.kills[killer] = SumFunctionOnSet(s.kills, s.teams[u]) + k[killer]
      BY <1>5, <2>1, <3>1, <3>2, SumChanged
    <3>4. new \in Nat
      <4>1. \A y \in s.teams[u] : k[y] \in Nat
        BY <1>5, <3>2
      <4> QED BY <2>1, <4>1, SumType
    <3> HIDE DEF new
    <3>5. new = s.frags[u] + 1
      BY <1>5, <2>2, <3>3, <3>4
    <3>6. f[u] = s.frags[u] + 1
      BY <1>1, <2>3
    <3> QED BY <3>5, <3>6 DEF new
  <2>4. CASE u # t
    <3>1. killer \notin s.teams[u]
      BY <2>4 DEF Fair, Team
    <3>2. \A y \in s.teams[u] : s.kills[y] \in Nat /\ k[y] = s.kills[y]
      BY <1>5, <2>1, <3>1
    <3>3. SumFunctionOnSet(k, s.teams[u]) = SumFunctionOnSet(s.kills, s.teams[u])
      BY <2>1, <3>2, SumSame
    <3>4. f[u] = s.frags[u]
      BY <1>1, <2>4
    <3> QED BY <2>2, <3>3, <3>4
  <2> QED BY <2>3, <2>4
<1> HIDE DEF f
<1> QED BY <1>2, <1>3, <1>4, <1>6 DEF f

(***************************************************************************)
(* What a step does to the results: it leaves them and the standings alone, *)
(* or it ends one live duel with a result that is remembered.              *)
(***************************************************************************)
LeavesResults ==
    /\ UNCHANGED standings
    /\ \A e \in Duel : duels'[e] = duels[e] \/ "over" \notin {duels[e].state, duels'[e].state}

AddsResult == \E d \in Duel, r \in Record :
    /\ duels[d].state = "live" /\ duels' = [duels EXCEPT ![d] = r]
    /\ r.state = "over" /\ standings' = Remembered(r)

LEMMA ChangeLeavesResults ==
    ASSUME DuelInv, NEW d \in Duel, duels[d].state # "over", NEW r, r.state # "over",
           duels' = [duels EXCEPT ![d] = r], UNCHANGED standings
    PROVE  LeavesResults
BY DEF DuelInv, DuelTypes, LeavesResults

\* finish, with a record of which all is fair but that it is over.
LEMMA FinishIsFair ==
    ASSUME ScoreInv, NEW d \in Duel, duels[d].state = "live", NEW r \in Record,
           r.teams["A"] \cap r.teams["B"] = {},
           \A t \in Team : r.frags[t] = SumFunctionOnSet(r.kills, r.teams[t]),
           r.frags[Other(r.winner)] < r.limit, r.forfeit <=> r.frags[r.winner] < r.limit,
           NEW left, Finish(d, r, left)
    PROVE  (\A e \in Duel : Fair(duels'[e])) /\ AddsResult
<1> DEFINE over == [r EXCEPT !.state = "over"]
<1>1. duels' = [duels EXCEPT ![d] = over] /\ standings' = Remembered(over)
  BY DEF Finish
<1>2. /\ over \in Record /\ over.state = "over" /\ over.teams = r.teams /\ over.kills = r.kills
      /\ over.frags = r.frags /\ over.winner = r.winner /\ over.limit = r.limit
      /\ over.forfeit = r.forfeit
  BY DEF Record, State
<1> HIDE DEF over
<1>3. Fair(over)
  BY <1>2 DEF Fair
<1> QED BY <1>1, <1>2, <1>3, OneFair DEF AddsResult

LEMMA KillIsFair ==
    ASSUME ScoreInv, NEW victim \in Player, NEW killer \in Player, Kill(victim, killer)
    PROVE  (\A e \in Duel : Fair(duels'[e])) /\ (LeavesResults \/ AddsResult)
<1> DEFINE d == sides[killer].duel
           t == sides[killer].team
           s == duels[d]
           r == Scored(s, killer, t)
<1>1. sides[killer] # NoSide
  BY DEF Kill, MayHurt, NoSide
<1>2. d \in Duel /\ t \in Team /\ s.state = "live" /\ killer \in s.teams[t]
  BY <1>1, SealedIsBusy DEF ScoreInv
<1>3. s \in Record /\ Fair(s)
  BY <1>2 DEF ScoreInv, DuelInv, DuelTypes
<1>4. /\ IF r.frags["A"] >= r.limit THEN Finish(d, [r EXCEPT !.winner = "A"], sides)
         ELSE IF r.frags["B"] >= r.limit THEN Finish(d, [r EXCEPT !.winner = "B"], sides)
         ELSE duels' = [duels EXCEPT ![d] = r] /\ UNCHANGED <<busy, sides, standings>>
  BY DEF Kill
<1> HIDE DEF d, t
<1>5. r \in Record /\ r.teams = s.teams /\ r.state = "live"
  <2> HIDE DEF s
  <2> QED BY <1>2, <1>3, ScoredIsRecord
<1>6. /\ r.frags = [s.frags EXCEPT ![t] = @ + 1]
      /\ \A u \in Team : r.frags[u] = SumFunctionOnSet(r.kills, r.teams[u])
      /\ r.limit = s.limit /\ r.forfeit = s.forfeit
  <2> HIDE DEF s
  <2> QED BY <1>2, <1>3, <1>5, ScoredAddsUp
<1>7. r.teams["A"] \cap r.teams["B"] = {} /\ ~r.forfeit
  BY <1>2, <1>3, <1>5, <1>6 DEF Fair
<1>8. r.frags[Other(t)] < r.limit
  <2>1. Other(t) \in Team /\ Other(t) # t
    BY <1>2 DEF Other, Team
  <2>2. s.frags[Other(t)] < s.limit
    BY <1>2, <1>3, <2>1 DEF Fair
  <2>3. s.frags \in [Team -> Nat]
    BY <1>3 DEF Record
  <2> QED BY <1>6, <2>1, <2>2, <2>3
<1>9. DuelInv /\ duels[d].state = "live"
  BY <1>2 DEF ScoreInv
<1> HIDE DEF r, s
<1>10. r.frags \in [Team -> Nat] /\ r.limit \in Nat
  BY <1>5 DEF Record
<1>11. ASSUME NEW w \in Team, r.frags[w] >= r.limit, Finish(d, [r EXCEPT !.winner = w], sides)
       PROVE  (\A e \in Duel : Fair(duels'[e])) /\ AddsResult
  <2> DEFINE won == [r EXCEPT !.winner = w]
  <2>1. /\ won \in Record /\ won.winner = w /\ won.teams = r.teams /\ won.frags = r.frags
        /\ won.kills = r.kills /\ won.limit = r.limit /\ won.forfeit = r.forfeit
    BY <1>5 DEF Record
  <2>2. w = t
    <3>1. ~(r.frags[w] < r.limit)
      BY <1>10, <1>11
    <3> QED BY <1>2, <1>8, <3>1 DEF Other, Team
  <2>3. ~(r.frags[w] < r.limit)
    BY <1>10, <1>11
  <2>4. Finish(d, won, sides)
    BY <1>11
  <2> HIDE DEF won
  <2>5. won.frags[Other(won.winner)] < won.limit /\ (won.forfeit <=> won.frags[won.winner] < won.limit)
    BY <1>7, <1>8, <2>1, <2>2, <2>3
  <2> QED BY <1>2, <1>6, <1>7, <1>9, <2>1, <2>4, <2>5, FinishIsFair
<1>12. ASSUME ~(r.frags["A"] >= r.limit), ~(r.frags["B"] >= r.limit), duels' = [duels EXCEPT ![d] = r],
              UNCHANGED standings
       PROVE  (\A e \in Duel : Fair(duels'[e])) /\ LeavesResults
  <2>1. \A u \in Team : r.frags[u] < r.limit
    BY <1>10, <1>12 DEF Team
  <2>2. Fair(r)
    BY <1>5, <1>6, <1>7, <2>1 DEF Fair
  <2>3. \A e \in Duel : Fair(duels'[e])
    BY <1>2, <1>12, <2>2, OneFair
  <2>4. LeavesResults
    BY <1>2, <1>5, <1>9, <1>12, ChangeLeavesResults
  <2> QED BY <2>3, <2>4
<1>13. "A" \in Team /\ "B" \in Team
  BY DEF Team
<1> QED BY <1>4, <1>11, <1>12, <1>13

\* forfeit: a challenge is called off, a duel ends as it stands.
LEMMA ForfeitIsFair ==
    ASSUME ScoreInv, NEW p \in Player, busy[p] # None, NEW left, Forfeit(p, left)
    PROVE  (\A e \in Duel : Fair(duels'[e])) /\ (LeavesResults \/ AddsResult)
<1> DEFINE d == busy[p]
           s == duels[d]
<1>1. d \in Duel /\ Open(d) /\ DuelInv /\ s \in Record /\ Fair(s)
  BY DEF ScoreInv, DuelInv, DuelTypes, BusyIsOpen
<1>2. CASE s.state = "pending"
  <2>1. Cancelled(d)
    BY <1>2 DEF Forfeit
  <2>2. \A e \in Duel : Fair(duels'[e])
    BY <1>1, <1>2, <2>1, CalledOffIsFair
  <2>3. duels' = [duels EXCEPT ![d] = [s EXCEPT !.state = "off"]] /\ UNCHANGED standings
    BY <1>1, <2>1 DEF Cancelled, DuelInv, DuelTypes
  <2>4. [s EXCEPT !.state = "off"].state # "over"
    BY <1>1 DEF Record
  <2> QED BY <1>1, <1>2, <2>2, <2>3, <2>4, ChangeLeavesResults
<1>3. CASE s.state = "live"
  <2>1. PICK w \in Team : Finish(d, [s EXCEPT !.winner = w, !.forfeit = TRUE], left)
    BY <1>3 DEF Forfeit, Team
  <2> DEFINE r == [s EXCEPT !.winner = w, !.forfeit = TRUE]
  <2>2. r \in Record
    BY <1>1, ResultIsRecord
  <2>3. /\ r.winner = w /\ r.forfeit = TRUE /\ r.teams = s.teams /\ r.frags = s.frags
        /\ r.kills = s.kills /\ r.limit = s.limit
    BY <1>1 DEF Record
  <2>4. Finish(d, r, left)
    BY <2>1
  <2> HIDE DEF r, s
  <2>5. Other(w) \in Team
    BY DEF Other, Team
  <2>6. /\ s.teams["A"] \cap s.teams["B"] = {}
        /\ \A u \in Team : s.frags[u] = SumFunctionOnSet(s.kills, s.teams[u]) /\ s.frags[u] < s.limit
    BY <1>1, <1>3 DEF Fair
  <2>7. r.frags[Other(r.winner)] < r.limit /\ (r.forfeit <=> r.frags[r.winner] < r.limit)
    BY <2>3, <2>5, <2>6
  <2>8. duels[d].state = "live"
    BY <1>3 DEF s
  <2> HIDE DEF d
  <2> QED BY <1>1, <2>2, <2>3, <2>4, <2>6, <2>7, <2>8, FinishIsFair
<1> QED BY <1>1, <1>2, <1>3 DEF Open

LEMMA ScoreStep == ScoreInv /\ [Next]_vars => ScoreInv' /\ (LeavesResults \/ AddsResult)
<1> SUFFICES ASSUME ScoreInv, [Next]_vars
             PROVE  (\A e \in Duel : Fair(duels'[e])) /\ (LeavesResults \/ AddsResult)
  BY DuelStep DEF ScoreInv
<1>1. ASSUME UNCHANGED <<duels, standings>>
      PROVE  (\A e \in Duel : Fair(duels'[e])) /\ LeavesResults
  BY <1>1 DEF ScoreInv, LeavesResults
<1>2. ASSUME NEW p \in Player, SignIn(p)
      PROVE  (\A e \in Duel : Fair(duels'[e])) /\ LeavesResults
  BY <1>1, <1>2 DEF SignIn
<1>3. ASSUME NEW d \in Duel, NEW a \in Sides, NEW b \in Sides, NEW limit \in 1..MAX_LIMIT,
             NEW host \in a, Challenge(d, host, a, b, limit)
      PROVE  (\A e \in Duel : Fair(duels'[e])) /\ LeavesResults
  <2>1. a \in SUBSET Player /\ b \in SUBSET Player
    BY DEF Sides, kSubset
  <2>2. \A e \in Duel : Fair(duels'[e])
    BY <1>3, <2>1, ChallengeIsFair
  <2>3. DuelInv /\ duels[d].state # "over"
    BY <1>3 DEF ScoreInv, Challenge, Unused
  <2>4. PICK r : r.state = "pending" /\ duels' = [duels EXCEPT ![d] = r]
    BY <1>3 DEF Challenge, Unused
  <2>5. r.state # "over" /\ UNCHANGED standings
    BY <1>3, <2>4 DEF Challenge
  <2> QED BY <2>2, <2>3, <2>4, <2>5, ChangeLeavesResults
<1>4. ASSUME NEW d \in Duel, NEW p \in Player, Accept(d, p)
      PROVE  (\A e \in Duel : Fair(duels'[e])) /\ LeavesResults
  <2>1. DuelInv /\ duels \in [Duel -> Record] /\ duels[d].state = "pending" /\ UNCHANGED standings
    BY <1>4 DEF ScoreInv, DuelInv, DuelTypes, Accept
  <2>2. \A e \in Duel : e # d => duels'[e] = duels[e]
    BY <1>4, <2>1 DEF Accept
  <2>3. duels'[d].state \in {"pending", "live"}
    <3>1. [duels[d] EXCEPT !.accepted = Agreed(d, p)].state = "pending"
      BY <2>1 DEF Record
    <3>2. \A x \in {"pending", "live"} : [duels[d] EXCEPT !.accepted = Agreed(d, p), !.state = "live"].state = "live"
      BY <2>1 DEF Record
    <3> QED BY <1>4, <2>1, <3>1, <3>2 DEF Accept
  <2>4. LeavesResults
    BY <2>1, <2>2, <2>3 DEF LeavesResults
  <2> QED BY <1>4, <2>4, AcceptIsFair
<1>5. ASSUME NEW d \in Duel, duels[d].state = "pending", Cancelled(d)
      PROVE  (\A e \in Duel : Fair(duels'[e])) /\ LeavesResults
  <2>1. DuelInv /\ duels[d].state # "over" /\ duels[d] \in Record
    BY <1>5 DEF ScoreInv, DuelInv, DuelTypes
  <2>2. duels' = [duels EXCEPT ![d] = [duels[d] EXCEPT !.state = "off"]] /\ UNCHANGED standings
    BY <1>5 DEF Cancelled, ScoreInv, DuelInv, DuelTypes
  <2>3. [duels[d] EXCEPT !.state = "off"].state # "over"
    BY <2>1 DEF Record
  <2>4. LeavesResults
    BY <2>1, <2>2, <2>3, ChangeLeavesResults
  <2> QED BY <1>5, <2>4, CalledOffIsFair
<1>6. ASSUME NEW d \in Duel, NEW p \in Player, Decline(d, p)
      PROVE  (\A e \in Duel : Fair(duels'[e])) /\ LeavesResults
  BY <1>5, <1>6 DEF Decline
<1>7. ASSUME NEW d \in Duel, Expire(d)
      PROVE  (\A e \in Duel : Fair(duels'[e])) /\ LeavesResults
  BY <1>5, <1>7 DEF Expire
<1>8. ASSUME NEW p \in Player, GiveUp(p)
      PROVE  (\A e \in Duel : Fair(duels'[e])) /\ (LeavesResults \/ AddsResult)
  BY <1>8, ForfeitIsFair DEF GiveUp
<1>9. ASSUME NEW p \in Player, Leave(p)
      PROVE  (\A e \in Duel : Fair(duels'[e])) /\ (LeavesResults \/ AddsResult)
  <2>1. CASE busy[p] # None
    BY <1>9, <2>1, ForfeitIsFair DEF Leave
  <2>2. CASE busy[p] = None
    BY <1>1, <1>9, <2>2 DEF Leave
  <2> QED BY <2>1, <2>2
<1>10. CASE UNCHANGED vars
  BY <1>1, <1>10 DEF vars
<1> QED BY <1>2, <1>3, <1>4, <1>6, <1>7, <1>8, <1>9, <1>10, KillIsFair DEF Next

LEMMA ScoresHold == Spec => []ScoreInv
<1>1. Init => ScoreInv
  <2>1. Init => \A d \in Duel : Fair(duels[d])
    BY UnusedIsFair DEF Init
  <2> QED BY <2>1, DuelInit DEF ScoreInv
<1> QED BY <1>1, ScoreStep, PTL DEF Spec

(***************************************************************************)
(* A team's frags are the kills of its own players; a duel ends when one    *)
(* side has the limit, or somebody walks out, and the winner is the side   *)
(* that has it (Health.onKill's watcher, finish, forfeit).                 *)
(***************************************************************************)
THEOREM ScoreCorrect == Spec => []ScoreIsFought
<1>1. ScoreInv => ScoreIsFought
  BY DEF ScoreInv, ScoreIsFought, Fair
<1> QED BY <1>1, ScoresHold, PTL

-----------------------------------------------------------------------------
(***************************************************************************)
(* The standings, of any record D of duels: Tally(D, a) is what they are of  *)
(* an account, in the words of StandingsAddUp.  Only finitely many have     *)
(* fought, or there would be nothing to add up.                            *)
(***************************************************************************)
FoughtIn(D, a) == {x \in Duel \X Player : /\ D[x[1]].state = "over"
                                          /\ x[2] \in Everyone(D[x[1]]) /\ WalletOf[x[2]] = a}
WonIn(D, a) == {x \in FoughtIn(D, a) : x[2] \in D[x[1]].teams[D[x[1]].winner]}
KillsIn(D, a) == [x \in FoughtIn(D, a) |-> D[x[1]].kills[x[2]]]
Tally(D, a) == [kills  |-> SumFunction(KillsIn(D, a)),
                wins   |-> Cardinality(WonIn(D, a)),
                losses |-> Cardinality(FoughtIn(D, a) \ WonIn(D, a))]

TallyInv == /\ ScoreInv
            /\ standings \in [Account -> [kills : Nat, wins : Nat, losses : Nat]]
            /\ \A a \in Account : IsFiniteSet(FoughtIn(duels, a)) /\ standings[a] = Tally(duels, a)

\* A step that leaves the results leaves what they add up to.
LEMMA LeavesTally ==
    ASSUME LeavesResults, NEW a \in Account
    PROVE  FoughtIn(duels', a) = FoughtIn(duels, a) /\ Tally(duels', a) = Tally(duels, a)
<1>1. \A e \in Duel : duels'[e] = duels[e] \/ (duels[e].state # "over" /\ duels'[e].state # "over")
  BY DEF LeavesResults
<1>2. FoughtIn(duels', a) = FoughtIn(duels, a)
  <2>1. \A x \in Duel \X Player :
           (duels'[x[1]].state = "over" /\ x[2] \in Everyone(duels'[x[1]]) /\ WalletOf[x[2]] = a)
             <=> (duels[x[1]].state = "over" /\ x[2] \in Everyone(duels[x[1]]) /\ WalletOf[x[2]] = a)
    BY <1>1
  <2> QED BY <2>1 DEF FoughtIn
<1>3. \A x \in FoughtIn(duels, a) : duels'[x[1]] = duels[x[1]]
  BY <1>1 DEF FoughtIn
<1>4. WonIn(duels', a) = WonIn(duels, a)
  BY <1>2, <1>3 DEF WonIn
<1>5. KillsIn(duels', a) = KillsIn(duels, a)
  BY <1>2, <1>3 DEF KillsIn
<1> QED BY <1>2, <1>4, <1>5 DEF Tally

(***************************************************************************)
(* A result adds to an account what remember adds: the kills, wins and      *)
(* losses of those of its players who fought, once each.                   *)
(***************************************************************************)
LEMMA AddsTally ==
    ASSUME TallyInv, NEW d \in Duel, NEW r \in Record, duels[d].state = "live",
           duels' = [duels EXCEPT ![d] = r], r.state = "over", standings' = Remembered(r),
           NEW a \in Account
    PROVE  IsFiniteSet(FoughtIn(duels', a)) /\ standings'[a] = Tally(duels', a)
<1> DEFINE mine == {p \in Everyone(r) : WalletOf[p] = a}
           winners == mine \cap r.teams[r.winner]
           losers == mine \ r.teams[r.winner]
           old == FoughtIn(duels, a)
           won == WonIn(duels, a)
           before == standings[a]
<1>1. duels'[d] = r /\ \A e \in Duel : e # d => duels'[e] = duels[e]
  BY DEF TallyInv, ScoreInv, DuelInv, DuelTypes
<1>2. /\ r.teams \in [Team -> SUBSET Player] /\ r.winner \in Team /\ r.kills \in [Player -> Nat]
      /\ Everyone(r) \subseteq Player
  BY DEF Record, Everyone, Team
<1>3. IsFiniteSet(mine) /\ IsFiniteSet(winners) /\ IsFiniteSet(losers) /\ mine \subseteq Player
  BY <1>2, PlayerAssumption, FS_Subset DEF PlayerAssumption
<1>4. \A x \in old : x[1] # d /\ x = <<x[1], x[2]>> /\ x[1] \in Duel /\ x[2] \in Player
  BY DEF FoughtIn
<1>5. won \subseteq old
  BY DEF WonIn
<1>6. IsFiniteSet(old) /\ IsFiniteSet(won) /\ IsFiniteSet(old \ won)
  BY <1>5, FS_Subset DEF TallyInv
<1>7. before = Tally(duels, a) /\ before \in [kills : Nat, wins : Nat, losses : Nat]
  BY DEF TallyInv
<1>8. standings'[a] = [kills  |-> before.kills + SumFunctionOnSet(r.kills, mine),
                       wins   |-> before.wins + Cardinality(winners),
                       losses |-> before.losses + Cardinality(losers)]
  BY DEF Remembered
<1>9. FoughtIn(duels', a) = old \cup Paired(d, mine)
  <2>1. ASSUME NEW x \in Duel \X Player
        PROVE  x \in FoughtIn(duels', a) <=> x \in old \cup Paired(d, mine)
    <3>1. CASE x[1] = d
      <4>1. x \notin old
        BY <1>4, <3>1
      <4>2. x \in Paired(d, mine) <=> x[2] \in mine
        BY <3>1 DEF Paired
      <4>3. x \in FoughtIn(duels', a) <=> x[2] \in Everyone(r) /\ WalletOf[x[2]] = a
        BY <1>1, <3>1 DEF FoughtIn
      <4> QED BY <4>1, <4>2, <4>3
    <3>2. CASE x[1] # d
      <4>1. x \notin Paired(d, mine)
        BY <3>2 DEF Paired
      <4>2. x \in FoughtIn(duels', a) <=> x \in old
        BY <1>1, <3>2 DEF FoughtIn
      <4> QED BY <4>1, <4>2
    <3> QED BY <3>1, <3>2
  <2>2. FoughtIn(duels', a) \subseteq Duel \X Player /\ old \subseteq Duel \X Player
    BY DEF FoughtIn
  <2>3. Paired(d, mine) \subseteq Duel \X Player
    BY <1>3 DEF Paired
  <2> HIDE DEF old, mine
  <2> QED BY <2>1, <2>2, <2>3
<1>10. WonIn(duels', a) = won \cup Paired(d, winners)
  <2>1. WonIn(duels', a) = {x \in old \cup Paired(d, mine) : x[2] \in duels'[x[1]].teams[duels'[x[1]].winner]}
    BY <1>9 DEF WonIn
  <2>2. \A x \in old : x \in won <=> x[2] \in duels'[x[1]].teams[duels'[x[1]].winner]
    BY <1>1, <1>4 DEF WonIn
  <2>3. \A x \in Paired(d, mine) : x \in Paired(d, winners) <=> x[2] \in duels'[x[1]].teams[duels'[x[1]].winner]
    BY <1>1 DEF Paired
  <2>4. Paired(d, winners) \subseteq Paired(d, mine)
    BY DEF Paired
  <2>5. \A x \in Paired(d, mine) : x \notin old
    BY <1>4 DEF Paired
  <2> HIDE DEF old, won, mine, winners
  <2> QED BY <1>5, <2>1, <2>2, <2>3, <2>4, <2>5
<1>11. FoughtIn(duels', a) \ WonIn(duels', a) = (old \ won) \cup Paired(d, losers)
  <2>1. \A x \in Paired(d, mine) : x \in Paired(d, losers) <=> x \notin Paired(d, winners)
    BY DEF Paired
  <2>2. Paired(d, losers) \subseteq Paired(d, mine)
    BY DEF Paired
  <2>3. \A x \in Paired(d, mine) : x \notin old
    BY <1>4 DEF Paired
  <2>4. Paired(d, winners) \subseteq Paired(d, mine)
    BY DEF Paired
  <2> HIDE DEF old, won, mine, winners, losers
  <2> QED BY <1>5, <1>9, <1>10, <2>1, <2>2, <2>3, <2>4
<1>12. \A x : x \in old => x \notin Paired(d, mine)
  BY <1>4 DEF Paired
<1> HIDE DEF old, won, mine, winners, losers, before
<1>13. /\ winners \subseteq mine /\ losers \subseteq mine
  BY DEF winners, losers
<1>14. /\ old \cap Paired(d, mine) = {} /\ won \cap Paired(d, winners) = {}
       /\ (old \ won) \cap Paired(d, losers) = {}
  <2>1. Paired(d, winners) \subseteq Paired(d, mine) /\ Paired(d, losers) \subseteq Paired(d, mine)
    BY <1>13 DEF Paired
  <2> QED BY <1>5, <1>12, <2>1
<1>15. IsFiniteSet(FoughtIn(duels', a))
  <2>1. IsFiniteSet(old \cup Paired(d, mine))
    BY <1>3, <1>6, <1>14, PairedCount
  <2> QED BY <1>9, <2>1
<1>16. Cardinality(WonIn(duels', a)) = Cardinality(won) + Cardinality(winners)
  BY <1>3, <1>6, <1>10, <1>14, PairedCount
<1>17. Cardinality(FoughtIn(duels', a) \ WonIn(duels', a)) = Cardinality(old \ won) + Cardinality(losers)
  <2>1. Cardinality((old \ won) \cup Paired(d, losers)) = Cardinality(old \ won) + Cardinality(losers)
    BY <1>3, <1>6, <1>14, PairedCount
  <2> QED BY <1>11, <2>1
<1>18. SumFunction(KillsIn(duels', a)) = SumFunction(KillsIn(duels, a)) + SumFunctionOnSet(r.kills, mine)
  <2> DEFINE f == KillsIn(duels, a)
             g == KillsIn(duels', a)
  <2>1. DOMAIN f = old /\ DOMAIN g = old \cup Paired(d, mine)
    BY <1>9 DEF KillsIn, old
  <2>2. \A x \in old : g[x] = f[x] /\ f[x] \in Nat
    <3> SUFFICES ASSUME NEW x \in old PROVE g[x] = f[x] /\ f[x] \in Nat
      OBVIOUS
    <3>1. duels'[x[1]] = duels[x[1]] /\ x \in FoughtIn(duels, a) /\ x \in FoughtIn(duels', a)
      BY <1>1, <1>4, <1>9 DEF old
    <3>2. f[x] = duels[x[1]].kills[x[2]] /\ g[x] = f[x]
      BY <3>1 DEF KillsIn
    <3>3. duels[x[1]].kills \in [Player -> Nat]
      BY <1>4 DEF TallyInv, ScoreInv, DuelInv, DuelTypes, Record
    <3> QED BY <1>4, <3>2, <3>3
  <2>3. \A p \in mine : r.kills[p] \in Nat /\ g[<<d, p>>] = r.kills[p]
    <3> SUFFICES ASSUME NEW p \in mine PROVE r.kills[p] \in Nat /\ g[<<d, p>>] = r.kills[p]
      OBVIOUS
    <3>1. <<d, p>> \in FoughtIn(duels', a)
      BY <1>9 DEF Paired
    <3> QED BY <1>1, <1>2, <1>3, <3>1 DEF KillsIn
  <2> HIDE DEF f, g
  <2>4. SumFunctionOnSet(g, old) = SumFunctionOnSet(f, old)
    BY <1>6, <2>2, SumSame
  <2>5. SumFunctionOnSet(g, Paired(d, mine)) = SumFunctionOnSet(r.kills, mine)
    BY <1>3, <2>3, SumPaired
  <2>6. \A x \in old \cup Paired(d, mine) : g[x] \in Nat
    BY <2>2, <2>3 DEF Paired
  <2>7. IsFiniteSet(Paired(d, mine))
    BY <1>3, FS_Singleton, FS_Product DEF Paired
  <2>8. SumFunctionOnSet(g, old \cup Paired(d, mine))
           = SumFunctionOnSet(g, old) + SumFunctionOnSet(g, Paired(d, mine))
    BY <1>6, <1>14, <2>6, <2>7, SumUnion
  <2> QED BY <2>1, <2>4, <2>5, <2>8 DEF SumFunction, f, g
<1>19. /\ before.kills = SumFunction(KillsIn(duels, a)) /\ before.wins = Cardinality(won)
       /\ before.losses = Cardinality(old \ won)
  BY <1>7 DEF Tally, old, won
<1> QED BY <1>8, <1>15, <1>16, <1>17, <1>18, <1>19 DEF Tally

\* What remember writes are numbers.
LEMMA RememberedIsStandings ==
    ASSUME TallyInv, NEW r \in Record
    PROVE  Remembered(r) \in [Account -> [kills : Nat, wins : Nat, losses : Nat]]
<1> SUFFICES ASSUME NEW a \in Account
             PROVE  LET mine == {p \in Everyone(r) : WalletOf[p] = a}
                    IN  /\ standings[a].kills + SumFunctionOnSet(r.kills, mine) \in Nat
                        /\ standings[a].wins + Cardinality(mine \intersect r.teams[r.winner]) \in Nat
                        /\ standings[a].losses + Cardinality(mine \ r.teams[r.winner]) \in Nat
  BY DEF Remembered
<1> DEFINE mine == {p \in Everyone(r) : WalletOf[p] = a}
<1>1. standings[a].kills \in Nat /\ standings[a].wins \in Nat /\ standings[a].losses \in Nat
  BY DEF TallyInv
<1>2. mine \subseteq Player /\ \A p \in Player : r.kills[p] \in Nat
  BY DEF Record, Everyone, Team
<1>3. IsFiniteSet(mine) /\ IsFiniteSet(mine \intersect r.teams[r.winner]) /\ IsFiniteSet(mine \ r.teams[r.winner])
  BY <1>2, PlayerAssumption, FS_Subset DEF PlayerAssumption
<1>4. SumFunctionOnSet(r.kills, mine) \in Nat
  BY <1>2, PlayerAssumption, SumType DEF PlayerAssumption
<1>5. Cardinality(mine \intersect r.teams[r.winner]) \in Nat /\ Cardinality(mine \ r.teams[r.winner]) \in Nat
  BY <1>3, FS_CardinalityType
<1> QED BY <1>1, <1>4, <1>5

LEMMA TallyStep == TallyInv /\ [Next]_vars => TallyInv'
<1> SUFFICES ASSUME TallyInv, [Next]_vars PROVE TallyInv'
  OBVIOUS
<1>1. ScoreInv' /\ (LeavesResults \/ AddsResult)
  BY ScoreStep DEF TallyInv
<1>2. CASE LeavesResults
  <2>1. UNCHANGED standings
    BY <1>2 DEF LeavesResults
  <2>2. \A a \in Account : IsFiniteSet(FoughtIn(duels', a)) /\ standings'[a] = Tally(duels', a)
    BY <1>2, <2>1, LeavesTally DEF TallyInv
  <2> QED BY <1>1, <2>1, <2>2 DEF TallyInv, FoughtIn, Tally, WonIn, KillsIn
<1>3. CASE AddsResult
  <2>1. PICK d \in Duel, r \in Record :
           /\ duels[d].state = "live" /\ duels' = [duels EXCEPT ![d] = r]
           /\ r.state = "over" /\ standings' = Remembered(r)
    BY <1>3 DEF AddsResult
  <2>2. standings' \in [Account -> [kills : Nat, wins : Nat, losses : Nat]]
    BY <2>1, RememberedIsStandings
  <2>3. \A a \in Account : IsFiniteSet(FoughtIn(duels', a)) /\ standings'[a] = Tally(duels', a)
    BY <2>1, AddsTally
  <2> QED BY <1>1, <2>2, <2>3 DEF TallyInv, FoughtIn, Tally, WonIn, KillsIn
<1> QED BY <1>1, <1>2, <1>3

\* Before the first duel everybody has nothing.
LEMMA TallyInit == Init => TallyInv
<1> SUFFICES ASSUME Init PROVE TallyInv
  OBVIOUS
<1>1. ScoreInv
  <2>1. \A d \in Duel : Fair(duels[d])
    BY UnusedIsFair DEF Init
  <2> QED BY <2>1, DuelInit DEF ScoreInv
<1>2. \A d \in Duel : duels[d].state = "unused"
  BY DEF Init, Unused
<1>3. ASSUME NEW a \in Account
      PROVE  IsFiniteSet(FoughtIn(duels, a)) /\ Unranked = Tally(duels, a)
  <2>1. FoughtIn(duels, a) = {} /\ WonIn(duels, a) = {}
    BY <1>2 DEF FoughtIn, WonIn
  <2>2. DOMAIN KillsIn(duels, a) = {}
    BY <2>1 DEF KillsIn
  <2>3. SumFunction(KillsIn(duels, a)) = 0
    BY <2>2, SumEmpty DEF SumFunction
  <2>4. IsFiniteSet({}) /\ Cardinality({}) = 0
    BY FS_EmptySet
  <2>5. FoughtIn(duels, a) \ WonIn(duels, a) = {}
    BY <2>1
  <2> QED BY <2>1, <2>3, <2>4, <2>5 DEF Tally, Unranked
<1>4. standings \in [Account -> [kills : Nat, wins : Nat, losses : Nat]] /\ \A a \in Account : standings[a] = Unranked
  BY DEF Init, Unranked
<1> QED BY <1>1, <1>3, <1>4 DEF TallyInv

(***************************************************************************)
(* The standings are the town's record summed up: every result counted once *)
(* for everybody who fought in it, whether or not they were still there     *)
(* (finish, remember).                                                     *)
(***************************************************************************)
THEOREM StandingsCorrect == Spec => []StandingsAddUp
<1>1. TallyInv => StandingsAddUp
  <2> SUFFICES ASSUME TallyInv, NEW a \in Account
      PROVE  standings[a] =
                [kills  |-> SumFunction([x \in Fought(a) |-> duels[x[1]].kills[x[2]]]),
                 wins   |-> Cardinality({x \in Fought(a) :
                                            x[2] \in duels[x[1]].teams[duels[x[1]].winner]}),
                 losses |-> Cardinality(Fought(a) \ {x \in Fought(a) :
                                            x[2] \in duels[x[1]].teams[duels[x[1]].winner]})]
    BY DEF StandingsAddUp
  <2>1. FoughtIn(duels, a) = Fought(a)
    BY DEF FoughtIn, Fought
  <2> QED BY <2>1 DEF TallyInv, Tally, KillsIn, WonIn
<1> QED BY <1>1, TallyInit, TallyStep, PTL DEF Spec
=============================================================================
