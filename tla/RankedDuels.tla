---------------------------- MODULE RankedDuels ----------------------------
(***************************************************************************)
(* Ranked duels of the town: Duels.luau, the sides Health.luau keeps for   *)
(* it, and the calls of Funmaster Mike's desk.  One player challenges      *)
(* another, or two challenge two; once everybody has said yes they fight   *)
(* to a number of frags; a result goes on the town's record and into the   *)
(* standings of the accounts that fought.                                  *)
(*                                                                         *)
(* The server's scripts run one handler at a time and nothing here yields  *)
(* (data stores answer at once), so a handler is a step.  A Player object   *)
(* that has left does not come back: joining again makes another one.      *)
(***************************************************************************)
EXTENDS Naturals, FiniteSets, FiniteSetsExt

CONSTANTS Player, Account,
          Duel,         \* the ids newId gives out, as many as are ever asked for
          WalletOf,     \* the account whose wallet signs a player in
          MAX_LIMIT     \* Duels.MAX_LIMIT; Duels.MIN_LIMIT is 1

ASSUME PlayerAssumption == IsFiniteSet(Player)
ASSUME WalletAssumption == WalletOf \in [Player -> Account]
ASSUME LimitAssumption == MAX_LIMIT \in Nat \ {0}

None == "none"
ASSUME DuelAssumption == None \notin Duel
Team == {"A", "B"}
Other(t) == IF t = "A" THEN "B" ELSE "A"

VARIABLES here,       \* players whose Parent is Players
          signedIn,   \* players with a WalletAddress
          duels,      \* what is pending, live, called off or on the record
          busy,       \* the challenge or duel a player is in
          sides,      \* Health's: the duel and team of a player
          standings   \* "stats/" and DuelKills of an account
vars == <<here, signedIn, duels, busy, sides, standings>>

NoSide == [duel |-> None, team |-> "A"]
Unused == [state |-> "unused", teams |-> [t \in Team |-> {}], limit |-> 0,
           accepted |-> {}, kills |-> [p \in Player |-> 0],
           frags |-> [t \in Team |-> 0], winner |-> "A", forfeit |-> FALSE]
Unranked == [kills |-> 0, wins |-> 0, losses |-> 0]

Init == /\ here = Player
        /\ signedIn = {}
        /\ duels = [d \in Duel |-> Unused]
        /\ busy = [p \in Player |-> None]
        /\ sides = [p \in Player |-> NoSide]
        /\ standings = [a \in Account |-> Unranked]

Everyone(r) == r.teams["A"] \union r.teams["B"]
Free(p) == p \in here /\ p \in signedIn /\ busy[p] = None

SignIn(p) == /\ p \in here \ signedIn
             /\ signedIn' = signedIn \union {p}
             /\ UNCHANGED <<here, duels, busy, sides, standings>>

(***************************************************************************)
(* Challenging.  A team is a set, so nobody is on it twice.                *)
(***************************************************************************)
\* Mutant of MayFace: the challenged are not asked whether they are free.
MayFaceBusy(a, b) == /\ Cardinality(a) \in 1..2 /\ Cardinality(b) = Cardinality(a)
                     /\ a \intersect b = {}
                     /\ \A p \in a : Free(p)

MayFace(a, b) == /\ Cardinality(a) \in 1..2 /\ Cardinality(b) = Cardinality(a)
                 /\ a \intersect b = {}
                 /\ \A p \in a \union b : Free(p)

Sides == kSubset(1, Player) \union kSubset(2, Player)

Challenge(d, host, a, b, limit) ==
    /\ duels[d] = Unused
    /\ host \in a /\ MayFace(a, b)
    /\ duels' = [duels EXCEPT ![d] = [Unused EXCEPT
           !.state = "pending", !.limit = limit, !.accepted = {host},
           !.teams = [t \in Team |-> IF t = "A" THEN a ELSE b]]]
    /\ busy' = [p \in Player |-> IF p \in a \union b THEN d ELSE busy[p]]
    /\ UNCHANGED <<here, signedIn, sides, standings>>

Released(d) == [p \in Player |-> IF busy[p] = d THEN None ELSE busy[p]]

\* Mutant of Cancelled: everybody is let go and the challenge stays open.
CancelledNot(d) == /\ busy' = Released(d)
                   /\ UNCHANGED <<duels, standings>>

Cancelled(d) == /\ duels' = [duels EXCEPT ![d].state = "off"]
                /\ busy' = Released(d)
                /\ UNCHANGED standings

\* start: everybody on their side; a duel that is not full yet only notes the yes.
Agreed(d, p) == duels[d].accepted \union {p}
Start(d) == [p \in Player |->
    IF p \in Everyone(duels[d])
    THEN [duel |-> d, team |-> IF p \in duels[d].teams["A"] THEN "A" ELSE "B"]
    ELSE sides[p]]

Accept(d, p) ==
    /\ p \in here /\ duels[d].state = "pending" /\ busy[p] = d
    /\ IF Everyone(duels[d]) \subseteq Agreed(d, p)
       THEN /\ duels' = [duels EXCEPT ![d].accepted = Agreed(d, p), ![d].state = "live"]
            /\ sides' = Start(d)
       ELSE /\ duels' = [duels EXCEPT ![d].accepted = Agreed(d, p)]
            /\ UNCHANGED sides
    /\ UNCHANGED <<here, signedIn, busy, standings>>

Decline(d, p) == /\ p \in here /\ duels[d].state = "pending" /\ busy[p] = d
                 /\ Cancelled(d)
                 /\ UNCHANGED <<here, signedIn, sides>>

\* task.delay(ANSWER_SECONDS): nobody is let wait for ever.
Expire(d) == /\ duels[d].state = "pending"
             /\ Cancelled(d)
             /\ UNCHANGED <<here, signedIn, sides>>

(***************************************************************************)
(* Fighting.                                                               *)
(***************************************************************************)
\* Health.mayHurt, as far as duels go: outside one the town's own rules hold,
\* and no kill there is anybody's frag.
MayHurt(p, q) == /\ sides[p].duel # None /\ sides[p].duel = sides[q].duel
                 /\ sides[p].team # sides[q].team

\* remember: each account's standings once for each of its players.
\* Mutant of Remembered: the other side's win is counted too.
RememberedBoth(r) == [a \in Account |->
    LET mine == {p \in Everyone(r) : WalletOf[p] = a}
    IN  [kills  |-> standings[a].kills + SumFunctionOnSet(r.kills, mine),
         wins   |-> standings[a].wins + Cardinality(mine),
         losses |-> standings[a].losses + Cardinality(mine \ r.teams[r.winner])]]

Remembered(r) == [a \in Account |->
    LET mine == {p \in Everyone(r) : WalletOf[p] = a}
    IN  [kills  |-> standings[a].kills + SumFunctionOnSet(r.kills, mine),
         wins   |-> standings[a].wins + Cardinality(mine \intersect r.teams[r.winner]),
         losses |-> standings[a].losses + Cardinality(mine \ r.teams[r.winner])]]

\* Mutant of OffSides: only the winners are taken off their side.
OffSidesWinners(r, left) == [p \in Player |-> IF p \in r.teams[r.winner] THEN NoSide ELSE left[p]]

OffSides(r, left) == [p \in Player |-> IF p \in Everyone(r) THEN NoSide ELSE left[p]]

\* finish, for the record r of a live duel; `left' is sides as they are by now.
Finish(d, r, left) ==
    LET over == [r EXCEPT !.state = "over"]
    IN  /\ duels' = [duels EXCEPT ![d] = over]
        /\ sides' = OffSides(over, left)
        /\ busy' = [p \in Player |-> IF p \in Everyone(r) THEN None ELSE busy[p]]
        /\ standings' = Remembered(over)

\* Mutant of Scored: the frag is the victim's side's.
ScoredBackwards(r, killer, team) == [r EXCEPT !.frags[Other(team)] = @ + 1, !.kills[killer] = @ + 1]

Scored(r, killer, team) == [r EXCEPT !.frags[team] = @ + 1, !.kills[killer] = @ + 1]

\* died, and the watcher Duels gave to Health.onKill.  A death nobody of the
\* duel is credited with changes nothing here.
Kill(victim, killer) ==
    LET d == sides[killer].duel  t == sides[killer].team
    IN  /\ {victim, killer} \subseteq here /\ MayHurt(killer, victim)
        /\ LET r == Scored(duels[d], killer, t)
           IN  IF r.frags["A"] >= r.limit THEN Finish(d, [r EXCEPT !.winner = "A"], sides)
               ELSE IF r.frags["B"] >= r.limit THEN Finish(d, [r EXCEPT !.winner = "B"], sides)
               ELSE duels' = [duels EXCEPT ![d] = r] /\ UNCHANGED <<busy, sides, standings>>
        /\ UNCHANGED <<here, signedIn>>

(***************************************************************************)
(* Walking out.  Duels.forfeit asks Health which side the player is on.    *)
(***************************************************************************)
Forfeit(p, left) ==
    LET d == busy[p]
        winner == IF left[p] # NoSide /\ left[p].team = "A" THEN "B" ELSE "A"
    IN  CASE duels[d].state = "pending" -> Cancelled(d) /\ sides' = left
          [] duels[d].state = "live" ->
                Finish(d, [duels[d] EXCEPT !.winner = winner, !.forfeit = TRUE], left)

GiveUp(p) == /\ p \in here /\ busy[p] # None
             /\ Forfeit(p, sides)
             /\ UNCHANGED <<here, signedIn>>

\* Runtime::removePlayer: PlayerRemoving calls its handlers in the order they
\* were connected.  Health's, which forgets the side, is connected when Duels
\* requires it, before the one of Duels.
Leave(p) == /\ p \in here
            /\ here' = here \ {p}
            /\ LET left == [sides EXCEPT ![p] = NoSide]
               IN  IF busy[p] # None THEN Forfeit(p, left)
                   ELSE sides' = left /\ UNCHANGED <<duels, busy, standings>>
            /\ UNCHANGED signedIn

Next == \/ \E p \in Player : SignIn(p) \/ GiveUp(p) \/ Leave(p)
        \/ \E d \in Duel : \E a, b \in Sides, limit \in 1..MAX_LIMIT : \E host \in a :
               Challenge(d, host, a, b, limit)
        \/ \E d \in Duel, p \in Player : Accept(d, p) \/ Decline(d, p)
        \/ \E d \in Duel : Expire(d)
        \/ \E victim, killer \in Player : Kill(victim, killer)

Spec == Init /\ [][Next]_vars
\* The one thing that happens by itself: a task.delay runs.
FairSpec == Spec /\ \A d \in Duel : WF_vars(Expire(d))

-----------------------------------------------------------------------------
Open(d) == duels[d].state \in {"pending", "live"}

\* Whoever is in an open challenge or duel is busy with that one and no other, nobody else is
\* busy, and everybody in it is still here: an absent player, or one who is in two, could never
\* say yes, be hit or be let go (Duels.challenge, release, finish, PlayerRemoving).
BusyIsOpen == \A p \in Player :
    /\ busy[p] # None => Open(busy[p]) /\ p \in Everyone(duels[busy[p]]) /\ p \in here
    /\ \A d \in Duel : Open(d) /\ p \in Everyone(duels[d]) => busy[p] = d

\* Health seals exactly those who are in a live duel, each on the side they fight for: a side
\* left behind makes a player untouchable for the rest of their stay (Health.mayHurt).
SealedIsLive == \A p \in Player :
    /\ sides[p] # NoSide => /\ duels[sides[p].duel].state = "live"
                            /\ p \in duels[sides[p].duel].teams[sides[p].team]
    /\ \A d \in Duel : duels[d].state = "live" /\ p \in Everyone(duels[d]) => sides[p].duel = d

\* A team's frags are its own players' kills, a duel ends as soon as one side has the limit and
\* only then or by walking out, and the side that has it is the winner (Health.onKill's watcher).
ScoreIsFought == \A d \in Duel : LET r == duels[d] IN
    /\ \A t \in Team : r.frags[t] = SumFunctionOnSet(r.kills, r.teams[t])
    /\ r.state = "live" => \A t \in Team : r.frags[t] < r.limit
    /\ r.state = "over" => /\ r.frags[Other(r.winner)] < r.limit
                           /\ r.forfeit <=> r.frags[r.winner] < r.limit

Fought(a) == {x \in Duel \X Player : /\ duels[x[1]].state = "over"
                                     /\ x[2] \in Everyone(duels[x[1]]) /\ WalletOf[x[2]] = a}

\* The standings are the town's record summed up: every result counted once for everybody who
\* fought in it, whether or not they were still there, under the account they fought as (remember).
StandingsAddUp == \A a \in Account :
    LET won == {x \in Fought(a) : x[2] \in duels[x[1]].teams[duels[x[1]].winner]}
    IN  standings[a] = [kills  |-> SumFunction([x \in Fought(a) |-> duels[x[1]].kills[x[2]]]),
                        wins   |-> Cardinality(won),
                        losses |-> Cardinality(Fought(a) \ won)]

\* A result is final: what is off or over, and what the record says of it, does not change
\* whatever timer, answer or departure comes late (Duels.cancel, Duels.accept, finish).
ClosedStays == [][\A d \in Duel : duels[d].state \in {"off", "over"} => duels'[d] = duels[d]]_vars

\* No challenge hangs: whatever those asked do, it starts or is called off (ANSWER_SECONDS).
PendingEnds == \A d \in Duel : duels[d].state = "pending" ~> duels[d].state # "pending"

\* Duels.luau:338: "Walking out, or asking to stop: the other side wins it as it stands."
QuitterLoses == [][\A p \in Player :
    (p \in here \ here' /\ busy[p] # None /\ duels[busy[p]].state = "live")
        => p \notin duels'[busy[p]].teams[duels'[busy[p]].winner]]_vars
=============================================================================
