------------------------------- MODULE Fishing -------------------------------
(***************************************************************************)
(* contracts/Fishing.sol: a cast, some blocks until the bite, and a few     *)
(* more to reel in; ten species, one of them to be discovered.  A           *)
(* transaction is atomic and a revert leaves no trace, so an action is a    *)
(* call that does not revert; many may share a block.                      *)
(*                                                                         *)
(* The two random numbers are choices: how long the bite takes, and what is *)
(* on the line.  The odds are not modelled, only what is possible.         *)
(***************************************************************************)
EXTENDS Naturals, FiniteSetsExt, Lists

CONSTANTS
    Angler,
    NoAngler,       \* address(0)
    COLOURS,        \* the species below EVERLIVING
    BITE_EXTRA,
    REEL_WINDOW,
    FirstBlock,     \* when the contract is deployed
    LastBlock       \* bound: the chain's blocks

ASSUME FishingAssumption ==
    /\ NoAngler \notin Angler
    /\ COLOURS \in Nat /\ BITE_EXTRA \in Nat /\ REEL_WINDOW \in Nat
    /\ FirstBlock \in Nat /\ LastBlock \in Nat

EVERLIVING == COLOURS
Species == 0..COLOURS

VARIABLES
    now,            \* block.number
    lines,
    castCount, caught, totals, anglers,
    canClaimDiscovery, discoverer, discoveryBlock,
    owner           \* ERC721: whose the one token is

lineVars == <<lines, castCount, anglers>>
catchVars == <<caught, totals>>
discoveryVars == <<discoverer, discoveryBlock, owner>>
fishingVars == <<now, lineVars, catchVars, canClaimDiscovery, discoveryVars>>

NoLine == [nonce |-> 0, biteBlock |-> 0, out |-> FALSE]
Line == [nonce : Nat \ {0}, biteBlock : Nat, out : {TRUE}] \cup {NoLine}

FishingInit ==
    /\ now = FirstBlock
    /\ lines = [a \in Angler |-> NoLine]
    /\ castCount = [a \in Angler |-> 0]
    /\ caught = [a \in Angler |-> [s \in Species |-> 0]]
    /\ totals = [s \in Species |-> 0]
    /\ anglers = <<>>
    /\ canClaimDiscovery = [a \in Angler |-> FALSE]
    /\ discoverer = NoAngler
    /\ discoveryBlock = 0
    /\ owner = NoAngler

-----------------------------------------------------------------------------
discovered == discoverer # NoAngler

GoneBy(line) == now > line.biteBlock + REEL_WINDOW

NewAngler(a) == castCount[a] = 0

Bite(extra) == now + 1 + extra

Cast(a, extra) ==
    /\ lines[a].out => GoneBy(lines[a])
    /\ anglers' = IF NewAngler(a) THEN Append(anglers, a) ELSE anglers
    /\ castCount' = [castCount EXCEPT ![a] = @ + 1]
    /\ lines' = [lines EXCEPT ![a] =
          [nonce |-> castCount[a] + 1, biteBlock |-> Bite(extra), out |-> TRUE]]
    /\ UNCHANGED <<now, catchVars, canClaimDiscovery, discoveryVars>>

Reelable(a) == lines[a].out /\ now >= lines[a].biteBlock

GetsAway(a) ==
    /\ Reelable(a) /\ GoneBy(lines[a])
    /\ lines' = [lines EXCEPT ![a] = NoLine]
    /\ UNCHANGED <<now, castCount, anglers, catchVars, canClaimDiscovery, discoveryVars>>

\* Mutant of Landed: the line is left out.
LandedStillOut(a) == UNCHANGED lines

Landed(a) == lines' = [lines EXCEPT ![a] = NoLine]

Counted(a, s) ==
    /\ caught' = [caught EXCEPT ![a][s] = @ + 1]
    /\ totals' = [totals EXCEPT ![s] = @ + 1]

Catch(a, s) ==
    /\ Reelable(a) /\ ~GoneBy(lines[a])
    /\ Landed(a)
    /\ Counted(a, s)
    /\ canClaimDiscovery' = [canClaimDiscovery EXCEPT
          ![a] = @ \/ (s = EVERLIVING /\ ~discovered)]
    /\ UNCHANGED <<now, castCount, anglers, discoveryVars>>

-----------------------------------------------------------------------------
CanClaim(a) ==
    /\ ~discovered
    /\ canClaimDiscovery[a]
    /\ owner = NoAngler           \* ERC721._mint

\* Mutant of ClaimDiscovery: every other claim is wiped, and so is the catch.
ClaimDiscoveryTraded(a) ==
    /\ CanClaim(a)
    /\ canClaimDiscovery' = [canClaimDiscovery EXCEPT ![a] = FALSE]
    /\ discoverer' = a
    /\ discoveryBlock' = now
    /\ owner' = a
    /\ caught' = [caught EXCEPT ![a][EVERLIVING] = @ - 1]
    /\ totals' = [totals EXCEPT ![EVERLIVING] = @ - 1]
    /\ UNCHANGED <<now, lineVars>>

ClaimDiscovery(a) ==
    /\ CanClaim(a)
    /\ canClaimDiscovery' = [canClaimDiscovery EXCEPT ![a] = FALSE]
    /\ discoverer' = a
    /\ discoveryBlock' = now
    /\ owner' = a
    /\ UNCHANGED <<now, lineVars, catchVars>>

(***************************************************************************)
(* The token is an ERC-721 like any other, and the chain goes on.           *)
(***************************************************************************)
HandOn(a, b) ==
    /\ owner = a
    /\ owner' = b
    /\ UNCHANGED <<now, lineVars, catchVars, canClaimDiscovery, discoverer, discoveryBlock>>

Mine ==
    /\ now < LastBlock
    /\ now' = now + 1
    /\ UNCHANGED <<lineVars, catchVars, canClaimDiscovery, discoveryVars>>

FishingNext ==
    \/ Mine
    \/ \E a \in Angler :
          \/ \E extra \in 0..BITE_EXTRA : Cast(a, extra)
          \/ GetsAway(a)
          \/ \E s \in Species : Catch(a, s)
          \/ ClaimDiscovery(a)
          \/ \E b \in Angler : HandOn(a, b)

FishingSpec == FishingInit /\ [][FishingNext]_fishingVars

-----------------------------------------------------------------------------
(***************************************************************************)
(* Every cast is rolled for at most once, a roll nobody else's nonce can    *)
(* repeat; and nobody, whatever they do within a block, catches more than   *)
(* a fish a block ("the wait is the chain's, not the screen's").           *)
(***************************************************************************)
Catches(a) == SumFunction(caught[a])

OneCatchPerCast ==
    \A a \in Angler :
        /\ lines[a].out => lines[a].nonce = castCount[a]
        /\ Catches(a) + (IF lines[a].out THEN 1 ELSE 0) <= castCount[a]

OneCatchPerBlock ==
    \A a \in Angler :
        /\ Catches(a) <= now - FirstBlock
        /\ lines[a].out => Catches(a) < lines[a].biteBlock - FirstBlock

(***************************************************************************)
(* "Until somebody claims, anybody who has caught it may": before the       *)
(* discovery the claims are those of the people who hold the fish.  After   *)
(* it there is one discoverer, who caught it, and one token.               *)
(***************************************************************************)
ClaimsAreEarned ==
    /\ ~discovered =>
          \A a \in Angler : canClaimDiscovery[a] <=> caught[a][EVERLIVING] > 0
    /\ discovered => caught[discoverer][EVERLIVING] > 0
    /\ \A a \in Angler : canClaimDiscovery[a] => a # discoverer /\ caught[a][EVERLIVING] > 0
    /\ discovered <=> owner # NoAngler

(***************************************************************************)
(* "The first to claim is the discoverer, and every other claim lapses."    *)
(***************************************************************************)
DiscoveredOnce ==
    [][discovered => UNCHANGED <<discoverer, discoveryBlock, canClaimDiscovery>>]_fishingVars
=============================================================================
