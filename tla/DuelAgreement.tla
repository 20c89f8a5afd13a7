--------------------------- MODULE DuelAgreement ----------------------------
(***************************************************************************)
(* How a duel on the town's record gets onto the chain (Duels.luau from     *)
(* `keepSignature' on, Ledger.askPlayer below it).  Everybody who fought is *)
(* asked to sign the result as it ends; if not both sides do, bystanders    *)
(* are asked to witness it; later anybody who fought may agree to it or     *)
(* have it sent, at the Funmaster's desk.                                  *)
(*                                                                         *)
(* A player's machine signs and sends when it likes, also long after the    *)
(* town has stopped waiting: those are the steps of DuelRecords.  The town  *)
(* only hears an answer, which may be untrue.  A signature is what it       *)
(* recovers to over the result; a read of the chain may go unanswered.      *)
(* Who is in the town is a free choice whenever the code asks: visitors come *)
(* and go, and one who leaves while asked is one who does not answer.       *)
(* Handlers run one at a time between their yields, and an action is what   *)
(* runs from one yield to the next.                                        *)
(***************************************************************************)
EXTENDS DuelRecords, Lists

CONSTANTS
    Visitor,        \* Player objects of the town with a wallet signed in
    AddressOf,      \* WalletAddress
    Fought,         \* the result of the duel
    Unsigned,       \* no signature
    Forged          \* a signature that recovers to nobody here

ASSUME VisitorAssumption ==
    /\ IsFiniteSet(Visitor)
    /\ AddressOf \in [Visitor -> Player]
    /\ Fought \in Result
    /\ Unsigned \notin Player /\ Forged \notin Player

VARIABLES
    result,         \* "Duels": what the town keeps of the duel
    agreeing,       \* askEveryone's visitors who have not answered yet
    witnessing,     \* askWitnesses's
    desk            \* the Funmaster's errand for a visitor; idle is not sending

townVars == <<result, agreeing, witnessing, desk>>

NotFought == [known |-> FALSE, signatures |-> [p \in Player |-> Unsigned],
              asked |-> <<>>, witnesses |-> [p \in Player |-> Unsigned],
              onChain |-> FALSE, witnessedOnChain |-> FALSE]

\* An errand: the copy of the result it works from, who it still asks, and the list of
\* signatures of the transaction it has put before its visitor.
Errand(doing, r, left, with) == [doing |-> doing, r |-> r, left |-> left, with |-> with]
Idle == Errand("idle", NotFought, {}, <<>>)

TownInit ==
    /\ result = NotFought
    /\ agreeing = {} /\ witnessing = {}
    /\ desk = [v \in Visitor |-> Idle]

-----------------------------------------------------------------------------
Fighters == In(Fought, 1) \cup In(Fought, 2)
TeamOf(a) == IF a \in In(Fought, 1) THEN 1 ELSE 2
OtherTeam(a) == In(Fought, 3 - TeamOf(a))
Of(accounts) == {v \in Visitor : AddressOf[v] \in accounts}

\* Mutant of SignedFor: what the machine says is believed.
SignedForBelieved(a, s) == s # Unsigned

SignedFor(a, s) == s = a

SignedBy(r, a) == r.signatures[a] # Unsigned
AgreedByBoth(r) == \A t \in 1..2 : \E a \in In(Fought, t) : SignedBy(r, a)

\* `asked' has an entry for each bystander, so an account of two of them is in it twice.
WitnessSignatures(r) == Without([n \in DOMAIN r.asked |-> r.witnesses[r.asked[n]]], {Unsigned})
HasWitnesses(r) == Len(WitnessSignatures(r)) * 2 > Len(r.asked)

\* What a machine can answer with: a signature somebody made, or a forgery.
Signature == {p \in Player : <<p, Fought>> \in signed} \cup {Forged}

\* The end of agree with a good signature; keepSignature.
Kept(a, s) == result' = [result EXCEPT !.signatures[a] = s]

-----------------------------------------------------------------------------
(***************************************************************************)
(* The duel ends: finish, remember and askEveryone; the bystanders if the   *)
(* last answer leaves a side without a signature.                          *)
(***************************************************************************)
Ends ==
    /\ ~result.known
    /\ result' = [result EXCEPT !.known = TRUE]
    /\ agreeing' \in SUBSET Of(Fighters)
    /\ UNCHANGED <<witnessing, desk>>

\* The last one to answer, once `now' is what the town keeps.
AllAnswered(now, left) ==
    IF left # {} \/ AgreedByBoth(now)
    THEN result' = now /\ UNCHANGED witnessing
    ELSE \E bystanders \in SUBSET Of(Player \ Fighters) : \E order \in SetToSeqs(bystanders) :
            /\ witnessing' = bystanders
            /\ result' = [now EXCEPT !.asked = [n \in DOMAIN order |-> AddressOf[order[n]]]]

Answers(v, s) ==
    /\ v \in agreeing
    /\ SignedFor(AddressOf[v], s)
    /\ agreeing' = agreeing \ {v}
    /\ AllAnswered([result EXCEPT !.signatures[AddressOf[v]] = s], agreeing')
    /\ UNCHANGED <<desk>>

\* Refused, forged, too late, gone, or the check went unanswered.
DoesNotAnswer(v) ==
    /\ v \in agreeing
    /\ agreeing' = agreeing \ {v}
    /\ AllAnswered(result, agreeing')
    /\ UNCHANGED <<desk>>

Witnessed(v, s) ==
    /\ v \in witnessing
    /\ SignedFor(AddressOf[v], s)
    /\ witnessing' = witnessing \ {v}
    /\ result' = [result EXCEPT !.witnesses[AddressOf[v]] = s]
    /\ UNCHANGED <<agreeing, desk>>

DoesNotWitness(v) ==
    /\ v \in witnessing
    /\ witnessing' = witnessing \ {v}
    /\ UNCHANGED <<result, agreeing, desk>>

-----------------------------------------------------------------------------
(***************************************************************************)
(* The Funmaster's desk: one errand of a visitor at a time.  An errand      *)
(* works with the copy of the result it read as it began.                   *)
(***************************************************************************)
Begin(v, doing, r) ==
    /\ desk[v] = Idle
    /\ result.known /\ AddressOf[v] \in Fighters
    /\ desk' = [desk EXCEPT ![v] = Errand(doing, r, {}, <<>>)]
    /\ UNCHANGED <<result, agreeing, witnessing>>

Agree(v) == ~SignedBy(result, AddressOf[v]) /\ Begin(v, "agree", NotFought)

Agrees(v, s) ==
    /\ desk[v].doing = "agree"
    /\ SignedFor(AddressOf[v], s)
    /\ Kept(AddressOf[v], s)
    /\ desk' = [desk EXCEPT ![v] = Idle]
    /\ UNCHANGED <<agreeing, witnessing>>

PutOnChain(v) == Begin(v, "look", result)

\* The chain was read and has it.
AlreadyThere(v) ==
    /\ desk[v].doing = "look"
    /\ recordOf[Fought.id] # NoRecord
    /\ result' = [result EXCEPT !.onChain = TRUE]
    /\ desk' = [desk EXCEPT ![v] = Idle]
    /\ UNCHANGED <<agreeing, witnessing>>

Sending(v, s) == desk' = [desk EXCEPT ![v] = Errand("send", NotFought, {}, <<s>>)]
AsWitnessed(v) ==
    LET r == desk[v].r
    IN  IF HasWitnesses(r) /\ ~r.witnessedOnChain
        THEN desk' = [desk EXCEPT ![v] =
                         Errand("sendWitnessed", NotFought, {}, WitnessSignatures(r))]
        ELSE desk' = [desk EXCEPT ![v] = Idle]

\* The chain has not got it, or the read went unanswered.
NotThere(v) ==
    LET r == desk[v].r
        others == OtherTeam(AddressOf[v])
        given == {a \in others : SignedBy(r, a)}
    IN  /\ desk[v].doing = "look"
        /\ IF given # {} THEN \E a \in given : Sending(v, r.signatures[a])
           ELSE \E here \in SUBSET Of(others) :
                   IF here = {} THEN AsWitnessed(v)
                   ELSE desk' = [desk EXCEPT ![v] = Errand("ask", r, here, <<>>)]
        /\ UNCHANGED <<result, agreeing, witnessing>>

SignsForIt(v, p, s) ==
    /\ desk[v].doing = "ask" /\ p \in desk[v].left
    /\ SignedFor(AddressOf[p], s)
    /\ Kept(AddressOf[p], s)
    /\ Sending(v, s)
    /\ UNCHANGED <<agreeing, witnessing>>

DoesNotSign(v, p) ==
    /\ desk[v].doing = "ask" /\ p \in desk[v].left
    /\ IF desk[v].left = {p} THEN AsWitnessed(v)
       ELSE desk' = [desk EXCEPT ![v].left = @ \ {p}]
    /\ UNCHANGED <<result, agreeing, witnessing>>

\* Mutant of Confirmed: the machine's word that its transaction went is enough.
ConfirmedBySender(of) == TRUE

\* onChain, after the machine said the transaction went.
Confirmed(of) == of[Fought.id] # NoRecord

Sent(v) ==
    /\ desk[v].doing = "send" /\ Confirmed(recordOf)
    /\ result' = [result EXCEPT !.onChain = TRUE]
    /\ desk' = [desk EXCEPT ![v] = Idle]
    /\ UNCHANGED <<agreeing, witnessing>>

SentWitnessed(v) ==
    /\ desk[v].doing = "sendWitnessed" /\ Confirmed(witnessedOf)
    /\ result' = [result EXCEPT !.witnessedOnChain = TRUE]
    /\ desk' = [desk EXCEPT ![v] = Idle]
    /\ UNCHANGED <<agreeing, witnessing>>

\* Nothing came of it: the wallet said no, was silent, or the player had gone.
DidNotGo(v) ==
    /\ desk[v].doing \in {"agree", "send", "sendWitnessed"}
    /\ desk' = [desk EXCEPT ![v] = Idle]
    /\ UNCHANGED <<result, agreeing, witnessing>>

TownStep ==
    \/ Ends
    \/ \E v \in Visitor :
          \/ DoesNotAnswer(v) \/ DoesNotWitness(v)
          \/ Agree(v) \/ PutOnChain(v) \/ AlreadyThere(v) \/ NotThere(v)
          \/ Sent(v) \/ SentWitnessed(v) \/ DidNotGo(v)
          \/ \E s \in Signature : Answers(v, s) \/ Witnessed(v, s) \/ Agrees(v, s)
          \/ \E p \in Visitor : DoesNotSign(v, p) \/ \E s \in Signature : SignsForIt(v, p, s)

AgreementInit == Init /\ TownInit
AgreementNext ==
    \/ Next /\ UNCHANGED townVars
    \/ TownStep /\ UNCHANGED vars
AgreementSpec == AgreementInit /\ [][AgreementNext]_<<vars, townVars>>

-----------------------------------------------------------------------------
(***************************************************************************)
(* The town's record says a duel is on chain, or witnessed on chain, only   *)
(* once it is (the comment above Duels.onChain), whatever players' machines *)
(* say and however late.                                                   *)
(***************************************************************************)
TownIsBehindTheChain ==
    /\ result.onChain => recordOf[Fought.id] # NoRecord
    /\ result.witnessedOnChain => witnessedOf[Fought.id] # NoRecord

(***************************************************************************)
(* Nobody pays for a transaction that can only revert (the comment above    *)
(* Duels.signedFor): what a visitor's wallet is asked to send would be taken *)
(* unless the duel is on chain already; and once both sides have signed,    *)
(* any of them can put it there (askEveryone's announcement).               *)
(***************************************************************************)
WouldBeTaken(p, s) == ENABLED Record(p, Fought, s)

WhatIsOfferedGoes ==
    /\ recordOf[Fought.id] = NoRecord =>
          /\ \A v \in Visitor : desk[v].doing = "send" =>
                \A s \in ToSet(desk[v].with) : WouldBeTaken(AddressOf[v], s)
          /\ AgreedByBoth(result) =>
                \A p \in Fighters : \E a \in OtherTeam(p) :
                   SignedBy(result, a) /\ WouldBeTaken(p, result.signatures[a])
    /\ CanWitness(Fought.id) =>
          \A v \in Visitor : desk[v].doing = "sendWitnessed" =>
             ENABLED RecordWitnessed(AddressOf[v], Fought, desk[v].with)
=============================================================================
