---------------------------- MODULE Negotiation ----------------------------
(***************************************************************************)
(* thecargo.negotiation: the prices one side names, one at a time, while   *)
(* the other side asks what it likes. The caller keeps the prices named;   *)
(* ladder and next_step are functions of them.                             *)
(*                                                                         *)
(* A seller mirrors a buyer: a price is counted here as the concession     *)
(* from the opening price, so a lower ask is the better one for us.        *)
(***************************************************************************)
EXTENDS Integers, Sequences, FiniteSetsExt

CONSTANTS
    Gaps,     \* what the limit may be; below zero for an inverted band
    Moves,    \* what max_concessions may be
    Asks,     \* what the other side may ask
    NoAsk     \* None

ROUNDING == 5

\* max_concessions may be anything: ladder counts one below zero as none.
ASSUME NegotiationAssumption == Gaps \subseteq Int /\ Moves \subseteq Int /\ Asks \subseteq Int

VARIABLES
    gap, moves,    \* the band's limit and max_concessions of this negotiation
    offers,        \* the prices we named
    asked,         \* the last ask
    outcome        \* of the last step

haggleVars == <<gap, moves, offers, asked, outcome>>

NegotiationInit ==
    /\ gap \in Gaps /\ moves \in Moves
    /\ offers = <<>> /\ asked = NoAsk /\ outcome = "none"

----------------------------------------------------------------------------
\* The weights of n moves are n + 1, n, ..., 2; what the first k of them weigh.
Weight(n, k) == MapThenSumSet(LAMBDA i : n + 2 - i, 1 .. k)

Moved(room, n, k) == (room * Weight(n, k)) \div Weight(n, n)

\* Mutant: math.ceil instead of math.floor.
RoundedUp(room, n, k) == ((Moved(room, n, k) + ROUNDING) \div ROUNDING) * ROUNDING

\* The price after k of n moves but the last one.
Rounded(room, n, k) == (Moved(room, n, k) \div ROUNDING) * ROUNDING

\* ladder: the opening price, what the moves come to, each once, and the limit.
LadderOf(room, n) ==
    IF room <= 0 \/ n <= 0 THEN <<0>>
    ELSE LET prices == {0, room} \union {Rounded(room, n, k) : k \in 1 .. n - 1}
         IN [i \in 1 .. Cardinality(prices) |->
                CHOOSE p \in prices : Cardinality({q \in prices : q < p}) = i - 1]

Ladder == LadderOf(gap, moves)

\* _takes
Takes(ask, price) == ask # NoAsk /\ ask <= price

\* next_step, and what its caller does with it: a counter is named, anything
\* else ends the negotiation.
NextStep(ask) ==
    /\ outcome \in {"none", "counter"}
    /\ asked' = ask
    /\ LET taken == offers # <<>> /\ Takes(ask, offers[Len(offers)])
           left == Len(offers) < Len(Ladder)
           candidate == Ladder[Len(offers) + 1]
       IN \/ /\ taken \/ (left /\ Takes(ask, candidate))
             /\ outcome' = "accepted" /\ UNCHANGED offers
          \/ /\ ~taken /\ left /\ ~Takes(ask, candidate)
             /\ outcome' = "counter" /\ offers' = Append(offers, candidate)
          \/ /\ ~taken /\ ~left
             /\ outcome' = "escalate" /\ UNCHANGED offers
    /\ UNCHANGED <<gap, moves>>

NegotiationNext == \E ask \in Asks \union {NoAsk} : NextStep(ask)

NegotiationSpec == NegotiationInit /\ [][NegotiationNext]_haggleVars

----------------------------------------------------------------------------
(* Properties. *)

\* A negotiation of a band that is not inverted stays in it and comes to an end:
\* its prices go up from the opening one, at most one more of them than moves, and
\* never past the limit nor past what they ask; an ask is accepted only within
\* the limit and no further than the next price would have gone; and a person is
\* asked only after the last price, the limit when there was room to move.
PricesStayInBand ==
    gap >= 0 =>
        /\ Len(offers) <= 1 \/ Len(offers) <= moves + 1
        /\ \A i \in DOMAIN offers : offers[i] \in 0 .. gap /\ (i > 1 => offers[i] > offers[i - 1])
        /\ outcome = "counter" => (asked # NoAsk => offers[Len(offers)] < asked)
        /\ outcome = "accepted" =>
            /\ asked <= gap
            /\ \/ asked <= Ladder[1] \/ asked <= offers[Len(offers)]
               \/ Len(offers) < Len(Ladder) /\ asked <= Ladder[Len(offers) + 1]
        /\ outcome = "escalate" =>
            offers # <<>> /\ (moves > 0 => offers[Len(offers)] = gap)
=============================================================================
