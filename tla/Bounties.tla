------------------------------ MODULE Bounties ------------------------------
(***************************************************************************)
(* The two descriptions of a bounty under one roof: Market, by the         *)
(* commands it accepts, and MarketCalls, the function of the code under    *)
(* every call.  They share no state; that the second implements the first  *)
(* is a property of the second (ImplementsMarket).                         *)
(***************************************************************************)
EXTENDS Market

CONSTANTS
    Sponsor, Treasury, AcceptedRecipes, SlashableFindings,  \* MarketDecision's
    Parties, Recipes, Findings, MaxCommands                 \* MarketCalls'

VARIABLES
    bounty, returned, held      \* MarketCalls': the state, effects and custody of the calls

calling == <<bounty, returned, held>>

C == INSTANCE MarketCalls WITH sent <- returned, custody <- held

ASSUME BountiesAssumption == C!CallsParameters

-----------------------------------------------------------------------------
\* What the function accepts, and does, is what Market does (core/market.py:369-900).
ImplementsMarket == C!ImplementsMarket

\* The right party gets the right value, of every lot (market.py:579-834).
RightValue == C!RightValue

\* A verdict that accepts a submission never comes too late to be contested (market.py:512, 596).
Contestable == C!Contestable
=============================================================================
