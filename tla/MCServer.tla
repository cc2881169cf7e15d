------------------------------- MODULE MCServer -------------------------------
(***************************************************************************)
(* An instance for TLC of the parts of the server that share no state: the *)
(* video handlers, the circuit breaker of the search, reading page by      *)
(* page.  Nothing one of them does enables, disables or changes a step of  *)
(* another, so their interleavings say nothing new: a behaviour is one of  *)
(* one part, chosen at the start.                                          *)
(***************************************************************************)
EXTENDS VideoStore, SequencesExt

CONSTANTS
    u1, u2,
    Searches, Threshold,
    Ids, MaxTime, MaxLimit, LimitArgs, Absent, Garbled, NoCursor

OneOwner == [v \in Videos |-> u1]

VARIABLES
    part,
    failures, openSince, search, es, probes,
    rows, clock, sweep

Breaker == INSTANCE SearchBreaker
Paging == INSTANCE Pages

ASSUME ServerBreaker == Breaker!BreakerAssumption
ASSUME ServerPages == Paging!PagesAssumption

breakerVars == <<failures, openSince, search, es, probes>>
pagesVars == <<rows, clock, sweep>>

ServerInit ==
    /\ part \in {"videos", "breaker", "pages"}
    /\ Init /\ Breaker!BreakerInit /\ Paging!PagesInit
    /\ part # "pages" => sweep.list = "items"

ServerNext ==
    /\ UNCHANGED part
    /\ \/ part = "videos" /\ Next /\ UNCHANGED <<breakerVars, pagesVars>>
       \/ part = "breaker" /\ Breaker!BreakerNext /\ UNCHANGED <<vars, pagesVars>>
       \/ part = "pages" /\ Paging!PagesNext /\ UNCHANGED <<vars, breakerVars>>

ServerSpec ==
    /\ ServerInit /\ [][ServerNext]_<<part, vars, breakerVars, pagesVars>>
    /\ \A p \in Slots \cup Videos : WF_vars(Statement(p))
    /\ Breaker!BreakerFairness

(* See SearchBreaker and Pages.                                            *)
FewProbes == Breaker!FewProbes
Protects == Breaker!Protects
EachOnce == Paging!EachOnce
================================================================================
