----------------------------- MODULE SearchBreaker -----------------------------
(***************************************************************************)
(* The circuit breaker of the search component                             *)
(* (PlazmaServer/src/search/es_component.cpp).  Searches run concurrently  *)
(* and share two relaxed atomics, the count of consecutive failures and    *)
(* the time the breaker opened; one step is one access to either, or an    *)
(* exchange with ElasticSearch.                                            *)
(*                                                                         *)
(* The opening time is only ever compared with now, so it is kept as what  *)
(* the comparison finds: "closed" (0), "fresh" or, more than               *)
(* kHalfOpenDelayMs later, "stale".                                        *)
(***************************************************************************)
EXTENDS Naturals, FiniteSets

CONSTANTS
    Searches,   \* bound: searches at a time
    Threshold   \* kBreakerThreshold

BreakerAssumption == IsFiniteSet(Searches) /\ Threshold \in Nat \ {0}

VARIABLES
    failures,   \* consecutive_failures_, counted up to Threshold
    openSince,  \* open_since_ms_
    search,     \* where each search is
    es,         \* whether ElasticSearch answers in time
    probes      \* history: searches sent since an opening went stale, none answered

breakerVars == <<failures, openSince, search, es, probes>>

SearchAt == {"idle", "reset", "sent", "clear", "close", "trip"}
(* probes: some search was answered.                                       *)
Unknown == Threshold * Cardinality(Searches) * Cardinality(Searches) + 1

Goes(s, at) == search' = [search EXCEPT ![s] = at]
Sends(s) ==
    /\ Goes(s, "sent")
    /\ probes' = IF probes = Unknown THEN Unknown ELSE probes + 1

(* IsBreakerOpen(), the load.  While the breaker is fresh the search is    *)
(* answered from Scylla and nothing changes.                               *)
Load(s) ==
    /\ search[s] = "idle"
    /\ \/ openSince = "closed" /\ Sends(s)
       \/ openSince = "stale" /\ Goes(s, "reset") /\ UNCHANGED probes
    /\ UNCHANGED <<failures, openSince, es>>

(* ... and the store: half-open.  The count of failures is kept.           *)
Reset(s) ==
    /\ search[s] = "reset"
    /\ openSince' = "closed"
    /\ Sends(s)
    /\ UNCHANGED <<failures, es>>

(* A 200 with a body that parses.                                          *)
Answered(s) ==
    /\ search[s] = "sent"
    /\ es = "up"
    /\ Goes(s, "clear")
    /\ probes' = Unknown
    /\ UNCHANGED <<failures, openSince, es>>

(* RecordSuccess(), its two stores.                                        *)
ClearFailures(s) ==
    /\ search[s] = "clear"
    /\ failures' = 0
    /\ Goes(s, "close")
    /\ UNCHANGED <<openSince, es, probes>>

Close(s) ==
    /\ search[s] = "close"
    /\ openSince' = "closed"
    /\ Goes(s, "idle")
    /\ UNCHANGED <<failures, es, probes>>

(* Mutant: only the failure that reaches the threshold opens the breaker.  *)
TripsOnce == failures + 1 = Threshold

Trips == failures + 1 >= Threshold

(* RecordFailure(): a timeout, another status or a body that does not      *)
(* parse is counted ...                                                    *)
CountFailure(s) ==
    /\ search[s] = "sent"
    /\ es = "down"
    /\ failures' = IF failures < Threshold THEN failures + 1 ELSE failures
    /\ Goes(s, IF Trips THEN "trip" ELSE "idle")
    /\ UNCHANGED <<openSince, es, probes>>

(* ... and opens the breaker if it is closed.                              *)
Trip(s) ==
    /\ search[s] = "trip"
    /\ openSince' = IF openSince = "closed" THEN "fresh" ELSE openSince
    /\ Goes(s, "idle")
    /\ UNCHANGED <<failures, es, probes>>

(* kHalfOpenDelayMs have passed.                                           *)
Expire ==
    /\ openSince = "fresh"
    /\ openSince' = "stale"
    /\ probes' = 0
    /\ UNCHANGED <<failures, search, es>>

EsChanges ==
    /\ es' = IF es = "up" THEN "down" ELSE "up"
    /\ UNCHANGED <<failures, openSince, search, probes>>

BreakerInit ==
    /\ failures = 0 /\ openSince = "closed"
    /\ search = [s \in Searches |-> "idle"]
    /\ es = "up"
    /\ probes = Unknown

SearchStep(s) ==
    Reset(s) \/ Answered(s) \/ ClearFailures(s) \/ Close(s) \/ CountFailure(s) \/ Trip(s)

BreakerNext ==
    \/ \E s \in Searches : Load(s) \/ SearchStep(s)
    \/ Expire \/ EsChanges

(* A search that has begun goes on, and time passes.  Somebody searching   *)
(* again is assumed by the property that needs it.                         *)
BreakerFairness ==
    /\ \A s \in Searches : WF_breakerVars(SearchStep(s))
    /\ WF_breakerVars(Expire)

BreakerSpec == BreakerInit /\ [][BreakerNext]_breakerVars /\ BreakerFairness

-------------------------------------------------------------------------------
(* Properties.                                                             *)

(* "reset so one probe goes through" (es_component.cpp:59): more do, as    *)
(* several searches can find the opening stale and reset it one after the  *)
(* other, each time to be tripped again by a single failure, and a success *)
(* that is still being recorded can clear the count under them.  But       *)
(* ElasticSearch, as long as it answers nobody, is only asked so many      *)
(* times per opening, whatever the searches do.                            *)
MostProbes ==
    LET n == Cardinality(Searches) IN n * Threshold + (n * (n - 1)) \div 2
FewProbes == probes # Unknown => probes <= MostProbes

(* If ElasticSearch stays down and users go on searching, the breaker does *)
(* not stay closed: however resets and trips race, the count of failures   *)
(* it opens on is never lost for good (under BreakerSpec's fairness).      *)
Protects ==
    <>[](es = "down") /\ []<>(\E s \in Searches : search[s] = "sent")
      => []<>(openSince # "closed")
================================================================================
