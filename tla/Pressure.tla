------------------------------ MODULE Pressure ------------------------------
(***************************************************************************)
(* The workload signal: the scrape of every pod of the workload            *)
(* (internal/metrics/http.go) and the freshness the engine asks of the sum *)
(* (scaling/snapshot.go).                                                  *)
(*                                                                         *)
(* The scrape is one GET per address DNS gave, one after the other, while  *)
(* the pods go on working.  A pod may be frozen: reachable, but serving    *)
(* the page it produced earlier, under the Date of that moment.            *)
(***************************************************************************)
EXTENDS Integers, FiniteSets, Functions

CONSTANTS
  Pods,
  MaxWork,        \* bound: queued plus in-flight items of one pod
  StaleAfter,     \* workload.metricsStaleAfter
  Timeout,        \* workload.signal.timeout: a scrape ends within it
  Skew            \* how far a pod's clock may be ahead of the controller's

SignalBounds ==
  /\ MaxWork \in Nat /\ StaleAfter \in Nat \ {0} /\ Timeout \in Nat /\ Skew \in Nat
  /\ IsFiniteSet(Pods)

ASSUME SignalAssumption == SignalBounds

(* The oldest a value may be in a sum the engine trusts, when it is complete. *)
Span == StaleAfter + Skew + Timeout

VARIABLES
  work,       \* items each pod has, queued or in flight
  frozen,     \* the pods that serve an old page, and that page
  pc,         \* "idle" or "scraping"
  elapsed,    \* time since the reconcile began
  named,      \* history: the addresses DNS gave for this scrape
  left,       \* addresses still to scrape
  scraped,    \* WorkByPodIP so far, and the age each page claims
  sample,     \* the sample the engine gets of this reconcile
  recent      \* history: how long ago each pod last had each amount of work

vars == <<work, frozen, pc, elapsed, named, left, scraped, sample, recent>>

Unavailable == [available |-> FALSE, raw |-> 0, fresh |-> FALSE, of |-> {}]
NoScrape    == [p \in {} |-> [items |-> 0, age |-> 0]]

Least(S) == CHOOSE x \in S : \A y \in S : x <= y
Most(S)  == CHOOSE x \in S : \A y \in S : x >= y
Sum(f)   == FoldFunction(LAMBDA a, b : a + b, 0, f)

With(f, p, value) == [q \in DOMAIN f \cup {p} |-> IF q = p THEN value ELSE f[q]]

-----------------------------------------------------------------------------
(* The scrape. *)

(* Reconcile starts; DNS answers some of the pods, or none, or fails.      *)
(* An empty answer is "no answer", never "no pressure".                    *)
Resolve(S) ==
  /\ pc = "idle"
  /\ elapsed' = 0
  /\ sample' = Unavailable
  /\ named' = S /\ left' = S
  /\ pc' = IF S = {} THEN "idle" ELSE "scraping"
  /\ UNCHANGED <<work, frozen, scraped, recent>>

(* What a GET on the metrics page of p returns. *)
Page(p) == IF p \in DOMAIN frozen THEN frozen[p] ELSE [items |-> work[p], age |-> 0]

(* One pod answers; its Date header may be ahead of our clock.  A reply     *)
(* without one counts as of its arrival, which of a live page is what an   *)
(* exact clock would say; a frozen page without a Date is left out.        *)
Scrape(p, ahead) ==
  /\ pc = "scraping" /\ p \in left
  /\ left' = left \ {p}
  /\ scraped' = With(scraped, p, [Page(p) EXCEPT !.age = @ - ahead])
  /\ UNCHANGED <<work, frozen, pc, elapsed, named, sample, recent>>

(* No answer in time, a status that is not 200 or a page without the       *)
(* pressure gauges: the whole sample is unavailable.                       *)
ScrapeFails ==
  /\ pc = "scraping" /\ left # {}
  /\ pc' = "idle" /\ sample' = Unavailable
  /\ named' = {} /\ left' = {} /\ scraped' = NoScrape /\ elapsed' = 0
  /\ UNCHANGED <<work, frozen, recent>>

-----------------------------------------------------------------------------
(* The sample. *)

(* A plausible mistake: a sum is dated by its newest term. *)
NewestAge(pages) == Least({pages[p].age : p \in DOMAIN pages})

(* A sum is as old as its stalest term. *)
OldestAge(pages) == Most({pages[p].age : p \in DOMAIN pages})

(* Signal.Fresh, asked with the time the reconcile began: a timestamp that *)
(* was taken after it has age zero, and so has one ahead of our clock.     *)
Fresh(age) == age - elapsed <= StaleAfter

(* All pods answered: the sum, under the age of its stalest term. *)
Collected ==
  /\ pc = "scraping" /\ left = {}
  /\ pc' = "idle"
  /\ sample' = [available |-> TRUE, of |-> DOMAIN scraped,
                raw |-> Sum([p \in DOMAIN scraped |-> scraped[p].items]),
                fresh |-> Fresh(OldestAge(scraped))]
  /\ named' = {} /\ scraped' = NoScrape /\ elapsed' = 0
  /\ UNCHANGED <<work, frozen, left, recent>>

-----------------------------------------------------------------------------
(* The workload and time. *)

(* Records arrive at a pod or leave it. *)
WorkChanges(p, n) ==
  /\ n # work[p]
  /\ work' = [work EXCEPT ![p] = n]
  /\ recent' = [recent EXCEPT ![p][n] = 0]
  /\ UNCHANGED <<frozen, pc, elapsed, named, left, scraped, sample>>

(* A pod stops answering with new pages, and starts again. *)
Freeze(p) ==
  /\ p \notin DOMAIN frozen
  /\ frozen' = With(frozen, p, Page(p))
  /\ UNCHANGED <<work, pc, elapsed, named, left, scraped, sample, recent>>

Thaw(p) ==
  /\ p \in DOMAIN frozen
  /\ frozen' = Restrict(frozen, DOMAIN frozen \ {p})
  /\ UNCHANGED <<work, pc, elapsed, named, left, scraped, sample, recent>>

Older(age) == IF age <= Span THEN age + 1 ELSE age

(* Time passes; during a scrape no longer than the context allows. *)
Tick ==
  /\ pc = "scraping" => elapsed < Timeout
  /\ elapsed' = IF pc = "scraping" THEN elapsed + 1 ELSE 0
  /\ frozen' = [p \in DOMAIN frozen |-> [frozen[p] EXCEPT !.age = Older(@)]]
  /\ scraped' = [p \in DOMAIN scraped |-> [scraped[p] EXCEPT !.age = Older(@)]]
  /\ recent' = [p \in Pods |-> [n \in 0..MaxWork |->
                  IF n = work[p] THEN 0 ELSE Older(recent[p][n])]]
  /\ UNCHANGED <<work, pc, named, left, sample>>

Init ==
  /\ work \in [Pods -> 0..MaxWork]
  /\ frozen = NoScrape
  /\ pc = "idle" /\ elapsed = 0 /\ named = {} /\ left = {} /\ scraped = NoScrape
  /\ sample = Unavailable
  /\ recent = [p \in Pods |-> [n \in 0..MaxWork |-> IF n = work[p] THEN 0 ELSE Span + 1]]

Resolves == \E S \in SUBSET Pods : Resolve(S)
Answers  == ScrapeFails \/ \E p \in Pods, ahead \in 0..Skew : Scrape(p, ahead)

Next ==
  \/ Resolves \/ Answers \/ Collected
  \/ \E p \in Pods : Freeze(p) \/ Thaw(p) \/ \E n \in 0..MaxWork : WorkChanges(p, n)
  \/ Tick

Spec == Init /\ [][Next]_vars

-----------------------------------------------------------------------------
(* Properties. *)

TypeOK ==
  /\ work \in [Pods -> 0..MaxWork]
  /\ DOMAIN frozen \subseteq Pods /\ left \subseteq named /\ named \subseteq Pods
  /\ pc \in {"idle", "scraping"} /\ elapsed \in 0..Timeout

(* What p had at some moment of the last Span. *)
Lately(p) == {n \in 0..MaxWork : recent[p][n] <= Span}

(* A sample the engine trusts counts every pod DNS named, each with an     *)
(* amount of work it really had within the staleness bound: no pod is left *)
(* out, and none is hidden behind fresher ones (http.go:151-194,           *)
(* controller.go:481-487).                                                 *)
TrustedSumIsRecent ==
  [][pc = "scraping" /\ pc' = "idle" /\ sample'.fresh =>
       /\ sample'.of = named
       /\ sample'.raw >= Sum([p \in sample'.of |-> Least(Lately(p))])
       /\ sample'.raw <= Sum([p \in sample'.of |-> Most(Lately(p))])]_vars

=============================================================================
