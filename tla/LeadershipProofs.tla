-------------------------- MODULE LeadershipProofs --------------------------
(* Leadership: type correctness, and that of the processes that have not      *)
(* given up at most one acts.                                                *)
(*                                                                           *)
(* The argument: an elector that renews is the holder of the record, was     *)
(* renewed less than LeaseDuration ago, and every elector that knows the     *)
(* record saw it no earlier than that renewal, so none of them finds it      *)
(* expired; and a loop whose elector does not renew any more is one that     *)
(* gave up, since lead cancels the election only when the loop has returned. *)
EXTENDS Leadership, TLAPS

\* Where the main goroutine is tells where the elector can be.
InStep ==
  \A p \in Processes :
    /\ main[p] \in {"down", "starting"} => elector[p] = "off"
    /\ main[p] = "looping" /\ UsesLease(p) =>
         elector[p] \in {"renewing", "releasing", "done"}
    /\ ctx[p] => elector[p] \in {"renewing", "releasing"}

\* An elector that lead has not cancelled stops renewing at its deadline only.
LateEnd ==
  \A p \in Processes :
    elector[p] \in {"releasing", "done"} /\ main[p] # "releasing" =>
      renewAge[p] >= RenewDeadline

\* The leader's view of its lease is no younger than anybody else's.
LeaseKept ==
  \A p \in Processes :
    elector[p] = "renewing" =>
      /\ lease = p
      /\ renewAge[p] < LeaseDuration
      /\ \A q \in Processes : seen[q] => obsAge[q] <= renewAge[p]

Inv == TypeOK /\ InStep /\ LateEnd /\ LeaseKept

-----------------------------------------------------------------------------
LEMMA InitTyped == Init => TypeOK
BY LaunchAssumption, RolloutAssumption DEF Init, TypeOK, Unseen, Pods

LEMMA GoneTyped ==
  ASSUME TypeOK, NEW p \in Processes, Gone(p)
  PROVE  TypeOK'
BY DEF TypeOK, Gone

LEMMA MainTyped ==
  ASSUME TypeOK, NEW p \in Processes, MainStep(p)
  PROVE  TypeOK'
<1>1. CASE Start(p)
  BY <1>1 DEF TypeOK, Start, electVars
<1>2. CASE Serve(p)
  BY <1>2 DEF TypeOK, Serve
<1>3. CASE StandDown(p)
  BY <1>3 DEF TypeOK, StandDown, electVars
<1>4. CASE ElectionEnded(p)
  BY <1>4, GoneTyped DEF ElectionEnded
<1>5. CASE Lead(p)
  BY <1>5 DEF TypeOK, Lead, electVars
<1>6. CASE Reconcile(p)
  BY <1>6 DEF TypeOK, Reconcile, electVars
<1>7. CASE LoopReturns(p)
  BY <1>7 DEF TypeOK, LoopReturns, electVars
<1>8. CASE Exit(p)
  BY <1>8, GoneTyped DEF Exit
<1> QED
  BY <1>1, <1>2, <1>3, <1>4, <1>5, <1>6, <1>7, <1>8 DEF MainStep

LEMMA ElectorTyped ==
  ASSUME TypeOK, NEW p \in Processes, ElectorStep(p)
  PROVE  TypeOK'
<1>1. CASE Look(p)
  BY <1>1 DEF TypeOK, Look, procVars
<1>2. CASE Take(p)
  BY <1>2 DEF TypeOK, Take, Unseen
<1>3. CASE StartedLeading(p)
  BY <1>3 DEF TypeOK, StartedLeading, electVars
<1>4. CASE Renew(p)
  BY <1>4 DEF TypeOK, Renew, Unseen, procVars
<1>5. CASE StopRenewing(p)
  BY <1>5 DEF TypeOK, StopRenewing, procVars
<1>6. CASE Release(p)
  BY <1>6 DEF TypeOK, Release, Unseen, procVars, electVars
<1>7. CASE RunReturns(p)
  BY <1>7 DEF TypeOK, RunReturns
<1> QED
  BY <1>1, <1>2, <1>3, <1>4, <1>5, <1>6, <1>7 DEF ElectorStep

LEMMA FaultTyped ==
  ASSUME TypeOK, NEW p \in Processes, Fault(p) \/ Roll(p)
  PROVE  TypeOK'
<1>1. CASE StartFails(p)
  BY <1>1, GoneTyped DEF StartFails
<1>2. CASE TakeUnheard(p) \/ RenewUnheard(p)
  BY <1>2 DEF TypeOK, TakeUnheard, RenewUnheard, Unseen, procVars, electVars
<1>3. CASE Terminate(p) \/ Roll(p)
  BY <1>3 DEF TypeOK, Terminate, Roll, Signalled, electVars
<1>4. CASE Crash(p)
  BY <1>4, GoneTyped DEF Crash
<1>5. CASE Partition(p) \/ Heal(p)
  BY <1>5 DEF TypeOK, Partition, Heal, procVars, electVars
<1> QED
  BY <1>1, <1>2, <1>3, <1>4, <1>5 DEF Fault

LEMMA TickTyped ==
  ASSUME TypeOK, Tick
  PROVE  TypeOK'
<1>1. LeaseDuration \in Nat /\ Oldest \in Nat
  BY TimingAssumption DEF Oldest, Longest, GiveUpAt, ReleaseWithin
<1>2. \A n, most \in Nat : Capped(n + 1, most) \in Nat
  BY DEF Capped
<1> QED
  BY <1>1, <1>2 DEF TypeOK, Tick, procVars

LEMMA StepTyped == TypeOK /\ [Next]_vars => TypeOK'
<1> SUFFICES ASSUME TypeOK, [Next]_vars PROVE TypeOK'
  OBVIOUS
<1>1. CASE Tick
  BY <1>1, TickTyped
<1>2. ASSUME NEW p \in Processes, MainStep(p) PROVE TypeOK'
  BY <1>2, MainTyped
<1>3. ASSUME NEW p \in Processes, ElectorStep(p) PROVE TypeOK'
  BY <1>3, ElectorTyped
<1>4. ASSUME NEW p \in Processes, Fault(p) \/ Roll(p) PROVE TypeOK'
  BY <1>4, FaultTyped
<1>5. CASE UNCHANGED vars
  BY <1>5 DEF TypeOK, vars, procVars, electVars
<1> QED
  BY <1>1, <1>2, <1>3, <1>4, <1>5 DEF Next, Calm

\* Every variable of a process, of the lease and of the environment keeps its
\* type through starts, elections, faults and time.
THEOREM TypeCorrect == Spec => []TypeOK
<1> QED
  BY InitTyped, StepTyped, PTL DEF Spec

-----------------------------------------------------------------------------
LEMMA InitInv == Init => Inv
BY InitTyped DEF Init, Inv, InStep, LateEnd, LeaseKept, Unseen

\* A record somebody renews has not expired for anybody who waits for it.
LEMMA NoneCanTake ==
  ASSUME Inv, NEW p \in Processes, NEW q \in Processes, CanTake(q),
         elector[p] = "renewing"
  PROVE  FALSE
<1>1. lease = p /\ renewAge[p] < LeaseDuration
  BY DEF Inv, LeaseKept
<1>2. p # q
  BY DEF CanTake
<1>3. lease # Nobody
  BY <1>1, LaunchAssumption
<1>4. seen[q] /\ obsAge[q] >= LeaseDuration
  BY <1>1, <1>2, <1>3 DEF CanTake
<1>5. obsAge[q] <= renewAge[p]
  BY <1>4 DEF Inv, LeaseKept
<1> QED
  BY <1>1, <1>4, <1>5, TimingAssumption DEF Inv, TypeOK

\* A process that goes takes nothing with it but its own lease.
LEMMA GoneKeeps ==
  ASSUME Inv, NEW p \in Processes, Gone(p)
  PROVE  Inv'
<1>1. TypeOK'
  BY GoneTyped DEF Inv
<1>2. InStep' /\ LateEnd'
  BY DEF Inv, InStep, LateEnd, Gone, TypeOK
<1>3. LeaseKept'
  <2> SUFFICES ASSUME NEW q \in Processes, elector'[q] = "renewing"
               PROVE  /\ lease' = q
                      /\ renewAge'[q] < LeaseDuration
                      /\ \A r \in Processes : seen'[r] => obsAge'[r] <= renewAge'[q]
    BY DEF LeaseKept
  <2>1. q # p /\ elector[q] = "renewing"
    BY DEF Gone, Inv, TypeOK
  <2>2. /\ lease = q
        /\ renewAge[q] < LeaseDuration
        /\ \A r \in Processes : seen[r] => obsAge[r] <= renewAge[q]
    BY <2>1 DEF Inv, LeaseKept
  <2> QED
    BY <2>1, <2>2 DEF Gone, Inv, TypeOK
<1> QED
  BY <1>1, <1>2, <1>3 DEF Inv

LEMMA MainKeeps ==
  ASSUME Inv, NEW p \in Processes, MainStep(p)
  PROVE  Inv'
<1>1. TypeOK'
  BY MainTyped DEF Inv
<1> USE DEF Inv, InStep, LateEnd, LeaseKept, TypeOK
<1>2. CASE Start(p)
  BY <1>1, <1>2 DEF Start, electVars
<1>3. CASE Serve(p)
  BY <1>1, <1>3 DEF Serve
<1>4. CASE StandDown(p)
  BY <1>1, <1>4 DEF StandDown, electVars
<1>5. CASE ElectionEnded(p)
  BY <1>5, GoneKeeps DEF ElectionEnded
<1>6. CASE Lead(p)
  BY <1>1, <1>6 DEF Lead, electVars
<1>7. CASE Reconcile(p)
  BY <1>1, <1>7 DEF Reconcile, electVars
<1>8. CASE LoopReturns(p)
  BY <1>1, <1>8 DEF LoopReturns, electVars
<1>9. CASE Exit(p)
  BY <1>9, GoneKeeps DEF Exit
<1> QED
  BY <1>2, <1>3, <1>4, <1>5, <1>6, <1>7, <1>8, <1>9 DEF MainStep

\* The record is written for q: whoever renews then is q, or nobody does.
LEMMA TakeKeeps ==
  ASSUME Inv, NEW q \in Processes, Take(q) \/ TakeUnheard(q)
  PROVE  Inv'
<1>1. TypeOK'
  BY ElectorTyped, FaultTyped DEF Inv, ElectorStep, Fault
<1>2. \A p \in Processes : elector[p] # "renewing"
  BY NoneCanTake DEF Take, TakeUnheard
<1>3. elector[q] = "acquiring"
  BY DEF Take, TakeUnheard, CanTake
<1>4. InStep' /\ LateEnd'
  BY <1>3 DEF Inv, InStep, LateEnd, Take, TakeUnheard, TypeOK, procVars, electVars
<1>5. LeaseKept'
  <2>1. CASE Take(q)
    <3> SUFFICES ASSUME NEW p \in Processes, elector'[p] = "renewing"
                 PROVE  /\ lease' = p
                        /\ renewAge'[p] < LeaseDuration
                        /\ \A r \in Processes : ~seen'[r]
      BY DEF LeaseKept
    <3>1. p = q
      BY <1>2, <2>1 DEF Take, Inv, TypeOK
    <3>2. 0 < LeaseDuration
      BY TimingAssumption DEF GiveUpAt
    <3> QED
      BY <2>1, <3>1, <3>2 DEF Take, Unseen, Inv, TypeOK
  <2>2. CASE TakeUnheard(q)
    BY <1>2, <2>2 DEF LeaseKept, TakeUnheard, electVars
  <2> QED
    BY <2>1, <2>2
<1> QED
  BY <1>1, <1>4, <1>5 DEF Inv

LEMMA ElectorKeeps ==
  ASSUME Inv, NEW p \in Processes, ElectorStep(p)
  PROVE  Inv'
<1>1. TypeOK'
  BY ElectorTyped DEF Inv
<1>2. CASE Take(p)
  BY <1>2, TakeKeeps
<1> USE DEF Inv, InStep, LateEnd, LeaseKept, TypeOK
<1>3. CASE Look(p)
  BY <1>1, <1>3 DEF Look, procVars
<1>4. CASE StartedLeading(p)
  BY <1>1, <1>4 DEF StartedLeading, electVars
<1>5. CASE Renew(p)
  <2>1. 0 < LeaseDuration
    BY TimingAssumption DEF GiveUpAt
  <2> QED
    BY <1>1, <1>5, <2>1 DEF Renew, Unseen, procVars
<1>6. CASE StopRenewing(p)
  BY <1>1, <1>6 DEF StopRenewing, procVars, Cancelled
<1>7. CASE Release(p)
  BY <1>1, <1>7 DEF Release, Unseen, procVars, electVars
<1>8. CASE RunReturns(p)
  BY <1>1, <1>8 DEF RunReturns, Cancelled
<1> QED
  BY <1>2, <1>3, <1>4, <1>5, <1>6, <1>7, <1>8 DEF ElectorStep

LEMMA FaultKeeps ==
  ASSUME Inv, NEW p \in Processes, Fault(p) \/ Roll(p)
  PROVE  Inv'
<1>1. TypeOK'
  BY FaultTyped DEF Inv
<1>2. CASE StartFails(p) \/ Crash(p)
  BY <1>2, GoneKeeps DEF StartFails, Crash
<1>3. CASE TakeUnheard(p)
  BY <1>3, TakeKeeps
<1> USE DEF Inv, InStep, LateEnd, LeaseKept, TypeOK
<1>4. CASE RenewUnheard(p)
  BY <1>1, <1>4 DEF RenewUnheard, Unseen, procVars, electVars
<1>5. CASE Terminate(p) \/ Roll(p)
  BY <1>1, <1>5 DEF Terminate, Roll, Signalled, electVars
<1>6. CASE Partition(p) \/ Heal(p)
  BY <1>1, <1>6 DEF Partition, Heal, procVars, electVars
<1> QED
  BY <1>2, <1>3, <1>4, <1>5, <1>6 DEF Fault

\* Time passes for the leader and for those who wait alike, and no further
\* than the deadline at which the leader gives up.
LEMMA TickKeeps ==
  ASSUME Inv, Tick
  PROVE  Inv'
<1>1. TypeOK'
  BY TickTyped DEF Inv
<1>2. InStep'
  BY DEF Inv, InStep, Tick, procVars
<1>3. /\ LeaseDuration \in Nat /\ RenewDeadline \in Nat /\ Oldest \in Nat
      /\ RenewDeadline < LeaseDuration /\ LeaseDuration <= Oldest
  BY TimingAssumption DEF Oldest, Longest, GiveUpAt, ReleaseWithin
<1>4. LateEnd'
  <2> SUFFICES ASSUME NEW p \in Processes, elector'[p] \in {"releasing", "done"},
                      main'[p] # "releasing"
               PROVE  renewAge'[p] >= RenewDeadline
    BY DEF LateEnd
  <2>1. renewAge[p] \in Nat /\ renewAge[p] >= RenewDeadline
    BY DEF Tick, procVars, Inv, LateEnd, TypeOK
  <2>2. renewAge'[p] = Capped(renewAge[p] + 1, Oldest)
    BY DEF Tick
  <2> QED
    BY <1>3, <2>1, <2>2 DEF Capped
<1>5. LeaseKept'
  <2> SUFFICES ASSUME NEW p \in Processes, elector'[p] = "renewing"
               PROVE  /\ lease' = p
                      /\ renewAge'[p] < LeaseDuration
                      /\ \A q \in Processes : seen'[q] => obsAge'[q] <= renewAge'[p]
    BY DEF LeaseKept
  <2>1. elector[p] = "renewing" /\ renewAge[p] \in Nat /\ InTime(p)
    BY DEF Tick, Inv, TypeOK
  <2>2. /\ lease = p
        /\ \A q \in Processes : seen[q] => obsAge[q] <= renewAge[p]
    BY <2>1 DEF Inv, LeaseKept
  <2>3. renewAge[p] + 1 < LeaseDuration
    BY <2>1, TimingAssumption DEF InTime, GiveUpAt
  <2>4. renewAge'[p] = renewAge[p] + 1
    BY <1>3, <2>1, <2>3 DEF Tick, Capped
  <2>5. ASSUME NEW q \in Processes, seen'[q]
        PROVE  obsAge'[q] <= renewAge'[p]
    <3>1. seen[q] /\ obsAge[q] <= renewAge[p] /\ obsAge[q] \in Nat
      BY <2>2, <2>5 DEF Tick, Inv, TypeOK
    <3>2. obsAge'[q] = Capped(obsAge[q] + 1, LeaseDuration)
      BY <3>1 DEF Tick
    <3> QED
      BY <1>3, <2>1, <2>3, <2>4, <3>1, <3>2 DEF Capped
  <2> QED
    BY <2>2, <2>3, <2>4, <2>5 DEF Tick
<1> QED
  BY <1>1, <1>2, <1>4, <1>5 DEF Inv

LEMMA StepKeeps == Inv /\ [Next]_vars => Inv'
<1> SUFFICES ASSUME Inv, [Next]_vars PROVE Inv'
  OBVIOUS
<1>1. CASE Tick
  BY <1>1, TickKeeps
<1>2. ASSUME NEW p \in Processes, MainStep(p) PROVE Inv'
  BY <1>2, MainKeeps
<1>3. ASSUME NEW p \in Processes, ElectorStep(p) PROVE Inv'
  BY <1>3, ElectorKeeps
<1>4. ASSUME NEW p \in Processes, Fault(p) \/ Roll(p) PROVE Inv'
  BY <1>4, FaultKeeps
<1>5. CASE UNCHANGED vars
  BY <1>5 DEF Inv, TypeOK, InStep, LateEnd, LeaseKept, vars, procVars, electVars
<1> QED
  BY <1>1, <1>2, <1>3, <1>4, <1>5 DEF Next, Calm

\* Two processes that act and have not given up both renew the one lease, or run
\* without one.
LEMMA InvExcludes == Inv => OneLeader
<1> SUFFICES ASSUME Inv, NEW p \in Processes, NEW q \in Processes,
                    Acts(p), ~GaveUp(p), Acts(q), ~GaveUp(q)
             PROVE  p = q
  BY DEF OneLeader
<1>1. ASSUME NEW r \in Processes, Acts(r), ~GaveUp(r), UsesLease(r)
      PROVE  lease = r
  <2>1. elector[r] = "renewing"
    BY <1>1 DEF Inv, InStep, LateEnd, Acts, GaveUp
  <2> QED
    BY <2>1 DEF Inv, LeaseKept
<1>2. ASSUME NEW r \in Processes, CanWrite(r), ~UsesLease(r)
      PROVE  ~Launch[r].election
  BY <1>2 DEF UsesLease, CanWrite, DryRun
<1>3. CASE ~UsesLease(p) \/ ~UsesLease(q)
  BY <1>2, <1>3, SoleAssumption DEF Acts
<1> QED
  BY <1>1, <1>3

\* For any number of processes and rolling updates, any timing whose lease
\* outlasts the leader's attempts to renew it (lease.go), and any shutdowns,
\* crashes, partitions, lost replies and early releases: of the processes whose
\* elector has not failed until its deadline, at most one reconciles with a client
\* that can write (lead, forceReadOnlyForOnce).
THEOREM AtMostOneLeader == Spec => []OneLeader
<1> QED
  BY InitInv, StepKeeps, InvExcludes, PTL DEF Spec

=============================================================================
