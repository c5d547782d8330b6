-------------------------- MODULE ReplicaRegister --------------------------
(***************************************************************************)
(* What the actuator promises of spec.replicas: the controller only ever   *)
(* changes it by a compare-and-set.  A proposal names the count it was     *)
(* decided from and the count it asks for; it takes effect only while the  *)
(* register holds the count it was decided from, and asks only for counts  *)
(* of the configured policy.  A proposal may be withdrawn at any time, may *)
(* take effect after its author has forgotten it, and any write, whoever's *)
(* it is, may void the others.                                             *)
(***************************************************************************)
EXTENDS Naturals

CONSTANTS MinCount, MaxCount

VARIABLES
  replicas,   \* the register
  author,     \* who wrote it last
  proposals   \* set of [from, to] that may still take effect

registerVars == <<replicas, author, proposals>>

\* A real change, to a count of the policy.
Admissible(p) == p.to \in MinCount..MaxCount /\ p.to # p.from

RegisterInit == replicas \in Nat /\ author = "other" /\ proposals = {}

Propose ==
  /\ \E p \in proposals' : Admissible(p) /\ proposals' = proposals \cup {p}
  /\ UNCHANGED <<replicas, author>>

Withdraw ==
  /\ proposals' \subseteq proposals
  /\ UNCHANGED <<replicas, author>>

Commit ==
  /\ \E p \in proposals : replicas = p.from /\ replicas' = p.to
  /\ author' = "controller"
  /\ proposals' \subseteq proposals

ForeignChange ==
  /\ replicas' \in Nat /\ author' = "other"
  /\ proposals' \subseteq proposals

RegisterNext == Propose \/ Withdraw \/ Commit \/ ForeignChange

RegisterSpec == RegisterInit /\ [][RegisterNext]_registerVars
============================================================================
