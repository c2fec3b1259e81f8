-------------------------------- MODULE Quota --------------------------------
(***************************************************************************)
(* The monthly generation limit of the free tier.  POST /api/generate      *)
(* counts the user's usage events of the month, and inserts one more only  *)
(* at its commit: requests that overlap all read the count before any of   *)
(* them has added to it.  Paid users are not counted against the limit,    *)
(* but what they used counts once they are back on the free tier.          *)
(***************************************************************************)
EXTENDS Naturals, FiniteSets

CONSTANTS
  Users,
  Requests,  \* handlers of POST /api/generate that may run at a time
  Owner,     \* whose requests each of them handles
  Limit,     \* settings.free_tier_monthly_generations (10)
  MaxPaid    \* bound: paid generations of a user in a month

ASSUME OwnerAssumption   == Owner \in [Requests -> Users]
ASSUME FiniteAssumption  == IsFiniteSet(Requests)
ASSUME LimitAssumption   == Limit \in Nat \ {0}
ASSUME MaxPaidAssumption == MaxPaid \in Nat

VARIABLES
  tier,     \* users.tier: "free" or "paid" (pro and enterprise are alike here)
  counted,  \* this month's generation events from requests that passed the check
  exempt,   \* ... and from requests that were not checked
  pc,       \* where each handler is
  seen      \* the tier each handler authenticated its user with

vars == <<tier, counted, exempt, pc, seen>>

Used(u) == counted[u] + exempt[u]

TypeOK ==
  /\ tier \in [Users -> {"free", "paid"}]
  /\ counted \in [Users -> Nat]
  /\ exempt \in [Users -> 0..MaxPaid]
  /\ pc \in [Requests -> {"idle", "counting", "allowed"}]
  /\ seen \in [Requests -> {"free", "paid"}]

Init ==
  /\ tier \in [Users -> {"free", "paid"}]
  /\ counted = [u \in Users |-> 0]
  /\ exempt = [u \in Users |-> 0]
  /\ pc = [r \in Requests |-> "idle"]
  /\ seen = [r \in Requests |-> "free"]

(* Authentication loads the user row; the handler goes by that row's tier. *)
Authenticate(r) ==
  /\ pc[r] = "idle"
  /\ seen' = [seen EXCEPT ![r] = tier[Owner[r]]]
  /\ pc' = [pc EXCEPT ![r] = IF tier[Owner[r]] = "free" THEN "counting" ELSE "allowed"]
  /\ UNCHANGED <<tier, counted, exempt>>

(* Mutation: the limit is off by one.                                      *)
AllowAtLimit(r) ==
  /\ pc[r] = "counting" /\ Used(Owner[r]) <= Limit
  /\ pc' = [pc EXCEPT ![r] = "allowed"]
  /\ UNCHANGED <<tier, counted, exempt, seen>>

Allow(r) ==
  /\ pc[r] = "counting" /\ Used(Owner[r]) < Limit
  /\ pc' = [pc EXCEPT ![r] = "allowed"]
  /\ UNCHANGED <<tier, counted, exempt, seen>>

(* 402: the limit is reached.                                              *)
Refuse(r) ==
  /\ pc[r] = "counting" /\ Used(Owner[r]) >= Limit
  /\ pc' = [pc EXCEPT ![r] = "idle"]
  /\ UNCHANGED <<tier, counted, exempt, seen>>

(* The job and its usage event are committed together.                     *)
CommitUsage(r) ==
  /\ pc[r] = "allowed"
  /\ \/ /\ seen[r] = "free"
        /\ counted' = [counted EXCEPT ![Owner[r]] = @ + 1]
        /\ UNCHANGED exempt
     \/ /\ seen[r] = "paid" /\ exempt[Owner[r]] < MaxPaid
        /\ exempt' = [exempt EXCEPT ![Owner[r]] = @ + 1]
        /\ UNCHANGED counted
  /\ pc' = [pc EXCEPT ![r] = "idle"]
  /\ UNCHANGED <<tier, seen>>

(* 404, 403 or a failed commit: nothing is recorded.                       *)
Abandon(r) ==
  /\ pc[r] = "allowed"
  /\ pc' = [pc EXCEPT ![r] = "idle"]
  /\ UNCHANGED <<tier, counted, exempt, seen>>

(* Mutation: the subscription's status ends up in the tier.                *)
ChangeTierToStatus(u) ==
  /\ tier' = [tier EXCEPT ![u] = "canceled"]
  /\ UNCHANGED <<counted, exempt, pc, seen>>

(* A Stripe webhook changes the tier under the running requests.           *)
ChangeTier(u) ==
  /\ tier' = [tier EXCEPT ![u] = IF @ = "free" THEN "paid" ELSE "free"]
  /\ UNCHANGED <<counted, exempt, pc, seen>>

(* From the first of the month no earlier event is counted.                *)
NewMonth ==
  /\ counted' = [u \in Users |-> 0]
  /\ exempt' = [u \in Users |-> 0]
  /\ UNCHANGED <<tier, pc, seen>>

Next ==
  \/ \E r \in Requests : Authenticate(r) \/ Allow(r) \/ Refuse(r) \/ CommitUsage(r) \/ Abandon(r)
  \/ \E u \in Users : ChangeTier(u)
  \/ NewMonth

Spec == Init /\ [][Next]_vars

-----------------------------------------------------------------------------
(* Properties.                                                             *)

RequestsOf(u) == {r \in Requests : Owner[r] = u}

(* The check bounds what the free tier gives away, whatever overlaps and   *)
(* whenever the tier or the month changes: at most one generation over the *)
(* limit for each further request handled at the same time, so exactly the *)
(* limit for a user whose requests come one after the other.               *)
OverrunBounded ==
  \A u \in Users : RequestsOf(u) # {} => counted[u] < Limit + Cardinality(RequestsOf(u))
=============================================================================
