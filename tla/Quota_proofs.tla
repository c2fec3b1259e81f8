----------------------------- MODULE Quota_proofs -----------------------------
(* Theorems about Quota, for any users, any finite set of handlers and any *)
(* limit.                                                                  *)
EXTENDS Quota, FiniteSetTheorems, TLAPS

(* Requests, webhooks and the turn of the month keep the counts well-formed*)
(* and the paid ones within their bound.                                   *)
THEOREM TypeCorrect == Spec => []TypeOK
<1>1. Init => TypeOK
  BY MaxPaidAssumption DEF Init, TypeOK
<1>2. TypeOK /\ [Next]_vars => TypeOK'
  BY OwnerAssumption, MaxPaidAssumption
  DEF TypeOK, Next, vars, Authenticate, Allow, Refuse, CommitUsage, Abandon, ChangeTier, NewMonth
<1> QED
  BY <1>1, <1>2, PTL DEF Spec

-----------------------------------------------------------------------------
(* A handler that passed the check and has not committed yet holds a grant:*)
(* what was given away and what still may be, together, stay within the    *)
(* bound, and committing turns the one into the other.                     *)
Granted(u) == {r \in RequestsOf(u) : pc[r] = "allowed" /\ seen[r] = "free"}

GrantsBounded ==
  \A u \in Users : counted[u] + Cardinality(Granted(u)) < Limit + Cardinality(RequestsOf(u))

LEMMA HandlersFinite ==
  ASSUME NEW u \in Users, NEW S \in SUBSET RequestsOf(u)
  PROVE  /\ IsFiniteSet(S) /\ IsFiniteSet(RequestsOf(u))
         /\ Cardinality(S) \in Nat /\ Cardinality(RequestsOf(u)) \in Nat
         /\ Cardinality(S) <= Cardinality(RequestsOf(u))
<1>1. IsFiniteSet(RequestsOf(u))
  BY FiniteAssumption, FS_Subset DEF RequestsOf
<1> QED
  BY <1>1, FS_Subset, FS_CardinalityType

(* Overlapping requests overrun the limit by less than their number.       *)
THEOREM OverrunIsBounded == Spec => []OverrunBounded
<1> USE OwnerAssumption, LimitAssumption
<1>1. Init => GrantsBounded
  <2> SUFFICES ASSUME Init, NEW u \in Users
               PROVE  counted[u] + Cardinality(Granted(u)) < Limit + Cardinality(RequestsOf(u))
    BY DEF GrantsBounded
  <2>1. Granted(u) = {}
    BY DEF Init, Granted, RequestsOf
  <2> QED
    BY <2>1, FS_EmptySet, HandlersFinite DEF Init, Granted
<1>2. TypeOK /\ GrantsBounded /\ [Next]_vars => GrantsBounded'
  <2> SUFFICES ASSUME TypeOK, GrantsBounded, [Next]_vars, NEW u \in Users
               PROVE  counted'[u] + Cardinality(Granted(u)') < Limit + Cardinality(RequestsOf(u))
    BY DEF GrantsBounded, RequestsOf
  <2>0. /\ counted[u] \in Nat /\ exempt[u] \in Nat
        /\ Granted(u) \in SUBSET RequestsOf(u) /\ Granted(u)' \in SUBSET RequestsOf(u)
        /\ counted[u] + Cardinality(Granted(u)) < Limit + Cardinality(RequestsOf(u))
    BY MaxPaidAssumption DEF TypeOK, GrantsBounded, Granted, RequestsOf
  <2>1. CASE counted'[u] = counted[u] /\ Granted(u)' \subseteq Granted(u)
    BY <2>0, <2>1, HandlersFinite, FS_Subset
  <2>2. ASSUME NEW r \in Requests, Authenticate(r) \/ Refuse(r) \/ Abandon(r)
        PROVE  counted'[u] = counted[u] /\ Granted(u)' \subseteq Granted(u)
    BY <2>2 DEF Authenticate, Refuse, Abandon, TypeOK, Granted, RequestsOf
  <2>3. ASSUME NEW r \in Requests, Allow(r)
        PROVE  counted'[u] + Cardinality(Granted(u)') < Limit + Cardinality(RequestsOf(u))
    <3>1. CASE Owner[r] = u
      BY <2>0, <2>3, <3>1, HandlersFinite DEF Allow, Used
    <3>2. CASE Owner[r] # u
      BY <2>1, <2>3, <3>2 DEF Allow, TypeOK, Granted, RequestsOf
    <3> QED
      BY <3>1, <3>2
  <2>4. ASSUME NEW r \in Requests, CommitUsage(r)
        PROVE  counted'[u] + Cardinality(Granted(u)') < Limit + Cardinality(RequestsOf(u))
    <3>1. CASE seen[r] = "free" /\ Owner[r] = u
      <4>1. r \in Granted(u) /\ Granted(u)' = Granted(u) \ {r}
        BY <2>4, <3>1 DEF CommitUsage, TypeOK, Granted, RequestsOf
      <4>2. counted'[u] = counted[u] + 1
        BY <2>4, <3>1 DEF CommitUsage, TypeOK
      <4>3. Cardinality(Granted(u)') = Cardinality(Granted(u)) - 1
        BY <2>0, <4>1, HandlersFinite, FS_RemoveElement
      <4> QED
        BY <2>0, <4>2, <4>3, HandlersFinite
    <3>2. CASE ~(seen[r] = "free" /\ Owner[r] = u)
      BY <2>1, <2>4, <3>2 DEF CommitUsage, TypeOK, Granted, RequestsOf
    <3> QED
      BY <3>1, <3>2
  <2>5. ASSUME NewMonth
        PROVE  counted'[u] + Cardinality(Granted(u)') < Limit + Cardinality(RequestsOf(u))
    BY <2>0, <2>5, HandlersFinite DEF NewMonth
  <2>6. ASSUME NEW v \in Users, ChangeTier(v)
        PROVE  counted'[u] = counted[u] /\ Granted(u)' \subseteq Granted(u)
    BY <2>6 DEF ChangeTier, Granted, RequestsOf
  <2>7. CASE UNCHANGED vars
    BY <2>1, <2>7 DEF vars, Granted, RequestsOf
  <2> QED
    BY <2>1, <2>2, <2>3, <2>4, <2>5, <2>6, <2>7 DEF Next
<1>3. TypeOK /\ GrantsBounded => OverrunBounded
  <2> SUFFICES ASSUME TypeOK, GrantsBounded, NEW u \in Users
               PROVE  counted[u] < Limit + Cardinality(RequestsOf(u))
    BY DEF OverrunBounded
  <2>1. Granted(u) \in SUBSET RequestsOf(u)
    BY DEF Granted
  <2> QED
    BY <2>1, HandlersFinite DEF TypeOK, GrantsBounded
<1> QED
  BY <1>1, <1>2, <1>3, TypeCorrect, PTL DEF Spec
=============================================================================
