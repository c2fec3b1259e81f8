---------------------------- MODULE Billing_proofs ----------------------------
(* Theorems about Billing, for any users, subscriptions and handlers, and  *)
(* any number of status changes, repetitions, overtakings and failures.    *)
EXTENDS Billing, TLAPS

(* The steps in which a handler reads leave its work well-formed.          *)
LEMMA WorkFields ==
  /\ Idle \in Works /\ Idle.pc = "idle" /\ Idle.event = NoEvent
  /\ \A w \in Works : /\ w.event \in Events \cup {NoEvent}
                      /\ w.pc \in {"idle", "loaded", "retrieved", "found", "ready"}
                      /\ w.tier \in {"free", "pro"} /\ w.known \in BOOLEAN /\ w.last \in BOOLEAN
                      /\ w.status \in Statuses \cup {"none"} /\ w.row \in Statuses \cup {"none"}
  BY DEF Idle, Works

LEMMA WorkUpdates ==
  ASSUME NEW w \in Works, NEW p \in {"idle", "loaded", "retrieved", "found", "ready"},
         NEW st \in Statuses \cup {"none"}, NEW l \in BOOLEAN
  PROVE  /\ [w EXCEPT !.pc = p, !.status = st] \in Works
         /\ [w EXCEPT !.pc = p, !.row = st] \in Works
         /\ [w EXCEPT !.pc = p, !.last = l] \in Works
<1> USE DEF Works
<1>1. [w EXCEPT !.pc = p, !.status = st] \in Works
  OBVIOUS
<1>2. [w EXCEPT !.pc = p, !.row = st] \in Works
  OBVIOUS
<1>3. [w EXCEPT !.pc = p, !.last = l] \in Works
  OBVIOUS
<1> QED
  BY <1>1, <1>2, <1>3

(* A webhook that is taken is loaded, and may stay to be delivered again.  *)
LEMMA ReceiveStep ==
  ASSUME NEW h \in Handlers, Receive(h)
  PROVE  \E e \in pending, again, late \in {0, 1} :
           /\ spent.repeat + again <= MaxRepeats /\ spent.disorder + late <= MaxDisorder
           /\ spent' = [spent EXCEPT !.repeat = @ + again, !.disorder = @ + late]
           /\ pending' = IF again = 1 THEN pending ELSE pending \ {e}
           /\ work' = [work EXCEPT ![h] = Loaded(e)]
           /\ overlapped' = (overlapped \/ Overlaps(e))
BY DEF Receive

(* What handlers read and write stays well-formed, and a handler answers a *)
(* webhook exactly while it is busy.                                       *)
THEOREM TypeCorrect == Spec => []TypeOK
<1> USE BuyerAssumption, CustomerAssumption, EventAssumption, WorkFields
        DEF TypeOK, account, shop, remote, Busy
<1>0. MaxChanges \in Nat /\ MaxRepeats \in Nat /\ MaxDisorder \in Nat /\ MaxFailures \in Nat
  BY BoundAssumption
<1>1. Init => TypeOK
  <2> SUFFICES ASSUME Init PROVE TypeOK
    OBVIOUS
  <2>1. work \in [Handlers -> Works] /\ \A h \in Handlers : work[h].event = NoEvent /\ work[h].pc = "idle"
    BY DEF Init
  <2>2. lapsed \in [Subs -> BOOLEAN] /\ overlapped \in BOOLEAN
    BY DEF Init
  <2>3. spent \in [repeat : 0..MaxRepeats, disorder : 0..MaxDisorder, failure : 0..MaxFailures]
    BY <1>0 DEF Init
  <2>4. changes \in [Subs -> 0..MaxChanges]
    BY <1>0 DEF Init
  <2> QED
    BY <2>1, <2>2, <2>3, <2>4 DEF Init
<1>2. TypeOK /\ [Next]_vars => TypeOK'
  <2> SUFFICES ASSUME TypeOK, [Next]_vars PROVE TypeOK'
    OBVIOUS
  <2>1. ASSUME NEW s \in Subs, OpenCheckout(s) PROVE TypeOK'
    <3>1. payer' \in [Subs -> Customers \cup {NoCustomer}]
      BY <2>1 DEF OpenCheckout
    <3>2. page' \in [Subs -> {"none", "saving", "open"}]
      BY <2>1 DEF OpenCheckout
    <3> QED
      BY <2>1, <3>1, <3>2 DEF OpenCheckout
  <2>2. ASSUME NEW s \in Subs, SaveCustomer(s) PROVE TypeOK'
    BY <2>2 DEF SaveCustomer
  <2>3. ASSUME NEW s \in Subs, Pay(s) PROVE TypeOK'
    BY <1>0, <2>3 DEF Pay, Events, Statuses
  <2>4. ASSUME NEW s \in Subs, Change(s) PROVE TypeOK'
    <3>1. changes[s] + 1 \in 0..MaxChanges
      BY <1>0, <2>4 DEF Change
    <3>2. PICK st \in Statuses \ {stripe[s]} :
            /\ stripe' = [stripe EXCEPT ![s] = st]
            /\ pending' = pending \cup {[sub |-> s, seq |-> changes[s] + 1, status |-> st]}
            /\ lapsed' = [lapsed EXCEPT ![s] = @ \/ st # "active"]
      BY <2>4 DEF Change
    <3>3. [sub |-> s, seq |-> changes[s] + 1, status |-> st] \in Events
      BY <3>1 DEF Events
    <3>4. lapsed' \in [Subs -> BOOLEAN]
      BY <3>2
    <3> QED
      BY <2>4, <3>1, <3>2, <3>3, <3>4 DEF Change
  <2>5. ASSUME NEW h \in Handlers, Receive(h) PROVE TypeOK'
    <3>1. PICK e \in pending, again \in {0, 1}, late \in {0, 1} :
            /\ spent.repeat + again <= MaxRepeats /\ spent.disorder + late <= MaxDisorder
            /\ spent' = [spent EXCEPT !.repeat = @ + again, !.disorder = @ + late]
            /\ pending' = IF again = 1 THEN pending ELSE pending \ {e}
            /\ work' = [work EXCEPT ![h] = Loaded(e)]
            /\ overlapped' = (overlapped \/ Overlaps(e))
      <4> HIDE DEF TypeOK, Busy
      <4> QED
        BY <2>5, ReceiveStep
    <3>2. Loaded(e) \in Works /\ Loaded(e).event # NoEvent /\ Loaded(e).pc # "idle"
      <4>1. e \in Events /\ e.sub \in Subs /\ e.status \in Statuses
        BY DEF Events
      <4>2. tier[Buyer[e.sub]] \in {"free", "pro"}
        BY <4>1
      <4> HIDE DEF TypeOK
      <4> QED
        BY <4>1, <4>2 DEF Loaded, Idle, Works
    <3>3. spent' \in [repeat : 0..MaxRepeats, disorder : 0..MaxDisorder, failure : 0..MaxFailures]
      <4>1. spent.repeat + again \in 0..MaxRepeats /\ spent.disorder + late \in 0..MaxDisorder
        BY <1>0, <3>1
      <4> QED
        BY <3>1, <4>1
    <3>4. overlapped' \in BOOLEAN
      BY <3>1 DEF Overlaps
    <3> QED
      BY <2>5, <3>1, <3>2, <3>3, <3>4 DEF Receive
  <2>6. ASSUME NEW h \in Handlers, Busy(h)
        PROVE  work[h].event \in Events /\ SubOf(h) \in Subs /\ UserOf(h) \in Users
    BY <2>6 DEF SubOf, UserOf, Events
  <2>7. ASSUME NEW h \in Handlers, Retrieve(h) PROVE TypeOK'
    <3>1. [work[h] EXCEPT !.pc = "retrieved", !.status = stripe[SubOf(h)]] \in Works
      BY <2>6, <2>7, WorkUpdates DEF Retrieve
    <3> QED
      BY <2>7, <3>1 DEF Retrieve
  <2>8. ASSUME NEW h \in Handlers, FindRow(h) PROVE TypeOK'
    <3>1. [work[h] EXCEPT !.pc = IF Downgrades(h) THEN "found" ELSE "ready",
                          !.row = row[SubOf(h)]] \in Works
      BY <2>6, <2>8, WorkUpdates DEF FindRow
    <3> QED
      BY <2>8, <3>1 DEF FindRow
  <2>9. ASSUME NEW h \in Handlers, CountOthers(h) PROVE TypeOK'
    <3>1. NoOtherActive(h) \in BOOLEAN
      BY DEF NoOtherActive
    <3>2. [work[h] EXCEPT !.pc = "ready", !.last = NoOtherActive(h)] \in Works
      BY <2>6, <2>9, <3>1, WorkUpdates DEF CountOthers
    <3> QED
      BY <2>9, <3>2 DEF CountOthers
  <2>10. ASSUME NEW h \in Handlers, CommitCheckout(h) PROVE TypeOK'
    BY <2>6, <2>10 DEF CommitCheckout
  <2>11. ASSUME NEW h \in Handlers, RefuseInsert(h) PROVE TypeOK'
    BY <2>6, <2>11 DEF RefuseInsert
  <2>12. ASSUME NEW h \in Handlers, CommitUpdate(h) PROVE TypeOK'
    BY <2>6, <2>12 DEF CommitUpdate
  <2>13. ASSUME NEW h \in Handlers, Fail(h) PROVE TypeOK'
    BY <1>0, <2>6, <2>13 DEF Fail
  <2>14. CASE UNCHANGED vars
    BY <2>14 DEF vars
  <2> QED
    BY <2>1, <2>2, <2>3, <2>4, <2>5, <2>7, <2>8, <2>9, <2>10, <2>11, <2>12, <2>13, <2>14
    DEF Next, HandlerStep
<1> QED
  BY <1>1, <1>2, PTL DEF Spec

-----------------------------------------------------------------------------
(* Webhooks are about paid subscriptions, a handler goes by a status once  *)
(* it has one, it counts only in order to downgrade, and a row it has read *)
(* stays.                                                                  *)
ReadRightly ==
  /\ \A e \in pending : stripe[e.sub] # "none"
  /\ \A h \in Handlers : Busy(h) =>
       /\ stripe[SubOf(h)] # "none"
       /\ work[h].status = "none" => work[h].event.seq = 0 /\ work[h].pc = "loaded"
       /\ work[h].pc = "found" => work[h].event.seq > 0 /\ work[h].status # "active"
       /\ work[h].row # "none" => row[SubOf(h)] # "none"

(* What a busy handler handles.                                            *)
LEMMA BusyFields ==
  ASSUME TypeOK, NEW h \in Handlers, Busy(h)
  PROVE  /\ work[h].event \in Events /\ SubOf(h) \in Subs /\ UserOf(h) \in Users
         /\ work[h].event.seq \in Nat /\ work[h].status \in Statuses \cup {"none"}
  BY BoundAssumption, BuyerAssumption, EventAssumption, WorkFields DEF TypeOK, Busy, SubOf, UserOf, Events

(* What a handler holds after each step that reads.                        *)
LEMMA LoadedFields ==
  ASSUME NEW e \in pending
  PROVE  /\ Loaded(e).pc = "loaded" /\ Loaded(e).event = e /\ Loaded(e).last = FALSE
         /\ Loaded(e).tier = tier[Buyer[e.sub]] /\ Loaded(e).row = "none"
         /\ Loaded(e).known = (e.seq = 0 \/ customer[Buyer[e.sub]] = payer[e.sub])
         /\ Loaded(e).status = IF e.seq = 0 THEN "none" ELSE e.status
  BY DEF Loaded, Idle

LEMMA RetrieveStep ==
  ASSUME TypeOK, NEW h \in Handlers, Retrieve(h)
  PROVE  \E w \in Works : /\ work' = [work EXCEPT ![h] = w] /\ Busy(h)
                         /\ w.event = work[h].event /\ w.tier = work[h].tier /\ w.known = work[h].known
                         /\ w.pc = "retrieved" /\ w.status = stripe[SubOf(h)]
                         /\ w.row = work[h].row /\ w.last = work[h].last
<1> DEFINE w == [work[h] EXCEPT !.pc = "retrieved", !.status = stripe[SubOf(h)]]
<1>0. work[h] \in Works
  BY DEF TypeOK
<1>1. stripe[SubOf(h)] \in Statuses \cup {"none"}
  BY BusyFields DEF TypeOK, Busy, Retrieve
<1>2. w \in Works
  BY <1>0, <1>1, WorkUpdates
<1>3. work' = [work EXCEPT ![h] = w] /\ Busy(h)
  BY DEF Retrieve, Busy
<1>4. /\ w.event = work[h].event /\ w.tier = work[h].tier /\ w.known = work[h].known
      /\ w.pc = "retrieved" /\ w.status = stripe[SubOf(h)]
      /\ w.row = work[h].row /\ w.last = work[h].last
  BY <1>0, <1>1 DEF Works
<1> HIDE DEF w
<1> QED
  BY <1>2, <1>3, <1>4

LEMMA FindStep ==
  ASSUME TypeOK, NEW h \in Handlers, FindRow(h)
  PROVE  \E w \in Works : /\ work' = [work EXCEPT ![h] = w] /\ Busy(h)
                         /\ w.event = work[h].event /\ w.tier = work[h].tier /\ w.known = work[h].known
                         /\ w.pc = (IF Downgrades(h) THEN "found" ELSE "ready") /\ w.row = row[SubOf(h)]
                         /\ w.status = work[h].status /\ w.last = work[h].last
<1> DEFINE w == [work[h] EXCEPT !.pc = IF Downgrades(h) THEN "found" ELSE "ready", !.row = row[SubOf(h)]]
<1>0. work[h] \in Works
  BY DEF TypeOK
<1>1. row[SubOf(h)] \in Statuses \cup {"none"}
  BY BusyFields DEF TypeOK, Busy, FindRow
<1>2. w \in Works
  BY <1>0, <1>1, WorkUpdates
<1>3. work' = [work EXCEPT ![h] = w] /\ Busy(h)
  BY DEF FindRow, Busy
<1>4. /\ w.event = work[h].event /\ w.tier = work[h].tier /\ w.known = work[h].known
      /\ w.pc = (IF Downgrades(h) THEN "found" ELSE "ready") /\ w.row = row[SubOf(h)]
                         /\ w.status = work[h].status /\ w.last = work[h].last
  BY <1>0, <1>1 DEF Works
<1> HIDE DEF w
<1> QED
  BY <1>2, <1>3, <1>4

LEMMA CountStep ==
  ASSUME TypeOK, NEW h \in Handlers, CountOthers(h)
  PROVE  \E w \in Works : /\ work' = [work EXCEPT ![h] = w] /\ Busy(h)
                         /\ w.event = work[h].event /\ w.tier = work[h].tier /\ w.known = work[h].known
                         /\ w.pc = "ready" /\ w.last = NoOtherActive(h)
                         /\ w.status = work[h].status /\ w.row = work[h].row
<1> DEFINE w == [work[h] EXCEPT !.pc = "ready", !.last = NoOtherActive(h)]
<1>0. work[h] \in Works
  BY DEF TypeOK
<1>1. NoOtherActive(h) \in BOOLEAN
  BY BusyFields DEF TypeOK, Busy, CountOthers, NoOtherActive
<1>2. w \in Works
  BY <1>0, <1>1, WorkUpdates
<1>3. work' = [work EXCEPT ![h] = w] /\ Busy(h)
  BY DEF CountOthers, Busy
<1>4. /\ w.event = work[h].event /\ w.tier = work[h].tier /\ w.known = work[h].known
      /\ w.pc = "ready" /\ w.last = NoOtherActive(h)
      /\ w.status = work[h].status /\ w.row = work[h].row
  BY <1>0, <1>1 DEF Works
<1> HIDE DEF w
<1> QED
  BY <1>2, <1>3, <1>4

(* A reading step keeps to this when what it has read does.                *)
LEMMA ReadingStep ==
  ASSUME TypeOK, ReadRightly, UNCHANGED <<row, stripe, pending>>, NEW h \in Handlers, Busy(h),
         NEW w, work' = [work EXCEPT ![h] = w], w.event = work[h].event, w.status # "none",
         w.pc = "found" => w.event.seq > 0 /\ w.status # "active",
         w.row # "none" => row[SubOf(h)] # "none"
  PROVE  ReadRightly'
<1>1. work'[h] = w /\ \A g \in Handlers : g # h => work'[g] = work[g]
  BY DEF TypeOK
<1>2. SubOf(h) = work[h].event.sub /\ stripe[SubOf(h)] # "none"
  BY DEF SubOf, ReadRightly
<1> QED
  BY <1>1, <1>2 DEF ReadRightly, Busy, SubOf

LEMMA ReadRightlyInvariant == Spec => []ReadRightly
<1> USE DEF account, shop, remote
<1>1. Init => ReadRightly
  BY WorkFields DEF Init, ReadRightly, Busy
<1>2. TypeOK /\ TypeOK' /\ ReadRightly /\ [Next]_vars => ReadRightly'
  <2> SUFFICES ASSUME TypeOK, TypeOK', ReadRightly, [Next]_vars PROVE ReadRightly'
    OBVIOUS
  <2>0. /\ work \in [Handlers -> Works] /\ pending \subseteq Events
        /\ row \in [Subs -> Statuses \cup {"none"}] /\ stripe \in [Subs -> Statuses \cup {"none"}]
        /\ \A h \in Handlers : Busy(h) =>
             work[h].event \in Events /\ work[h].event.sub \in Subs /\ work[h].event.seq \in Nat
        /\ Idle.pc = "idle" /\ \A e \in Events : e.sub \in Subs
    BY BusyFields, WorkFields DEF TypeOK, Events, SubOf
  <2>1. ASSUME NEW s \in Subs, OpenCheckout(s) \/ SaveCustomer(s) PROVE ReadRightly'
    BY <2>0, <2>1 DEF OpenCheckout, SaveCustomer, ReadRightly, Busy, SubOf
  <2>2. ASSUME NEW s \in Subs, Pay(s) PROVE ReadRightly'
    BY <2>0, <2>2 DEF Pay, Events, ReadRightly, Busy, SubOf
  <2>3. ASSUME NEW s \in Subs, Change(s) PROVE ReadRightly'
    BY <2>0, <2>3 DEF Change, Events, Statuses, ReadRightly, Busy, SubOf
  <2>4. ASSUME NEW h \in Handlers, Receive(h) PROVE ReadRightly'
    <3>1. PICK e \in pending : work' = [work EXCEPT ![h] = Loaded(e)] /\ pending' \subseteq pending
      BY <2>4 DEF Receive
    <3>2. /\ e.status # "none" /\ stripe[e.sub] # "none" /\ e.seq \in Nat
          /\ Loaded(e).pc = "loaded" /\ Loaded(e).event = e /\ Loaded(e).row = "none"
          /\ Loaded(e).status = IF e.seq = 0 THEN "none" ELSE e.status
      <4>1. e \in Events /\ stripe[e.sub] # "none"
        BY <2>0 DEF ReadRightly
      <4>2. e.status # "none" /\ e.seq \in Nat
        BY <4>1, BoundAssumption DEF Events, Statuses
      <4> QED
        BY <4>1, <4>2, LoadedFields
    <3>3. UNCHANGED <<row, stripe>>
      BY <2>4 DEF Receive
    <3>4. work'[h] = Loaded(e) /\ \A g \in Handlers : g # h => work'[g] = work[g]
      BY <2>0, <3>1
    <3> QED
      BY <2>0, <3>1, <3>2, <3>3, <3>4 DEF ReadRightly, Busy, SubOf
  <2>5. ASSUME NEW h \in Handlers, Retrieve(h) PROVE ReadRightly'
    <3>1. PICK w \in Works : /\ work' = [work EXCEPT ![h] = w] /\ Busy(h)
                            /\ w.event = work[h].event /\ w.pc = "retrieved"
                            /\ w.status = stripe[SubOf(h)] /\ w.row = work[h].row
      BY <2>5, RetrieveStep
    <3>2. UNCHANGED <<row, stripe, pending>>
      BY <2>5 DEF Retrieve
    <3>3. stripe[SubOf(h)] # "none" /\ (w.row # "none" => row[SubOf(h)] # "none")
      BY <3>1 DEF ReadRightly
    <3> QED
      BY <3>1, <3>2, <3>3, ReadingStep
  <2>6. ASSUME NEW h \in Handlers, FindRow(h) PROVE ReadRightly'
    <3>1. PICK w \in Works : /\ work' = [work EXCEPT ![h] = w] /\ Busy(h)
                            /\ w.event = work[h].event
                            /\ w.pc = (IF Downgrades(h) THEN "found" ELSE "ready")
                            /\ w.status = work[h].status /\ w.row = row[SubOf(h)]
      BY <2>6, FindStep
    <3>2. UNCHANGED <<row, stripe, pending>>
      BY <2>6 DEF FindRow
    <3>3. work[h].status # "none"
      BY <2>6, <3>1, BusyFields DEF FindRow, ReadRightly
    <3>4. w.pc = "found" => w.event.seq > 0 /\ w.status # "active"
      BY <3>1 DEF Downgrades
    <3> QED
      BY <3>1, <3>2, <3>3, <3>4, ReadingStep
  <2>7. ASSUME NEW h \in Handlers, CountOthers(h) PROVE ReadRightly'
    <3>1. PICK w \in Works : /\ work' = [work EXCEPT ![h] = w] /\ Busy(h)
                            /\ w.event = work[h].event /\ w.pc = "ready"
                            /\ w.status = work[h].status /\ w.row = work[h].row
      BY <2>7, CountStep
    <3>2. UNCHANGED <<row, stripe, pending>>
      BY <2>7 DEF CountOthers
    <3>3. work[h].status # "none" /\ (w.row # "none" => row[SubOf(h)] # "none")
      BY <2>7, <3>1 DEF CountOthers, ReadRightly
    <3> QED
      BY <3>1, <3>2, <3>3, ReadingStep
  <2>8. ASSUME NEW h \in Handlers, CommitCheckout(h) PROVE ReadRightly'
    BY <2>0, <2>8 DEF Statuses, CommitCheckout, ReadRightly, Busy, SubOf
  <2>9. ASSUME NEW h \in Handlers, RefuseInsert(h) \/ Fail(h) PROVE ReadRightly'
    BY <2>0, <2>9 DEF RefuseInsert, Fail, ReadRightly, Busy, SubOf
  <2>10. ASSUME NEW h \in Handlers, CommitUpdate(h) PROVE ReadRightly'
    BY <2>0, <2>10 DEF RowWritten, CommitUpdate, ReadRightly, Busy, SubOf
  <2>11. CASE UNCHANGED vars
    BY <2>11 DEF vars, ReadRightly, Busy, SubOf
  <2> QED
    BY <2>1, <2>2, <2>3, <2>4, <2>5, <2>6, <2>7, <2>8, <2>9, <2>10, <2>11 DEF Next, HandlerStep
<1> QED
  BY <1>1, <1>2, TypeCorrect, PTL DEF Spec

-----------------------------------------------------------------------------
(* Whatever is known of a subscription that never lapsed says so: the      *)
(* status at Stripe, every webhook on its way, what a handler goes by, and *)
(* the row.                                                                *)
KnownPaid ==
  /\ \A s \in Subs : ~lapsed[s] => stripe[s] \in {"none", "active"} /\ row[s] \in {"none", "active"}
  /\ \A e \in pending : ~lapsed[e.sub] => e.status = "active"
  /\ \A h \in Handlers : Busy(h) /\ ~lapsed[SubOf(h)] =>
       work[h].event.status = "active" /\ work[h].status \in {"none", "active"}

(* A handler that is alone with its user finds the tier as it read it, and *)
(* downgrades only for a subscription that lapsed when no other is active. *)
AloneWithUser ==
  /\ \A g, h \in Handlers : Busy(g) /\ Busy(h) /\ UserOf(g) = UserOf(h) => g = h
  /\ \A h \in Handlers : Busy(h) => work[h].tier = tier[UserOf(h)]
  /\ \A h \in Handlers : Busy(h) /\ work[h].last =>
       work[h].pc = "ready" /\ work[h].event.seq > 0 /\ work[h].status # "active" /\ NoOtherActive(h)

PaidInv == KnownPaid /\ PaidIsPro /\ (~overlapped => AloneWithUser)

(* Every step of Stripe and of the handlers keeps that.                    *)
LEMMA PaidInvariant == Spec => []PaidInv
<1> USE BuyerAssumption, WorkFields DEF TypeOK, account, shop, remote
<1>1. Init => PaidInv
  BY DEF Init, PaidInv, KnownPaid, AloneWithUser, PaidIsPro, Busy
<1>2. TypeOK /\ TypeOK' /\ ReadRightly /\ PaidInv /\ [Next]_vars => PaidInv'
  <2> SUFFICES ASSUME TypeOK, TypeOK', ReadRightly, PaidInv, [Next]_vars PROVE PaidInv'
    OBVIOUS
  <2> USE DEF PaidInv
  <2>0. \A h \in Handlers : Busy(h) =>
          /\ work[h].event \in Events /\ SubOf(h) \in Subs /\ UserOf(h) \in Users
          /\ work[h].event.seq \in Nat /\ work[h].status \in Statuses \cup {"none"}
    BY BusyFields
  <2>1. ASSUME NEW s \in Subs, OpenCheckout(s) \/ SaveCustomer(s) PROVE PaidInv'
    BY <2>0, <2>1 DEF OpenCheckout, SaveCustomer, KnownPaid, AloneWithUser, PaidIsPro, Busy, SubOf,
                      UserOf, NoOtherActive
  <2>2. ASSUME NEW s \in Subs, Pay(s) PROVE PaidInv'
    <3>1. KnownPaid'
      BY <2>0, <2>2 DEF Pay, KnownPaid, Busy, SubOf, Events
    <3> QED
      BY <2>0, <2>2, <3>1 DEF Pay, AloneWithUser, PaidIsPro, Busy, SubOf, UserOf, NoOtherActive
  <2>3. ASSUME NEW s \in Subs, Change(s) PROVE PaidInv'
    <3>1. lapsed'[s]
      <4>1. PICK st \in Statuses \ {stripe[s]} :
              /\ stripe' = [stripe EXCEPT ![s] = st]
              /\ pending' = pending \cup {[sub |-> s, seq |-> changes[s] + 1, status |-> st]}
              /\ lapsed' = [lapsed EXCEPT ![s] = @ \/ st # "active"]
        BY <2>3 DEF Change
      <4>2. lapsed'[s] = (lapsed[s] \/ st # "active")
        BY <4>1
      <4>3. lapsed[s] \/ stripe[s] = "active"
        BY <2>3 DEF Change, KnownPaid
      <4> QED
        BY <4>1, <4>2, <4>3
    <3>2. \A t \in Subs : t # s => lapsed'[t] = lapsed[t] /\ stripe'[t] = stripe[t]
      BY <2>3 DEF Change
    <3>3. \A e \in pending' : e \in pending \/ e.sub = s
      BY <2>3 DEF Change
    <3>4. KnownPaid'
      BY <2>0, <2>3, <3>1, <3>2, <3>3 DEF Change, KnownPaid, Busy, SubOf, Events
    <3>5. PaidIsPro'
      BY <2>3, <3>1, <3>2 DEF Change, PaidIsPro
    <3> QED
      BY <2>0, <2>3, <3>4, <3>5 DEF Change, AloneWithUser, Busy, SubOf, UserOf, NoOtherActive
  <2>4. ASSUME NEW h \in Handlers, Receive(h) PROVE PaidInv'
    <3>1. PICK e \in pending : /\ work' = [work EXCEPT ![h] = Loaded(e)]
                               /\ pending' \subseteq pending
                               /\ overlapped' = (overlapped \/ Overlaps(e))
      BY <2>4 DEF Receive
    <3>2. /\ Loaded(e).pc = "loaded" /\ Loaded(e).event = e /\ Loaded(e).last = FALSE
          /\ Loaded(e).tier = tier[Buyer[e.sub]]
          /\ Loaded(e).status = IF e.seq = 0 THEN "none" ELSE e.status
      BY LoadedFields
    <3>3. e.sub \in Subs /\ e.status # "none"
      BY DEF Events, Statuses
    <3>4. KnownPaid'
      BY <2>4, <3>1, <3>2, <3>3 DEF Receive, KnownPaid, Busy, SubOf
    <3>5. PaidIsPro'
      BY <2>4, <3>1 DEF Receive, PaidIsPro
    <3>6. ~overlapped' => AloneWithUser'
      <4> SUFFICES ASSUME ~overlapped' PROVE AloneWithUser'
        OBVIOUS
      <4>1. /\ AloneWithUser /\ work \in [Handlers -> Works] /\ UNCHANGED <<tier, row>> /\ ~Busy(h)
            /\ \A g \in Handlers : Busy(g) => UserOf(g) # Buyer[e.sub]
        BY <2>4, <3>1 DEF Receive, Overlaps, UserOf, SubOf
      <4>2. work'[h] = Loaded(e) /\ \A g \in Handlers : g # h => work'[g] = work[g]
        BY <3>1, <4>1
      <4>3. UserOf(h)' = Buyer[e.sub] /\ work'[h].last = FALSE /\ work'[h].tier = tier[Buyer[e.sub]]
        BY <3>2, <4>2 DEF UserOf, SubOf
      <4>4. \A g \in Handlers : g # h =>
              /\ Busy(g)' <=> Busy(g)
              /\ SubOf(g)' = SubOf(g) /\ UserOf(g)' = UserOf(g)
        BY <4>2 DEF Busy, SubOf, UserOf
      <4>5. \A g \in Handlers : g # h => (NoOtherActive(g)' <=> NoOtherActive(g))
        BY <4>1, <4>4 DEF NoOtherActive
      <4>6. \A f, g \in Handlers : Busy(f)' /\ Busy(g)' /\ UserOf(f)' = UserOf(g)' => f = g
        BY <4>1, <4>3, <4>4 DEF AloneWithUser
      <4>7. \A g \in Handlers : Busy(g)' => work'[g].tier = tier'[UserOf(g)']
        BY <4>1, <4>2, <4>3, <4>4 DEF AloneWithUser
      <4>8. \A g \in Handlers : Busy(g)' /\ work'[g].last =>
              work'[g].pc = "ready" /\ work'[g].event.seq > 0 /\ work'[g].status # "active" /\ NoOtherActive(g)'
        BY <4>1, <4>2, <4>3, <4>4, <4>5 DEF AloneWithUser
      <4> QED
        BY <4>6, <4>7, <4>8 DEF AloneWithUser
    <3> QED
      BY <3>4, <3>5, <3>6
  <2>5. ASSUME NEW h \in Handlers, Retrieve(h) PROVE PaidInv'
    <3>1. PICK w \in Works : /\ work' = [work EXCEPT ![h] = w] /\ Busy(h)
                            /\ w.event = work[h].event /\ w.tier = work[h].tier
                            /\ w.pc = "retrieved" /\ w.status = stripe[SubOf(h)] /\ w.last = work[h].last
      BY <2>5, RetrieveStep
    <3>2. UNCHANGED <<tier, row, stripe, lapsed, pending, overlapped>>
      BY <2>5 DEF Retrieve
    <3>3. ~overlapped => ~w.last
      BY <2>5, <3>1 DEF AloneWithUser, Retrieve
    <3>4. KnownPaid'
      BY <2>0, <3>1, <3>2 DEF KnownPaid, Busy, SubOf
    <3> QED
      BY <2>0, <3>1, <3>2, <3>3, <3>4 DEF AloneWithUser, PaidIsPro, Busy, SubOf, UserOf, NoOtherActive
  <2>6. ASSUME NEW h \in Handlers, FindRow(h) PROVE PaidInv'
    <3>1. PICK w \in Works : /\ work' = [work EXCEPT ![h] = w] /\ Busy(h)
                            /\ w.event = work[h].event /\ w.tier = work[h].tier
                            /\ w.pc \in {"found", "ready"} /\ w.status = work[h].status /\ w.last = work[h].last
      BY <2>6, FindStep
    <3>2. UNCHANGED <<tier, row, stripe, lapsed, pending, overlapped>>
      BY <2>6 DEF FindRow
    <3>3. ~overlapped => ~w.last
      BY <2>6, <3>1 DEF AloneWithUser, FindRow
    <3>4. KnownPaid'
      BY <2>0, <3>1, <3>2 DEF KnownPaid, Busy, SubOf
    <3> QED
      BY <2>0, <3>1, <3>2, <3>3, <3>4 DEF AloneWithUser, PaidIsPro, Busy, SubOf, UserOf, NoOtherActive
  <2>7. ASSUME NEW h \in Handlers, CountOthers(h) PROVE PaidInv'
    <3>1. PICK w \in Works : /\ work' = [work EXCEPT ![h] = w] /\ Busy(h)
                            /\ w.event = work[h].event /\ w.tier = work[h].tier
                            /\ w.pc = "ready" /\ w.status = work[h].status /\ w.last = NoOtherActive(h)
      BY <2>7, CountStep
    <3>2. UNCHANGED <<tier, row, stripe, lapsed, pending, overlapped>>
      BY <2>7 DEF CountOthers
    <3>3. w.event.seq > 0 /\ w.status # "active"
      BY <2>7, <3>1 DEF ReadRightly, CountOthers
    <3>4. KnownPaid'
      BY <2>0, <3>1, <3>2 DEF KnownPaid, Busy, SubOf
    <3>5. work'[h] = w /\ \A g \in Handlers : g # h => work'[g] = work[g]
      BY <3>1
    <3>6. \A g \in Handlers : SubOf(g)' = SubOf(g) /\ UserOf(g)' = UserOf(g)
      BY <3>1, <3>5 DEF SubOf, UserOf
    <3>7. \A g \in Handlers : NoOtherActive(g)' <=> NoOtherActive(g)
      BY <3>2, <3>6 DEF NoOtherActive
    <3>8. \A g \in Handlers : Busy(g)' <=> Busy(g)
      BY <3>1, <3>5 DEF Busy
    <3> QED
      BY <3>1, <3>2, <3>3, <3>4, <3>5, <3>6, <3>7, <3>8 DEF AloneWithUser, PaidIsPro
  <2>8. ASSUME NEW h \in Handlers, CommitCheckout(h) PROVE PaidInv'
    <3>1. /\ Busy(h) /\ work' = [work EXCEPT ![h] = Idle]
          /\ work[h].status # "none" /\ work[h].event.seq = 0
      BY <2>8 DEF CommitCheckout, Busy, ReadRightly
    <3>2. /\ row'[SubOf(h)] \in {row[SubOf(h)], work[h].status}
          /\ \A s \in Subs : s # SubOf(h) => row'[s] = row[s]
      BY <2>0, <2>8, <3>1 DEF CommitCheckout
    <3>3. \A u \in Users : u # UserOf(h) => tier'[u] = tier[u]
      BY <2>0, <2>8, <3>1 DEF CommitCheckout
    <3>4. tier'[UserOf(h)] = IF Upgraded(h) THEN "pro" ELSE tier[UserOf(h)]
      BY <2>0, <2>8, <3>1 DEF CommitCheckout
    <3>5. KnownPaid'
      BY <2>0, <2>8, <3>1, <3>2 DEF CommitCheckout, KnownPaid, Busy, SubOf
    <3>6. PaidIsPro'
      <4> SUFFICES ASSUME ~overlapped, NEW s \in Subs, row'[s] # "none", ~lapsed[s]
                   PROVE  tier'[Buyer[s]] = "pro"
        BY <2>8 DEF CommitCheckout, PaidIsPro
      <4>1. CASE s = SubOf(h)
        <5>1. work[h].status = "active" /\ work[h].tier = tier[UserOf(h)] /\ Buyer[s] = UserOf(h)
          BY <3>1, <4>1 DEF KnownPaid, AloneWithUser, UserOf
        <5>2. tier[UserOf(h)] \in {"free", "pro"}
          BY <2>0, <3>1
        <5> QED
          BY <3>4, <5>1, <5>2 DEF Upgraded
      <4>2. CASE s # SubOf(h)
        BY <3>2, <3>3, <3>4, <4>2 DEF PaidIsPro
      <4> QED
        BY <4>1, <4>2
    <3>7. ~overlapped' => AloneWithUser'
      BY <2>0, <2>8, <3>1, <3>2, <3>3 DEF CommitCheckout, AloneWithUser, Busy, SubOf, UserOf, NoOtherActive
    <3> QED
      BY <3>5, <3>6, <3>7
  <2>9. ASSUME NEW h \in Handlers, RefuseInsert(h) \/ Fail(h) PROVE PaidInv'
    <3>1. /\ Busy(h) /\ work' = [work EXCEPT ![h] = Idle]
          /\ pending' = pending \cup {work[h].event}
          /\ UNCHANGED <<tier, row, stripe, lapsed, overlapped>>
      BY <2>9 DEF RefuseInsert, Fail, Busy
    <3>2. KnownPaid'
      BY <2>0, <3>1 DEF KnownPaid, Busy, SubOf
    <3> QED
      BY <2>0, <3>1, <3>2 DEF AloneWithUser, PaidIsPro, Busy, SubOf, UserOf, NoOtherActive
  <2>10. ASSUME NEW h \in Handlers, CommitUpdate(h) PROVE PaidInv'
    <3>1. /\ Busy(h) /\ work' = [work EXCEPT ![h] = Idle]
          /\ work[h].status # "none" /\ work[h].event.seq > 0
      BY <2>0, <2>10 DEF CommitUpdate, Busy, ReadRightly
    <3>2. /\ row'[SubOf(h)] \in {row[SubOf(h)], work[h].status}
          /\ row'[SubOf(h)] # "none" => row[SubOf(h)] # "none"
          /\ \A s \in Subs : s # SubOf(h) => row'[s] = row[s]
      BY <2>0, <2>10, <3>1 DEF CommitUpdate, RowWritten, ReadRightly
    <3>3. \A u \in Users : u # UserOf(h) => tier'[u] = tier[u]
      BY <2>0, <2>10, <3>1 DEF CommitUpdate
    <3>4. tier'[UserOf(h)] = IF work[h].last /\ work[h].tier = "pro" THEN "free" ELSE tier[UserOf(h)]
      BY <2>0, <2>10, <3>1 DEF CommitUpdate
    <3>5. KnownPaid'
      BY <2>0, <2>10, <3>1, <3>2 DEF CommitUpdate, KnownPaid, Busy, SubOf
    <3>6. PaidIsPro'
      <4> SUFFICES ASSUME ~overlapped, NEW s \in Subs, row'[s] # "none", ~lapsed[s]
                   PROVE  tier'[Buyer[s]] = "pro"
        BY <2>10 DEF CommitUpdate, PaidIsPro
      <4>1. row[s] = "active" /\ tier[Buyer[s]] = "pro"
        BY <3>2 DEF KnownPaid, PaidIsPro
      <4>2. CASE Buyer[s] = UserOf(h) /\ work[h].last
        <5>1. s = SubOf(h) /\ work[h].status # "active"
          BY <3>1, <4>1, <4>2 DEF AloneWithUser, NoOtherActive
        <5> QED
          BY <3>1, <5>1 DEF KnownPaid
      <4>3. CASE ~(Buyer[s] = UserOf(h) /\ work[h].last)
        BY <3>3, <3>4, <4>1, <4>3
      <4> QED
        BY <4>2, <4>3
    <3>7. ~overlapped' => AloneWithUser'
      BY <2>0, <2>10, <3>1, <3>2, <3>3 DEF CommitUpdate, AloneWithUser, Busy, SubOf, UserOf, NoOtherActive
    <3> QED
      BY <3>5, <3>6, <3>7
  <2>11. CASE UNCHANGED vars
    BY <2>11 DEF vars, KnownPaid, AloneWithUser, PaidIsPro, Busy, SubOf, UserOf, NoOtherActive
  <2> QED
    BY <2>1, <2>2, <2>3, <2>4, <2>5, <2>6, <2>7, <2>8, <2>9, <2>10, <2>11 DEF Next, HandlerStep
<1> QED
  BY <1>1, <1>2, TypeCorrect, ReadRightlyInvariant, PTL DEF Spec

(* Without overlap, a subscription on record that never lapsed means the   *)
(* paid tier.                                                              *)
THEOREM PaidUsersKeepPro == Spec => []PaidIsPro
<1>1. PaidInv => PaidIsPro
  BY DEF PaidInv
<1> QED
  BY <1>1, PaidInvariant, PTL

-----------------------------------------------------------------------------
(* A webhook that is waiting or being handled.                             *)
InFlight(e) == e \in pending \/ \E h \in Handlers : Busy(h) /\ work[h].event = e

(* Webhooks in order: those being handled are the oldest of their          *)
(* subscription, the newest carries the status at Stripe, and it waits     *)
(* while an older one is about.                                            *)
InSequence ==
  /\ \A s \in Subs : changes[s] = 0 => stripe[s] \in {"none", "active"}
  /\ \A s \in Subs : stripe[s] = "none" => changes[s] = 0
  /\ \A e \in Events : InFlight(e) =>
       /\ e.seq <= changes[e.sub]
       /\ e.seq = changes[e.sub] => e.status = stripe[e.sub]
       /\ e.seq < changes[e.sub] => \E f \in pending : f.sub = e.sub /\ f.seq = changes[e.sub]
       /\ \A h \in Handlers : Busy(h) /\ SubOf(h) = e.sub => work[h].event.seq <= e.seq

Read(h) == work[h].pc \in {"found", "ready"}

(* The row exists once the checkout is handled, a handler knows it, and    *)
(* has the newest status to write or finds it written.                     *)
RowFollows ==
  /\ \A s \in Subs : stripe[s] # "none" /\ row[s] = "none" =>
       \E e \in Events : InFlight(e) /\ e.sub = s /\ e.seq = 0
  /\ \A h \in Handlers : Busy(h) /\ work[h].event.seq > 0 => work[h].status = work[h].event.status
  /\ \A h \in Handlers : Busy(h) /\ work[h].event.seq = 0 /\ changes[SubOf(h)] = 0 =>
       work[h].status \in {"none", "active"}
  /\ \A h \in Handlers : Read(h) /\ work[h].event.seq > 0 => work[h].row # "none"
  /\ \A h \in Handlers :
       Read(h) /\ work[h].event.seq = changes[SubOf(h)] /\ work[h].row = work[h].status =>
         row[SubOf(h)] = work[h].status
  /\ \A s \in Subs : row[s] # stripe[s] =>
       \E e \in Events : InFlight(e) /\ e.sub = s /\ e.seq = changes[s]

MirrorInv == spent.disorder = 0 => InSequence /\ RowFollows

(* What kinds of values these are about.                                   *)
LEMMA Kinds ==
  ASSUME TypeOK
  PROVE  /\ work \in [Handlers -> Works] /\ pending \subseteq Events
         /\ row \in [Subs -> Statuses \cup {"none"}] /\ stripe \in [Subs -> Statuses \cup {"none"}]
         /\ changes \in [Subs -> Nat] /\ spent.disorder \in Nat
         /\ \A e \in Events : e.sub \in Subs /\ e.seq \in Nat /\ e.status \in Statuses
         /\ \A h \in Handlers : Busy(h) => work[h].event \in Events /\ SubOf(h) \in Subs
  BY BusyFields, BoundAssumption DEF TypeOK, Events

(* Receiving, reading, refusing and failing leave every webhook in flight; *)
(* a commit ends only the one it handles.                                  *)
LEMMA FlightKept ==
  ASSUME TypeOK, NEW h \in Handlers,
         \/ Receive(h) \/ Retrieve(h) \/ FindRow(h) \/ CountOthers(h) \/ RefuseInsert(h) \/ Fail(h)
  PROVE  \A e \in Events : InFlight(e)' <=> InFlight(e)
<1>1. CASE Receive(h)
  <2>1. PICK e \in pending : /\ work' = [work EXCEPT ![h] = Loaded(e)]
                             /\ pending' = pending \/ pending' = pending \ {e}
    BY <1>1 DEF Receive
  <2>2. work'[h] = Loaded(e) /\ \A g \in Handlers : g # h => work'[g] = work[g]
    BY <2>1 DEF TypeOK
  <2>3. Busy(h)' /\ work'[h].event = e /\ ~Busy(h)
    BY <1>1, <2>2, LoadedFields DEF Receive, Busy
  <2> QED
    BY <2>1, <2>2, <2>3 DEF InFlight, Busy
<1>2. CASE Retrieve(h) \/ FindRow(h) \/ CountOthers(h)
  <2>1. PICK w \in Works : /\ work' = [work EXCEPT ![h] = w] /\ Busy(h)
                          /\ w.event = work[h].event /\ w.pc # "idle"
    <3>1. CASE Retrieve(h)
      BY <3>1, RetrieveStep
    <3>2. CASE FindRow(h)
      BY <3>2, FindStep
    <3>3. CASE CountOthers(h)
      BY <3>3, CountStep
    <3> QED
      BY <1>2, <3>1, <3>2, <3>3
  <2>2. work'[h] = w /\ (\A g \in Handlers : g # h => work'[g] = work[g]) /\ pending' = pending
    BY <1>2, <2>1 DEF TypeOK, Retrieve, FindRow, CountOthers
  <2> QED
    BY <2>1, <2>2 DEF InFlight, Busy
<1>3. CASE RefuseInsert(h) \/ Fail(h)
  <2>1. /\ work' = [work EXCEPT ![h] = Idle] /\ Busy(h)
        /\ pending' = pending \cup {work[h].event}
    BY <1>3 DEF RefuseInsert, Fail, Busy
  <2>2. work'[h].pc = "idle" /\ \A g \in Handlers : g # h => work'[g] = work[g]
    BY <2>1, WorkFields DEF TypeOK
  <2> QED
    BY <2>1, <2>2 DEF InFlight, Busy
<1> QED
  BY <1>1, <1>2, <1>3

LEMMA FlightEnds ==
  ASSUME TypeOK, NEW h \in Handlers, CommitCheckout(h) \/ CommitUpdate(h)
  PROVE  \A e \in Events : /\ InFlight(e)' => InFlight(e)
                           /\ InFlight(e) /\ e # work[h].event => InFlight(e)'
<1>1. work' = [work EXCEPT ![h] = Idle] /\ pending' = pending
  BY DEF CommitCheckout, CommitUpdate
<1>2. work'[h].pc = "idle" /\ \A g \in Handlers : g # h => work'[g] = work[g]
  BY <1>1, WorkFields DEF TypeOK
<1> QED
  BY <1>1, <1>2 DEF InFlight, Busy

(* What becomes of the other handlers in a step of one.                    *)
LEMMA OthersKept ==
  ASSUME TypeOK, NEW h \in Handlers, HandlerStep(h) \/ Fail(h)
  PROVE  \A g \in Handlers : g # h => work'[g] = work[g]
  BY DEF TypeOK, HandlerStep, Fail, Receive, Retrieve, FindRow, CountOthers, CommitCheckout,
         RefuseInsert, CommitUpdate

(* A step that starts nothing new leaves the webhooks in order.            *)
LEMMA SequenceKept ==
  ASSUME TypeOK, InSequence, UNCHANGED <<stripe, changes>>, pending \subseteq pending',
         \A e \in Events : InFlight(e)' => InFlight(e),
         \A h \in Handlers : Busy(h)' => Busy(h) /\ work'[h].event = work[h].event
  PROVE  InSequence'
  BY DEF InSequence, SubOf

LEMMA SequenceStep ==
  ASSUME TypeOK, TypeOK', ReadRightly, InSequence, [Next]_vars, spent'.disorder = 0, spent.disorder = 0
  PROVE  InSequence'
<1> USE DEF account, shop, remote
<1>1. ASSUME NEW s \in Subs, OpenCheckout(s) \/ SaveCustomer(s) PROVE InSequence'
  BY <1>1, SequenceKept DEF OpenCheckout, SaveCustomer, InFlight, Busy
<1>2. ASSUME NEW s \in Subs, Pay(s) PROVE InSequence'
  <2> DEFINE n == [sub |-> s, seq |-> 0, status |-> "active"]
  <2>1. /\ stripe[s] = "none" /\ changes[s] = 0 /\ UNCHANGED <<changes, work>>
        /\ stripe' = [stripe EXCEPT ![s] = "active"] /\ pending' = pending \cup {n}
    BY <1>2 DEF Pay, InSequence
  <2>2. \A e \in Events : InFlight(e)' => InFlight(e) \/ e = n
    BY <2>1 DEF InFlight, Busy
  <2>3. \A e \in Events : InFlight(e) => e.sub # s
    BY <2>1 DEF InFlight, ReadRightly, SubOf
  <2>4. \A h \in Handlers : Busy(h)' => Busy(h) /\ SubOf(h)' = SubOf(h) /\ SubOf(h) # s
    BY <2>1 DEF Busy, SubOf, ReadRightly
  <2>5. n.sub = s /\ n.seq = 0 /\ n.status = "active"
    OBVIOUS
  <2>6. \A t \in Subs : t # s => stripe'[t] = stripe[t]
    BY <2>1
  <2>7. stripe'[s] = "active"
    BY <2>1, Kinds
  <2> HIDE DEF n
  <2> QED
    BY <2>1, <2>2, <2>3, <2>4, <2>5, <2>6, <2>7, Kinds DEF InSequence
<1>3. ASSUME NEW s \in Subs, Change(s) PROVE InSequence'
  <2>1. PICK st \in Statuses \ {stripe[s]} :
          /\ stripe' = [stripe EXCEPT ![s] = st]
          /\ pending' = pending \cup {[sub |-> s, seq |-> changes[s] + 1, status |-> st]}
    BY <1>3 DEF Change
  <2> DEFINE n == [sub |-> s, seq |-> changes[s] + 1, status |-> st]
  <2>2. /\ changes' = [changes EXCEPT ![s] = @ + 1] /\ work' = work
        /\ pending' = pending \cup {n} /\ n.sub = s /\ n.seq = changes[s] + 1 /\ n.status = st
    BY <1>3, <2>1 DEF Change
  <2> HIDE DEF n
  <2>3. \A e \in Events : InFlight(e)' => InFlight(e) \/ e = n
    BY <2>2 DEF InFlight, Busy
  <2>4. \A h \in Handlers : /\ Busy(h)' => Busy(h) /\ work'[h] = work[h]
                            /\ Busy(h) => InFlight(work[h].event)
    BY <2>2 DEF Busy, InFlight
  <2>5. changes'[s] = changes[s] + 1 /\ \A t \in Subs : t # s => changes'[t] = changes[t]
    BY <2>2, Kinds
  <2>6. stripe'[s] = st /\ \A t \in Subs : t # s => stripe'[t] = stripe[t]
    BY <2>1, Kinds
  <2>7. st # "none"
    BY DEF Statuses
  <2>8. \A h \in Handlers : Busy(h) => work[h].event \in Events /\ work[h].event.seq <= changes[SubOf(h)]
    BY <2>4, Kinds DEF InSequence, SubOf
  <2>9. ASSUME NEW t \in Subs
        PROVE  /\ changes'[t] = 0 => stripe'[t] \in {"none", "active"}
               /\ stripe'[t] = "none" => changes'[t] = 0
    BY <2>5, <2>6, <2>7, Kinds DEF InSequence
  <2>10. ASSUME NEW e \in Events, InFlight(e)'
         PROVE  /\ e.seq <= changes'[e.sub]
                /\ e.seq = changes'[e.sub] => e.status = stripe'[e.sub]
                /\ e.seq < changes'[e.sub] => \E f \in pending' : f.sub = e.sub /\ f.seq = changes'[e.sub]
    BY <2>2, <2>3, <2>5, <2>6, <2>10, Kinds DEF InSequence
  <2>11. ASSUME NEW e \in Events, InFlight(e)', NEW h \in Handlers, Busy(h)', SubOf(h)' = e.sub
         PROVE  work'[h].event.seq <= e.seq
    <3>1. Busy(h) /\ work'[h] = work[h] /\ SubOf(h) = e.sub
      BY <2>4, <2>11 DEF SubOf
    <3> QED
      BY <2>2, <2>3, <2>8, <2>11, <3>1, Kinds DEF InSequence
  <2> QED
    BY <2>9, <2>10, <2>11 DEF InSequence
<1>4. ASSUME NEW h \in Handlers, Receive(h) PROVE InSequence'
  <2>1. PICK e \in pending, again \in {0, 1}, late \in {0, 1} :
          /\ late = 1 <=> ~InOrder(e)
          /\ spent' = [spent EXCEPT !.repeat = @ + again, !.disorder = @ + late]
          /\ pending' = IF again = 1 THEN pending ELSE pending \ {e}
          /\ work' = [work EXCEPT ![h] = Loaded(e)]
    BY <1>4 DEF Receive
  <2>2. spent'.disorder = spent.disorder + late
    BY <2>1 DEF TypeOK
  <2>3. InOrder(e)
    BY <2>1, <2>2
  <2>4. /\ work'[h] = Loaded(e) /\ Loaded(e).event = e /\ UNCHANGED <<stripe, changes>>
        /\ \A g \in Handlers : g # h => work'[g] = work[g]
    BY <1>4, <2>1, LoadedFields, Kinds DEF Receive
  <2>5. \A f \in Events : InFlight(f)' <=> InFlight(f)
    BY <1>4, FlightKept
  <2>6. \A f \in Events : InFlight(f) /\ f.sub = e.sub => e.seq <= f.seq
    BY <2>3, Kinds DEF InOrder, InFlight
  <2>7. InFlight(e) /\ e \in Events
    BY Kinds DEF InFlight
  <2>8. ASSUME NEW d \in Events, InFlight(d), d.seq < changes[d.sub]
        PROVE  \E f \in pending' : f.sub = d.sub /\ f.seq = changes[d.sub]
    <3>1. PICK f \in pending : f.sub = d.sub /\ f.seq = changes[d.sub]
      BY <2>8 DEF InSequence
    <3>2. f # e
      BY <2>6, <2>8, <3>1, Kinds
    <3> QED
      BY <2>1, <3>1, <3>2
  <2>9. ASSUME NEW d \in Events, InFlight(d), NEW g \in Handlers, Busy(g)', SubOf(g)' = d.sub
        PROVE  work'[g].event.seq <= d.seq
    <3>1. CASE g = h
      BY <2>4, <2>6, <2>9, <3>1 DEF SubOf
    <3>2. CASE g # h
      BY <2>4, <2>9, <3>2 DEF SubOf, Busy, InSequence
    <3> QED
      BY <3>1, <3>2
  <2> QED
    BY <2>4, <2>5, <2>8, <2>9 DEF InSequence
<1>5. ASSUME NEW h \in Handlers,
             Retrieve(h) \/ FindRow(h) \/ CountOthers(h) \/ RefuseInsert(h) \/ Fail(h)
               \/ CommitCheckout(h) \/ CommitUpdate(h)
      PROVE  InSequence'
  <2>1. \A e \in Events : InFlight(e)' => InFlight(e)
    BY <1>5, FlightKept, FlightEnds
  <2>2. UNCHANGED <<stripe, changes>> /\ pending \subseteq pending'
    BY <1>5 DEF Retrieve, FindRow, CountOthers, RefuseInsert, Fail, CommitCheckout, CommitUpdate
  <2>3. \A g \in Handlers : g # h => work'[g] = work[g]
    BY <1>5, OthersKept DEF HandlerStep
  <2>4. Busy(h)' => Busy(h) /\ work'[h].event = work[h].event
    <3>1. CASE Retrieve(h)
      BY <3>1, RetrieveStep, Kinds
    <3>2. CASE FindRow(h)
      BY <3>2, FindStep, Kinds
    <3>3. CASE CountOthers(h)
      BY <3>3, CountStep, Kinds
    <3>4. CASE RefuseInsert(h) \/ Fail(h) \/ CommitCheckout(h) \/ CommitUpdate(h)
      BY <3>4, WorkFields, Kinds DEF RefuseInsert, Fail, CommitCheckout, CommitUpdate, Busy
    <3> QED
      BY <1>5, <3>1, <3>2, <3>3, <3>4
  <2>5. \A g \in Handlers : Busy(g)' => Busy(g) /\ work'[g].event = work[g].event
    BY <2>3, <2>4 DEF Busy
  <2> QED
    BY <2>1, <2>2, <2>5, SequenceKept
<1>6. CASE UNCHANGED vars
  BY <1>6, SequenceKept DEF vars, InFlight, Busy
<1> QED
  BY <1>1, <1>2, <1>3, <1>4, <1>5, <1>6 DEF Next, HandlerStep

(* Where nothing is written and nothing is handled to its end, the row     *)
(* follows as before; what a handler has just read must be right.          *)
LEMMA FollowKept ==
  ASSUME TypeOK, TypeOK', RowFollows, UNCHANGED <<row, stripe, changes>>,
         \A e \in Events : InFlight(e) => InFlight(e)',
         NEW h \in Handlers, \A g \in Handlers : g # h => work'[g] = work[g],
         Busy(h)' =>
           /\ work'[h].event.seq > 0 => work'[h].status = work'[h].event.status
           /\ work'[h].event.seq = 0 /\ changes[SubOf(h)'] = 0 => work'[h].status \in {"none", "active"}
           /\ Read(h)' /\ work'[h].event.seq > 0 => work'[h].row # "none"
           /\ Read(h)' /\ work'[h].event.seq = changes[SubOf(h)'] /\ work'[h].row = work'[h].status =>
                row[SubOf(h)'] = work'[h].status
  PROVE  RowFollows'
<1>1. \A g \in Handlers : Read(g)' => Busy(g)'
  BY DEF Read, Busy
<1>2. \A g \in Handlers : g # h =>
        (Busy(g)' <=> Busy(g)) /\ (Read(g)' <=> Read(g)) /\ SubOf(g)' = SubOf(g) /\ work'[g] = work[g]
  BY DEF Busy, Read, SubOf
<1> HIDE DEF Busy, Read, SubOf
<1> QED
  BY <1>1, <1>2 DEF RowFollows

LEMMA FollowStep ==
  ASSUME TypeOK, TypeOK', ReadRightly, InSequence, RowFollows, [Next]_vars
  PROVE  RowFollows'
<1> USE DEF account, shop, remote
<1>1. ASSUME UNCHANGED <<row, stripe, changes, pending, work>> PROVE RowFollows'
  BY <1>1 DEF RowFollows, InFlight, Busy, Read, SubOf
<1>2. ASSUME NEW s \in Subs, OpenCheckout(s) \/ SaveCustomer(s) PROVE RowFollows'
  BY <1>1, <1>2 DEF OpenCheckout, SaveCustomer
<1>3. ASSUME NEW s \in Subs, Pay(s) PROVE RowFollows'
  <2> DEFINE n == [sub |-> s, seq |-> 0, status |-> "active"]
  <2>1. /\ stripe[s] = "none" /\ changes[s] = 0 /\ UNCHANGED <<row, changes, work>>
        /\ stripe' = [stripe EXCEPT ![s] = "active"] /\ pending' = pending \cup {n}
    BY <1>3 DEF Pay, InSequence
  <2>2. n \in Events /\ n.sub = s /\ n.seq = 0
    BY BoundAssumption DEF Events, Statuses
  <2> HIDE DEF n
  <2>3. InFlight(n)' /\ \A e \in Events : InFlight(e) => InFlight(e)'
    BY <2>1 DEF InFlight, Busy
  <2>4. \A t \in Subs : t # s => stripe'[t] = stripe[t]
    BY <2>1
  <2>5. \A g \in Handlers : (Busy(g)' <=> Busy(g)) /\ (Read(g)' <=> Read(g)) /\ SubOf(g)' = SubOf(g)
    BY <2>1 DEF Busy, Read, SubOf
  <2> QED
    BY <2>1, <2>2, <2>3, <2>4, <2>5 DEF RowFollows
<1>4. ASSUME NEW s \in Subs, Change(s) PROVE RowFollows'
  <2>1. PICK st \in Statuses \ {stripe[s]} :
          /\ stripe' = [stripe EXCEPT ![s] = st]
          /\ pending' = pending \cup {[sub |-> s, seq |-> changes[s] + 1, status |-> st]}
    BY <1>4 DEF Change
  <2>2. changes' = [changes EXCEPT ![s] = @ + 1] /\ UNCHANGED <<row, work>> /\ stripe[s] # "none"
    BY <1>4 DEF Change
  <2>3. PICK n \in Events : pending' = pending \cup {n} /\ n.sub = s /\ n.seq = changes[s] + 1
    <3> DEFINE m == [sub |-> s, seq |-> changes[s] + 1, status |-> st]
    <3>1. pending' = pending \cup {m} /\ m.sub = s /\ m.seq = changes[s] + 1
      BY <2>1
    <3>2. m \in Events
      BY <3>1 DEF TypeOK
    <3> HIDE DEF m
    <3> QED
      BY <3>1, <3>2
  <2>4. InFlight(n)' /\ \A e \in Events : InFlight(e) => InFlight(e)'
    BY <2>2, <2>3 DEF InFlight, Busy
  <2>5. /\ changes'[s] = changes[s] + 1
        /\ \A t \in Subs : t # s => changes'[t] = changes[t] /\ stripe'[t] = stripe[t]
    BY <2>1, <2>2, Kinds
  <2>6. \A g \in Handlers : /\ (Busy(g)' <=> Busy(g)) /\ (Read(g)' <=> Read(g)) /\ SubOf(g)' = SubOf(g)
                            /\ Read(g) => Busy(g)
    BY <2>2 DEF Busy, Read, SubOf
  <2>7. \A g \in Handlers : Busy(g) => SubOf(g) \in Subs /\ work[g].event.seq <= changes[SubOf(g)]
    BY Kinds DEF InSequence, InFlight, SubOf
  <2>8. \A g \in Handlers : Busy(g) /\ SubOf(g) = s => work[g].event.seq # changes'[s] /\ changes'[s] # 0
    BY <2>5, <2>7, Kinds, BusyFields
  <2>9. ASSUME NEW t \in Subs, stripe'[t] # "none", row'[t] = "none"
        PROVE  \E e \in Events : InFlight(e)' /\ e.sub = t /\ e.seq = 0
    BY <2>2, <2>4, <2>5, <2>9 DEF RowFollows
  <2>10. ASSUME NEW t \in Subs, row'[t] # stripe'[t]
         PROVE  \E e \in Events : InFlight(e)' /\ e.sub = t /\ e.seq = changes'[t]
    BY <2>2, <2>3, <2>4, <2>5, <2>10 DEF RowFollows
  <2>11. ASSUME NEW g \in Handlers, Read(g)', work'[g].event.seq = changes'[SubOf(g)'],
                work'[g].row = work'[g].status
         PROVE  row'[SubOf(g)'] = work'[g].status
    BY <2>2, <2>5, <2>6, <2>7, <2>8, <2>11 DEF RowFollows
  <2>12. ASSUME NEW g \in Handlers, Busy(g)'
         PROVE  /\ work'[g].event.seq > 0 => work'[g].status = work'[g].event.status
                /\ work'[g].event.seq = 0 /\ changes'[SubOf(g)'] = 0 => work'[g].status \in {"none", "active"}
                /\ Read(g)' /\ work'[g].event.seq > 0 => work'[g].row # "none"
    BY <2>2, <2>5, <2>6, <2>7, <2>8, <2>12 DEF RowFollows
  <2> QED
    BY <2>6, <2>9, <2>10, <2>11, <2>12, <2>2 DEF RowFollows
<1>5. ASSUME NEW h \in Handlers, Receive(h) PROVE RowFollows'
  <2>1. PICK e \in pending : work' = [work EXCEPT ![h] = Loaded(e)]
    BY <1>5 DEF Receive
  <2>2. /\ work'[h] = Loaded(e) /\ Loaded(e).event = e /\ Loaded(e).pc = "loaded"
        /\ Loaded(e).status = IF e.seq = 0 THEN "none" ELSE e.status
    BY <2>1, LoadedFields, Kinds
  <2>3. UNCHANGED <<row, stripe, changes>> /\ ~Read(h)'
    BY <1>5, <2>2 DEF Receive, Read
  <2> QED
    BY <1>5, <2>2, <2>3, FollowKept, FlightKept, OthersKept DEF HandlerStep
<1>6. ASSUME NEW h \in Handlers, Retrieve(h) PROVE RowFollows'
  <2>1. PICK w \in Works : /\ work' = [work EXCEPT ![h] = w] /\ Busy(h)
                          /\ w.event = work[h].event /\ w.pc = "retrieved" /\ w.status = stripe[SubOf(h)]
    BY <1>6, RetrieveStep
  <2>2. work'[h] = w /\ work[h].event.seq = 0 /\ SubOf(h)' = SubOf(h) /\ SubOf(h) \in Subs
    BY <1>6, <2>1, Kinds DEF Retrieve, SubOf
  <2>3. UNCHANGED <<row, stripe, changes>> /\ ~Read(h)'
    BY <1>6, <2>1, <2>2 DEF Retrieve, Read
  <2>4. changes[SubOf(h)] = 0 => w.status \in {"none", "active"}
    BY <2>1, <2>2 DEF InSequence
  <2> QED
    BY <1>6, <2>1, <2>2, <2>3, <2>4, FollowKept, FlightKept, OthersKept DEF HandlerStep
<1>7. ASSUME NEW h \in Handlers, FindRow(h) PROVE RowFollows'
  <2>1. PICK w \in Works : /\ work' = [work EXCEPT ![h] = w] /\ Busy(h)
                          /\ w.event = work[h].event /\ w.row = row[SubOf(h)] /\ w.status = work[h].status
    BY <1>7, FindStep
  <2>2. work'[h] = w /\ SubOf(h)' = SubOf(h) /\ SubOf(h) \in Subs
    BY <2>1, Kinds DEF SubOf
  <2>3. UNCHANGED <<row, stripe, changes>>
    BY <1>7 DEF FindRow
  <2>4. ASSUME work[h].event.seq > 0, row[SubOf(h)] = "none" PROVE FALSE
    <3>1. stripe[SubOf(h)] # "none"
      BY <2>1 DEF ReadRightly
    <3>2. PICK e \in Events : InFlight(e) /\ e.sub = SubOf(h) /\ e.seq = 0
      BY <2>2, <2>4, <3>1 DEF RowFollows
    <3>3. work[h].event.seq <= e.seq
      BY <2>1, <3>2 DEF InSequence
    <3> QED
      BY <2>1, <2>4, <3>2, <3>3, BusyFields
  <2>5. /\ w.event.seq > 0 => w.status = w.event.status
        /\ w.event.seq = 0 /\ changes[SubOf(h)] = 0 => w.status \in {"none", "active"}
    BY <2>1 DEF RowFollows
  <2> QED
    BY <1>7, <2>1, <2>2, <2>3, <2>4, <2>5, FollowKept, FlightKept, OthersKept DEF HandlerStep
<1>8. ASSUME NEW h \in Handlers, CountOthers(h) PROVE RowFollows'
  <2>1. PICK w \in Works : /\ work' = [work EXCEPT ![h] = w] /\ Busy(h)
                          /\ w.event = work[h].event /\ w.row = work[h].row /\ w.status = work[h].status
    BY <1>8, CountStep
  <2>2. work'[h] = w /\ SubOf(h)' = SubOf(h)
    BY <2>1, Kinds DEF SubOf
  <2>3. UNCHANGED <<row, stripe, changes>> /\ Read(h)
    BY <1>8 DEF CountOthers, Read
  <2> QED
    BY <1>8, <2>1, <2>2, <2>3, FollowKept, FlightKept, OthersKept DEF HandlerStep, RowFollows
<1>9. ASSUME NEW h \in Handlers, RefuseInsert(h) \/ Fail(h) PROVE RowFollows'
  <2>1. UNCHANGED <<row, stripe, changes>> /\ work'[h] = Idle
    BY <1>9, Kinds DEF RefuseInsert, Fail
  <2>2. ~Busy(h)'
    BY <2>1, WorkFields DEF Busy
  <2> QED
    BY <1>9, <2>1, <2>2, FollowKept, FlightKept, OthersKept DEF HandlerStep
<1>10. ASSUME NEW h \in Handlers, CommitCheckout(h) \/ CommitUpdate(h) PROVE RowFollows'
  <2> DEFINE s == SubOf(h)
             n == work[h].event.seq
  <2>1. /\ Busy(h) /\ Read(h) /\ UNCHANGED <<stripe, changes, pending>>
        /\ work'[h] = Idle /\ \A g \in Handlers : g # h => work'[g] = work[g]
    BY <1>10, OthersKept, Kinds DEF CommitCheckout, CommitUpdate, Busy, Read, HandlerStep
  <2>2. /\ s \in Subs /\ n \in Nat /\ work[h].event \in Events /\ InFlight(work[h].event)
        /\ work[h].event.sub = s /\ stripe[s] # "none"
    BY <2>1, BusyFields DEF InFlight, ReadRightly, SubOf
  <2>3. work[h].status # "none" /\ (work[h].row # "none" => row[s] # "none") /\ (n > 0 => work[h].row # "none")
    BY <1>10, <2>1 DEF ReadRightly, RowFollows, CommitCheckout, CommitUpdate
  <2>4. /\ work[h].row = work[h].status => row'[s] = row[s]
        /\ work[h].row # work[h].status => row'[s] = work[h].status
        /\ \A t \in Subs : t # s => row'[t] = row[t]
    <3>1. CASE CommitCheckout(h)
      BY <2>2, <3>1, Kinds DEF CommitCheckout
    <3>2. CASE CommitUpdate(h)
      BY <2>2, <2>3, <3>2, Kinds DEF CommitUpdate, RowWritten
    <3> QED
      BY <1>10, <3>1, <3>2
  <2>5. row'[s] # "none"
    BY <2>3, <2>4
  <2>6. n = changes[s] => work[h].status = stripe[s]
    <3>1. CASE n = 0
      BY <2>1, <2>2, <2>3, <3>1 DEF RowFollows, InSequence
    <3>2. CASE n > 0
      BY <2>1, <2>2, <3>2 DEF RowFollows, InSequence
    <3> QED
      BY <2>2, <3>1, <3>2
  <2>7. n = changes[s] => row'[s] = stripe[s]
    BY <2>1, <2>4, <2>6 DEF RowFollows
  <2>8. \A e \in Events : e.sub # s \/ e.seq # n => (InFlight(e) => InFlight(e)')
    BY <1>10, <2>2, FlightEnds
  <2>9. n < changes[s] => \E e \in Events : InFlight(e)' /\ e.sub = s /\ e.seq = changes[s]
    BY <2>1, <2>2, Kinds DEF InSequence, InFlight
  <2>10. n <= changes[s]
    BY <2>2 DEF InSequence
  <2>11. ASSUME NEW t \in Subs, stripe'[t] # "none", row'[t] = "none"
         PROVE  \E e \in Events : InFlight(e)' /\ e.sub = t /\ e.seq = 0
    BY <2>1, <2>4, <2>5, <2>8, <2>11 DEF RowFollows
  <2>12. ASSUME NEW t \in Subs, row'[t] # stripe'[t]
         PROVE  \E e \in Events : InFlight(e)' /\ e.sub = t /\ e.seq = changes'[t]
    <3>1. CASE t = s
      BY <2>1, <2>2, <2>7, <2>9, <2>10, <2>12, <3>1, Kinds
    <3>2. CASE t # s
      BY <2>1, <2>4, <2>8, <2>12, <3>2 DEF RowFollows
    <3> QED
      BY <3>1, <3>2
  <2>13. \A g \in Handlers : (Busy(g)' \/ Read(g)') =>
           g # h /\ Busy(g) /\ (Read(g)' => Read(g)) /\ SubOf(g)' = SubOf(g) /\ SubOf(g) \in Subs
    BY <2>1, WorkFields, Kinds DEF Busy, Read, SubOf
  <2>14. ASSUME NEW g \in Handlers, Read(g)', work'[g].event.seq = changes'[SubOf(g)'],
                work'[g].row = work'[g].status
         PROVE  row'[SubOf(g)'] = work'[g].status
    <3>1. /\ Read(g) /\ Busy(g) /\ g # h /\ SubOf(g)' = SubOf(g) /\ work'[g] = work[g]
          /\ work[g].event.seq = changes[SubOf(g)] /\ row[SubOf(g)] = work[g].status
      BY <2>1, <2>13, <2>14 DEF RowFollows
    <3>2. CASE SubOf(g) # s
      BY <2>4, <2>13, <2>14, <3>1, <3>2
    <3>3. CASE SubOf(g) = s
      <4>1. InFlight(work[g].event) /\ work[g].event \in Events /\ work[g].event.sub = s
        BY <3>1, <3>3, BusyFields DEF InFlight, SubOf
      <4>2. n = work[g].event.seq
        <5>1. n <= work[g].event.seq
          BY <2>1, <4>1 DEF InSequence
        <5>2. work[g].event.seq <= n
          BY <2>2, <3>1, <3>3 DEF InSequence
        <5> QED
          BY <2>2, <5>1, <5>2, <3>1, BusyFields
      <4>3. row'[s] = stripe[s]
        BY <2>7, <3>1, <3>3, <4>2
      <4>4. work[g].status = stripe[s]
        <5>1. CASE n = 0
          BY <2>2, <3>1, <3>3, <4>2, <5>1 DEF RowFollows, InSequence, ReadRightly, Read
        <5>2. CASE n > 0
          BY <3>1, <3>3, <4>1, <4>2, <5>2 DEF RowFollows, InSequence
        <5> QED
          BY <2>2, <5>1, <5>2
      <4> QED
        BY <3>1, <3>3, <4>3, <4>4
    <3> QED
      BY <3>2, <3>3
  <2>15. ASSUME NEW g \in Handlers, Busy(g)'
         PROVE  /\ work'[g].event.seq > 0 => work'[g].status = work'[g].event.status
                /\ work'[g].event.seq = 0 /\ changes'[SubOf(g)'] = 0 => work'[g].status \in {"none", "active"}
                /\ Read(g)' /\ work'[g].event.seq > 0 => work'[g].row # "none"
    BY <2>1, <2>13, <2>15 DEF RowFollows
  <2>16. \A g \in Handlers : Read(g)' => Busy(g)'
    BY DEF Read, Busy
  <2> QED
    BY <2>11, <2>12, <2>14, <2>15, <2>16 DEF RowFollows
<1>11. CASE UNCHANGED vars
  BY <1>1, <1>11 DEF vars
<1> QED
  BY <1>2, <1>3, <1>4, <1>5, <1>6, <1>7, <1>8, <1>9, <1>10, <1>11 DEF Next, HandlerStep

(* Disorder is never undone.                                               *)
LEMMA NoDisorderBefore ==
  ASSUME TypeOK, [Next]_vars, spent'.disorder = 0
  PROVE  spent.disorder = 0
<1>1. CASE UNCHANGED spent
  BY <1>1
<1>2. ASSUME NEW h \in Handlers, Receive(h) PROVE spent.disorder = 0
  <2>1. PICK again \in {0, 1}, late \in {0, 1} :
          spent' = [spent EXCEPT !.repeat = @ + again, !.disorder = @ + late]
    BY <1>2 DEF Receive
  <2>2. spent'.disorder = spent.disorder + late
    BY <2>1 DEF TypeOK
  <2> QED
    BY <2>2, Kinds
<1>3. ASSUME NEW h \in Handlers, Fail(h) PROVE spent.disorder = 0
  BY <1>3 DEF Fail, TypeOK
<1> QED
  BY <1>1, <1>2, <1>3 DEF Next, HandlerStep, vars, OpenCheckout, SaveCustomer, Pay, Change, Retrieve, FindRow,
         CountOthers, CommitCheckout, RefuseInsert, CommitUpdate

LEMMA MirrorInvariant == Spec => []MirrorInv
<1>1. Init => MirrorInv
  BY WorkFields DEF Init, MirrorInv, InSequence, RowFollows, InFlight, Busy, Read
<1>2. TypeOK /\ TypeOK' /\ ReadRightly /\ MirrorInv /\ [Next]_vars => MirrorInv'
  BY NoDisorderBefore, SequenceStep, FollowStep DEF MirrorInv
<1> QED
  BY <1>1, <1>2, TypeCorrect, ReadRightlyInvariant, PTL DEF Spec

(* Once a user's webhooks are handled the table mirrors Stripe, whatever   *)
(* was repeated, failed or overlapped, as long as none overtook an older   *)
(* one: the newest webhook is never answered before it is on record.       *)
THEOREM RecordsMirrorStripe == Spec => []RecordMirrorsStripe
<1>1. TypeOK /\ MirrorInv => RecordMirrorsStripe
  <2> SUFFICES ASSUME TypeOK, MirrorInv, spent.disorder = 0,
                      NEW s \in Subs, Settled(Buyer[s]), row[s] # stripe[s]
               PROVE  FALSE
    BY DEF RecordMirrorsStripe
  <2>1. PICK e \in Events : InFlight(e) /\ e.sub = s
    BY DEF MirrorInv, RowFollows
  <2> QED
    BY <2>1 DEF InFlight, Settled, UserOf, SubOf
<1> QED
  BY <1>1, MirrorInvariant, TypeCorrect, PTL

-----------------------------------------------------------------------------
(* Checkouts.  The customer of a checkout is new until it is saved, so a   *)
(* user who saves a second one never has one customer again; only what was *)
(* paid for gives a tier; and a handler knows the user of a subscription   *)
(* by its customer, if the user has only one.                              *)
CheckoutInv ==
  /\ \A s \in Subs : page[s] # "none" <=> payer[s] # NoCustomer
  /\ \A s, t \in Subs : page[t] = "saving" /\ payer[s] = payer[t] => s = t
  /\ \A u \in Users : customer[u] # NoCustomer =>
       \E s \in Subs : Buyer[s] = u /\ page[s] = "open" /\ payer[s] = customer[u]
  /\ \A s \in Subs : stripe[s] # "none" => page[s] = "open"
  /\ \A u \in Users : tier[u] = "pro" => \E s \in Subs : Buyer[s] = u /\ stripe[s] # "none"
  /\ \A h \in Handlers : Busy(h) /\ work[h].event.seq > 0 /\ OneCustomer(UserOf(h)) => work[h].known

(* Once a checkout is open, a user who has several customers keeps them.   *)
LEMMA OneCustomerBefore ==
  ASSUME TypeOK, CheckoutInv, [Next]_vars, NEW s \in Subs, page[s] = "open", OneCustomer(Buyer[s])'
  PROVE  OneCustomer(Buyer[s])
<1> USE BuyerAssumption, CustomerAssumption DEF account, shop, remote
<1>1. ASSUME NEW t \in Subs, OpenCheckout(t) PROVE OneCustomer(Buyer[s])
  BY <1>1 DEF OpenCheckout, OneCustomer, CheckoutInv, TypeOK
<1>2. ASSUME NEW t \in Subs, SaveCustomer(t) PROVE OneCustomer(Buyer[s])
  <2>1. CASE Buyer[t] = Buyer[s]
    <3>1. customer'[Buyer[s]] = payer[t] /\ payer' = payer
      BY <1>2, <2>1 DEF SaveCustomer, TypeOK
    <3>2. payer[s] # NoCustomer /\ s # t
      BY <1>2 DEF SaveCustomer, CheckoutInv
    <3> QED
      BY <1>2, <3>1, <3>2 DEF SaveCustomer, OneCustomer, CheckoutInv
  <2>2. CASE Buyer[t] # Buyer[s]
    BY <1>2, <2>2 DEF SaveCustomer, OneCustomer, TypeOK
  <2> QED
    BY <2>1, <2>2
<1>3. CASE UNCHANGED <<customer, payer>>
  BY <1>3 DEF OneCustomer
<1> QED
  BY <1>1, <1>2, <1>3 DEF Next, HandlerStep, vars, Pay, Change, Receive, Retrieve, FindRow,
         CountOthers, CommitCheckout, RefuseInsert, CommitUpdate, Fail

LEMMA CheckoutInvariant == Spec => []CheckoutInv
<1> USE BuyerAssumption, CustomerAssumption DEF account, shop, remote
<1>1. Init => CheckoutInv
  BY WorkFields DEF Init, CheckoutInv, Busy
<1>2. TypeOK /\ TypeOK' /\ ReadRightly /\ CheckoutInv /\ [Next]_vars => CheckoutInv'
  <2> SUFFICES ASSUME TypeOK, TypeOK', ReadRightly, CheckoutInv, [Next]_vars PROVE CheckoutInv'
    OBVIOUS
  <2> DEFINE Knows(h) == Busy(h) /\ work[h].event.seq > 0 /\ OneCustomer(UserOf(h)) => work[h].known
             Shop == /\ \A s \in Subs : page[s] # "none" <=> payer[s] # NoCustomer
                     /\ \A s, t \in Subs : page[t] = "saving" /\ payer[s] = payer[t] => s = t
                     /\ \A u \in Users : customer[u] # NoCustomer =>
                          \E s \in Subs : Buyer[s] = u /\ page[s] = "open" /\ payer[s] = customer[u]
             Paid == /\ \A s \in Subs : stripe[s] # "none" => page[s] = "open"
                     /\ \A u \in Users : tier[u] = "pro" => \E s \in Subs : Buyer[s] = u /\ stripe[s] # "none"
  <2>0. Shop /\ Paid
    BY DEF CheckoutInv
  <2>1. \A h \in Handlers : Busy(h) => SubOf(h) \in Subs /\ stripe[SubOf(h)] # "none" /\ page[SubOf(h)] = "open"
    BY BusyFields DEF ReadRightly, CheckoutInv
  <2>2. ASSUME NEW h \in Handlers,
               Busy(h)' => Busy(h) /\ work'[h].event = work[h].event /\ work'[h].known = work[h].known
        PROVE  Knows(h)'
    <3> SUFFICES ASSUME Busy(h)', work'[h].event.seq > 0, OneCustomer(UserOf(h))'
                 PROVE  work'[h].known
      OBVIOUS
    <3>1. UserOf(h)' = Buyer[SubOf(h)] /\ UserOf(h) = Buyer[SubOf(h)]
      BY <2>2 DEF UserOf, SubOf
    <3>2. OneCustomer(Buyer[SubOf(h)])'
      BY <2>2, <3>1 DEF OneCustomer, SubOf
    <3>3. OneCustomer(UserOf(h))
      BY <2>1, <2>2, <3>1, <3>2, OneCustomerBefore
    <3> QED
      BY <2>2, <3>3 DEF CheckoutInv
  <2>3. ASSUME UNCHANGED work PROVE \A h \in Handlers : Knows(h)'
    BY <2>2, <2>3 DEF Busy
  <2>4. ASSUME Shop', Paid', \A h \in Handlers : Knows(h)' PROVE CheckoutInv'
    BY <2>4 DEF CheckoutInv
  <2>5. ASSUME UNCHANGED <<page, payer, customer>> PROVE Shop'
    BY <2>0, <2>5
  <2>6. ASSUME UNCHANGED <<page, tier, stripe>> PROVE Paid'
    BY <2>0, <2>6
  <2> HIDE DEF Knows
  <2>7. ASSUME NEW s \in Subs, OpenCheckout(s) PROVE CheckoutInv'
    <3>1. /\ page[s] = "none" /\ payer[s] = NoCustomer /\ UNCHANGED <<customer, tier, stripe, work>>
          /\ \A t \in Subs : t # s => payer'[t] = payer[t] /\ page'[t] = page[t]
      BY <2>0, <2>7 DEF OpenCheckout, TypeOK
    <3>2. \/ payer'[s] = customer[Buyer[s]] /\ customer[Buyer[s]] # NoCustomer /\ page'[s] = "open"
          \/ payer'[s] \in Customers /\ (\A t \in Subs : payer[t] # payer'[s]) /\ page'[s] = "saving"
      BY <2>7 DEF OpenCheckout, TypeOK
    <3>3. Shop'
      <4>1. \A t \in Subs : page'[t] # "none" <=> payer'[t] # NoCustomer
        BY <2>0, <3>1, <3>2
      <4>2. ASSUME NEW t \in Subs, page'[t] = "saving", payer'[s] = payer'[t], t # s PROVE FALSE
        <5>1. page[t] = "saving" /\ payer[t] = payer'[s]
          BY <3>1, <4>2
        <5>2. payer[t] = customer[Buyer[s]] /\ customer[Buyer[s]] # NoCustomer /\ Buyer[s] \in Users
          BY <3>2, <5>1
        <5>3. PICK o \in Subs : page[o] = "open" /\ payer[o] = customer[Buyer[s]]
          BY <2>0, <5>2
        <5> QED
          BY <2>0, <5>1, <5>2, <5>3
      <4>3. ASSUME NEW t \in Subs, page'[s] = "saving", payer'[t] = payer'[s], t # s PROVE FALSE
        BY <3>1, <3>2, <4>3
      <4>4. \A a, t \in Subs : page'[t] = "saving" /\ payer'[a] = payer'[t] => a = t
        BY <2>0, <3>1, <4>2, <4>3
      <4>5. \A u \in Users : customer'[u] # NoCustomer =>
              \E t \in Subs : Buyer[t] = u /\ page'[t] = "open" /\ payer'[t] = customer'[u]
        BY <2>0, <3>1
      <4> QED
        BY <4>1, <4>4, <4>5
    <3>4. Paid'
      BY <2>0, <3>1
    <3> QED
      BY <2>3, <2>4, <3>1, <3>3, <3>4
  <2>8. ASSUME NEW s \in Subs, SaveCustomer(s) PROVE CheckoutInv'
    <3>1. /\ page[s] = "saving" /\ customer' = [customer EXCEPT ![Buyer[s]] = payer[s]]
          /\ page' = [page EXCEPT ![s] = "open"] /\ UNCHANGED <<tier, stripe, payer, work>>
      BY <2>8 DEF SaveCustomer
    <3>2. Shop'
      BY <2>0, <3>1 DEF TypeOK
    <3>3. Paid'
      BY <2>0, <3>1 DEF TypeOK
    <3> QED
      BY <2>3, <2>4, <3>1, <3>2, <3>3
  <2>9. ASSUME NEW s \in Subs, Pay(s) \/ Change(s) PROVE CheckoutInv'
    <3>1. /\ UNCHANGED <<page, payer, customer, tier, work>> /\ page[s] = "open"
          /\ \A t \in Subs : t # s => stripe'[t] = stripe[t]
      BY <2>0, <2>9 DEF Pay, Change, TypeOK
    <3>2. stripe'[s] # "none"
      BY <2>9, Kinds DEF Pay, Change, Statuses
    <3>3. Paid'
      BY <2>0, <3>1, <3>2
    <3> QED
      BY <2>3, <2>4, <2>5, <3>1, <3>3
  <2>10. ASSUME NEW h \in Handlers, Receive(h) PROVE CheckoutInv'
    <3>1. PICK e \in pending : work' = [work EXCEPT ![h] = Loaded(e)]
      BY <2>10 DEF Receive
    <3>2. UNCHANGED <<page, payer, customer, tier, stripe>>
      BY <2>10 DEF Receive
    <3>3. /\ work'[h] = Loaded(e) /\ Loaded(e).event = e
          /\ Loaded(e).known = (e.seq = 0 \/ customer[Buyer[e.sub]] = payer[e.sub])
      BY <3>1, LoadedFields, Kinds
    <3>4. e.sub \in Subs /\ payer[e.sub] # NoCustomer
      BY <2>0, Kinds DEF ReadRightly
    <3>5. Knows(h)'
      BY <3>2, <3>3, <3>4 DEF Knows, OneCustomer, UserOf, SubOf
    <3>6. \A g \in Handlers : g # h => Knows(g)'
      BY <2>2, <2>10, OthersKept DEF HandlerStep, Busy
    <3> QED
      BY <2>4, <2>5, <2>6, <3>2, <3>5, <3>6
  <2>11. ASSUME NEW h \in Handlers, Retrieve(h) \/ FindRow(h) \/ CountOthers(h) \/ RefuseInsert(h) \/ Fail(h)
                                     \/ CommitCheckout(h) \/ CommitUpdate(h)
         PROVE  \A g \in Handlers : Knows(g)'
    <3>1. Busy(h)' => Busy(h) /\ work'[h].event = work[h].event /\ work'[h].known = work[h].known
      <4>1. CASE Retrieve(h)
        BY <4>1, RetrieveStep, Kinds
      <4>2. CASE FindRow(h)
        BY <4>2, FindStep, Kinds
      <4>3. CASE CountOthers(h)
        BY <4>3, CountStep, Kinds
      <4>4. CASE RefuseInsert(h) \/ Fail(h) \/ CommitCheckout(h) \/ CommitUpdate(h)
        BY <4>4, WorkFields, Kinds DEF RefuseInsert, Fail, CommitCheckout, CommitUpdate, Busy
      <4> QED
        BY <2>11, <4>1, <4>2, <4>3, <4>4
    <3>2. \A g \in Handlers : g # h => work'[g] = work[g]
      BY <2>11, OthersKept DEF HandlerStep
    <3> QED
      BY <2>2, <3>1, <3>2 DEF Busy
  <2>12. ASSUME NEW h \in Handlers, Retrieve(h) \/ FindRow(h) \/ CountOthers(h) \/ RefuseInsert(h) \/ Fail(h)
         PROVE  CheckoutInv'
    BY <2>4, <2>5, <2>6, <2>11, <2>12 DEF Retrieve, FindRow, CountOthers, RefuseInsert, Fail
  <2>13. ASSUME NEW h \in Handlers, CommitCheckout(h) \/ CommitUpdate(h) PROVE CheckoutInv'
    <3>1. /\ Busy(h) /\ UNCHANGED <<page, payer, customer, stripe>>
          /\ \A u \in Users : u # UserOf(h) => tier'[u] = tier[u]
      BY <2>13, Kinds DEF CommitCheckout, CommitUpdate, TypeOK, Busy
    <3>2. stripe[SubOf(h)] # "none" /\ UserOf(h) = Buyer[SubOf(h)] /\ SubOf(h) \in Subs
      BY <2>1, <3>1 DEF UserOf
    <3>3. Paid'
      BY <2>0, <3>1, <3>2
    <3> QED
      BY <2>4, <2>5, <2>11, <2>13, <3>1, <3>3
  <2>14. CASE UNCHANGED vars
    BY <2>3, <2>4, <2>5, <2>6, <2>14 DEF vars
  <2> QED
    BY <2>7, <2>8, <2>9, <2>10, <2>12, <2>13, <2>14 DEF Next, HandlerStep
<1> QED
  BY <1>1, <1>2, TypeCorrect, ReadRightlyInvariant, PTL DEF Spec

-----------------------------------------------------------------------------
(* A webhook whose handling takes the paid tier away.                      *)
Lapse(e) == e.seq > 0 /\ e.status # "active"

NoneRecorded(u) == \A s \in Subs : Buyer[s] = u => row[s] # "active"

(* The paid tier of a user without active subscription is about to go: a   *)
(* checkout that found the subscription lapsed leaves a webhook that says  *)
(* so, and a handler that is alone with the user knows the row and counts  *)
(* rightly.                                                                *)
AboutToLapse ==
  /\ \A h \in Handlers : Busy(h) /\ work[h].event.seq = 0 /\ work[h].status \notin {"none", "active"} =>
       \E e \in pending : e.sub = SubOf(h) /\ Lapse(e)
  /\ \A h \in Handlers : Read(h) => work[h].row = row[SubOf(h)]
  /\ \A h \in Handlers : work[h].pc = "ready" /\ Downgrades(h) /\ ~work[h].last => ~NoOtherActive(h)
  /\ \A u \in Users : tier[u] = "pro" /\ OneCustomer(u) /\ NoneRecorded(u) =>
       \E e \in Events : InFlight(e) /\ Buyer[e.sub] = u /\ Lapse(e)

LapseInv == ~overlapped /\ spent.disorder = 0 => AboutToLapse

(* A step that leaves the accounts alone, and in which the one handler h   *)
(* has read rightly what it has read.                                      *)
LEMMA LapseKept ==
  ASSUME TypeOK, TypeOK', CheckoutInv, AboutToLapse, [Next]_vars, UNCHANGED <<tier, row>>,
         \A e \in Events : InFlight(e) => InFlight(e)',
         NEW S \in SUBSET Handlers, \A g \in Handlers \ S : work'[g] = work[g],
         \A g \in Handlers \ S : \A e \in pending :
           Busy(g) /\ work[g].event.seq = 0 /\ e.sub = SubOf(g) /\ Lapse(e) => e \in pending',
         \A h \in S : Busy(h)' =>
           /\ work'[h].event.seq = 0 /\ work'[h].status \notin {"none", "active"} =>
                \E e \in pending' : e.sub = SubOf(h)' /\ Lapse(e)
           /\ Read(h)' => work'[h].row = row[SubOf(h)']
           /\ work'[h].pc = "ready" /\ Downgrades(h)' /\ ~work'[h].last => ~NoOtherActive(h)'
  PROVE  AboutToLapse'
<1>1. \A g \in Handlers \ S :
        /\ (Busy(g)' <=> Busy(g)) /\ (Read(g)' <=> Read(g)) /\ SubOf(g)' = SubOf(g) /\ UserOf(g)' = UserOf(g)
        /\ (Downgrades(g)' <=> Downgrades(g)) /\ (NoOtherActive(g)' <=> NoOtherActive(g))
  <2> SUFFICES ASSUME NEW g \in Handlers \ S
               PROVE  /\ (Busy(g)' <=> Busy(g)) /\ (Read(g)' <=> Read(g))
                      /\ SubOf(g)' = SubOf(g) /\ UserOf(g)' = UserOf(g)
                      /\ (Downgrades(g)' <=> Downgrades(g)) /\ (NoOtherActive(g)' <=> NoOtherActive(g))
    OBVIOUS
  <2>1. work'[g] = work[g]
    OBVIOUS
  <2>2. SubOf(g)' = SubOf(g) /\ UserOf(g)' = UserOf(g)
    BY <2>1 DEF SubOf, UserOf
  <2>3. NoOtherActive(g)' <=> NoOtherActive(g)
    BY <2>2 DEF NoOtherActive
  <2> QED
    BY <2>1, <2>2, <2>3 DEF Busy, Read, Downgrades
<1>2. \A g \in Handlers : (Read(g)' \/ work'[g].pc = "ready") => Busy(g)'
  BY DEF Read, Busy
<1>3. ASSUME NEW u \in Users, tier'[u] = "pro", OneCustomer(u)', NoneRecorded(u)'
      PROVE  \E e \in Events : InFlight(e)' /\ Buyer[e.sub] = u /\ Lapse(e)
  <2>1. PICK s \in Subs : Buyer[s] = u /\ page[s] = "open"
    BY <1>3 DEF CheckoutInv
  <2>2. OneCustomer(u) /\ NoneRecorded(u)
    BY <1>3, <2>1, OneCustomerBefore DEF NoneRecorded, OneCustomer
  <2> QED
    BY <1>3, <2>2 DEF AboutToLapse
<1>4. ASSUME NEW g \in Handlers, Busy(g)', work'[g].event.seq = 0, work'[g].status \notin {"none", "active"}
      PROVE  \E e \in pending' : e.sub = SubOf(g)' /\ Lapse(e)
  BY <1>1, <1>4 DEF AboutToLapse
<1>5. ASSUME NEW g \in Handlers, Read(g)' PROVE work'[g].row = row'[SubOf(g)']
  BY <1>1, <1>2, <1>5 DEF AboutToLapse
<1>6. ASSUME NEW g \in Handlers, work'[g].pc = "ready", Downgrades(g)', ~work'[g].last PROVE ~NoOtherActive(g)'
  BY <1>1, <1>2, <1>6 DEF AboutToLapse
<1> QED
  BY <1>3, <1>4, <1>5, <1>6 DEF AboutToLapse, Lapse

(* The same when one handler moves on and takes no webhook.                *)
LEMMA LapseKeptAt ==
  ASSUME TypeOK, TypeOK', CheckoutInv, AboutToLapse, [Next]_vars, UNCHANGED <<tier, row, pending>>,
         NEW h \in Handlers, \A g \in Handlers \ {h} : work'[g] = work[g],
         \A e \in Events : InFlight(e) => InFlight(e)',
         work'[h].event.seq = 0 /\ work'[h].status \notin {"none", "active"} =>
           \E e \in pending : e.sub = SubOf(h)' /\ Lapse(e),
         Read(h)' => work'[h].row = row[SubOf(h)'],
         work'[h].pc = "ready" /\ Downgrades(h)' /\ ~work'[h].last => ~NoOtherActive(h)'
  PROVE  AboutToLapse'
BY LapseKept, {h} \in SUBSET Handlers

(* The commit of a handler that is alone with its user.                    *)
LEMMA LapseCommitted ==
  ASSUME TypeOK, TypeOK', ReadRightly, CheckoutInv, InSequence, RowFollows, AloneWithUser, AboutToLapse,
         [Next]_vars, NEW h \in Handlers, CommitCheckout(h) \/ CommitUpdate(h)
  PROVE  AboutToLapse'
<1> USE DEF account, shop, remote
<1>0. PICK s, u : s = SubOf(h) /\ u = UserOf(h)
  OBVIOUS
<1>1. /\ Busy(h) /\ Read(h) /\ work[h].pc = "ready" /\ UNCHANGED <<stripe, changes, pending, customer, payer>>
      /\ work'[h] = Idle /\ \A g \in Handlers : g # h => work'[g] = work[g]
  BY OthersKept, Kinds DEF CommitCheckout, CommitUpdate, Busy, Read, HandlerStep
<1>2. /\ s \in Subs /\ u \in Users /\ u = Buyer[s] /\ work[h].event \in Events /\ work[h].event.sub = s
      /\ work[h].event.seq \in Nat /\ work[h].tier = tier[u] /\ tier[u] \in {"free", "pro"}
  BY <1>0, <1>1, BusyFields DEF AloneWithUser, UserOf, SubOf, TypeOK
<1>3. work[h].status # "none" /\ (work[h].event.seq > 0 => work[h].row # "none")
  BY <1>1 DEF ReadRightly, RowFollows
<1>4. /\ work[h].row = row[s]
      /\ row'[s] = work[h].status
      /\ \A t \in Subs : t # s => row'[t] = row[t]
  <2>1. work[h].row = row[s]
    BY <1>0, <1>1 DEF AboutToLapse
  <2>2. CASE CommitCheckout(h)
    BY <1>0, <1>2, <2>1, <2>2, Kinds DEF CommitCheckout
  <2>3. CASE CommitUpdate(h)
    BY <1>0, <1>2, <1>3, <2>1, <2>3, Kinds DEF CommitUpdate, RowWritten
  <2> QED
    BY <2>1, <2>2, <2>3
<1>5. \A v \in Users : v # u => tier'[v] = tier[v]
  BY <1>0, <1>2 DEF CommitCheckout, CommitUpdate, TypeOK
<1>6. \A g \in Handlers : (Busy(g)' \/ Read(g)' \/ work'[g].pc = "ready") =>
        /\ g # h /\ Busy(g) /\ work'[g] = work[g] /\ (Read(g)' => Read(g))
        /\ SubOf(g)' = SubOf(g) /\ UserOf(g)' = UserOf(g)
        /\ UserOf(g) # u /\ UserOf(g) = Buyer[SubOf(g)] /\ SubOf(g) \in Subs
  BY <1>0, <1>1, WorkFields, Kinds DEF Busy, Read, SubOf, UserOf, AloneWithUser
<1>7. \A e \in Events : InFlight(e) /\ e # work[h].event => InFlight(e)'
  BY FlightEnds
<1>8. ASSUME tier'[u] = "pro", OneCustomer(u)', NoneRecorded(u)'
      PROVE  \E e \in Events : InFlight(e)' /\ Buyer[e.sub] = u /\ Lapse(e)
  <2>1. work[h].status # "active"
    BY <1>2, <1>4, <1>8 DEF NoneRecorded
  <2>2. CASE CommitCheckout(h)
    <3>1. work[h].event.seq = 0
      BY <2>2 DEF CommitCheckout
    <3>2. PICK e \in pending : e.sub = s /\ Lapse(e)
      BY <1>0, <1>1, <1>3, <2>1, <3>1 DEF AboutToLapse
    <3>3. e \in Events /\ InFlight(e)'
      BY <1>1, Kinds DEF InFlight
    <3> QED
      BY <1>2, <3>2, <3>3
  <2>3. CASE CommitUpdate(h)
    <3>1. OneCustomer(u)
      BY <1>1, <1>8 DEF OneCustomer
    <3>2. Downgrades(h)
      BY <1>0, <1>1, <2>1, <2>3, <3>1 DEF CommitUpdate, CheckoutInv, Downgrades
    <3>3. CASE work[h].last
      BY <1>0, <1>2, <1>8, <2>3, <3>3 DEF CommitUpdate, TypeOK
    <3>4. CASE ~work[h].last
      <4>1. PICK t \in Subs : Buyer[t] = u /\ row[t] = "active" /\ t # s
        BY <1>0, <1>1, <3>2, <3>4 DEF AboutToLapse, NoOtherActive
      <4> QED
        BY <1>4, <1>8, <4>1 DEF NoneRecorded
    <3> QED
      BY <3>3, <3>4
  <2> QED
    BY <2>2, <2>3
<1>9. ASSUME NEW v \in Users, tier'[v] = "pro", OneCustomer(v)', NoneRecorded(v)', v # u
      PROVE  \E e \in Events : InFlight(e)' /\ Buyer[e.sub] = v /\ Lapse(e)
  <2>1. tier[v] = "pro" /\ OneCustomer(v) /\ NoneRecorded(v)
    BY <1>1, <1>2, <1>4, <1>5, <1>9 DEF OneCustomer, NoneRecorded
  <2>2. PICK e \in Events : InFlight(e) /\ Buyer[e.sub] = v /\ Lapse(e)
    BY <2>1 DEF AboutToLapse
  <2> QED
    BY <1>2, <1>7, <1>9, <2>2
<1>10. ASSUME NEW g \in Handlers, Busy(g)', work'[g].event.seq = 0, work'[g].status \notin {"none", "active"}
       PROVE  \E e \in pending' : e.sub = SubOf(g)' /\ Lapse(e)
  BY <1>1, <1>6, <1>10 DEF AboutToLapse
<1>11. ASSUME NEW g \in Handlers, Read(g)' PROVE work'[g].row = row'[SubOf(g)']
  BY <1>2, <1>4, <1>6, <1>11 DEF AboutToLapse
<1>12. ASSUME NEW g \in Handlers, work'[g].pc = "ready", Downgrades(g)', ~work'[g].last PROVE ~NoOtherActive(g)'
  <2>1. Downgrades(g) /\ ~NoOtherActive(g) /\ UserOf(g) # u
    BY <1>6, <1>12 DEF AboutToLapse, Downgrades
  <2>2. PICK t \in Subs : Buyer[t] = UserOf(g) /\ row[t] = "active" /\ t # SubOf(g)
    BY <2>1 DEF NoOtherActive
  <2> QED
    BY <1>2, <1>4, <1>6, <1>12, <2>1, <2>2 DEF NoOtherActive
<1> QED
  BY <1>8, <1>9, <1>10, <1>11, <1>12 DEF AboutToLapse, Lapse

LEMMA LapseStep ==
  ASSUME TypeOK, TypeOK', ReadRightly, CheckoutInv, InSequence, RowFollows, AloneWithUser, AboutToLapse,
         [Next]_vars, ~overlapped'
  PROVE  AboutToLapse'
<1> USE DEF account, shop, remote
<1>1. ASSUME UNCHANGED <<tier, row, work>>, pending \subseteq pending' PROVE AboutToLapse'
  <2>1. \A e \in Events : InFlight(e) => InFlight(e)'
    BY <1>1 DEF InFlight, Busy
  <2> QED
    BY <1>1, <2>1, LapseKept, {} \in SUBSET Handlers
<1>2. ASSUME NEW s \in Subs, OpenCheckout(s) \/ SaveCustomer(s) \/ Pay(s) \/ Change(s) PROVE AboutToLapse'
  BY <1>1, <1>2 DEF OpenCheckout, SaveCustomer, Pay, Change
<1>3. ASSUME NEW h \in Handlers, Receive(h) PROVE AboutToLapse'
  <2>1. PICK e \in pending : /\ work' = [work EXCEPT ![h] = Loaded(e)]
                             /\ pending' = pending \/ pending' = pending \ {e}
                             /\ overlapped' = (overlapped \/ Overlaps(e))
    BY <1>3 DEF Receive
  <2>2. /\ work'[h] = Loaded(e) /\ Loaded(e).event = e /\ Loaded(e).pc = "loaded" /\ UNCHANGED <<tier, row>>
        /\ Loaded(e).status = IF e.seq = 0 THEN "none" ELSE e.status
    BY <1>3, <2>1, LoadedFields, Kinds DEF Receive
  <2>3. \A g \in Handlers : Busy(g) => SubOf(g) # e.sub
    BY <2>1 DEF Overlaps, SubOf
  <2>4. \A g \in Handlers \ {h} : \A f \in pending :
          Busy(g) /\ work[g].event.seq = 0 /\ f.sub = SubOf(g) /\ Lapse(f) => f \in pending'
    BY <2>1, <2>3
  <2>5. \A g \in Handlers \ {h} : work'[g] = work[g]
    BY <1>3, OthersKept DEF HandlerStep
  <2>6. ~Read(h)' /\ work'[h].pc # "ready"
    BY <2>2 DEF Read
  <2>7. \A f \in Events : InFlight(f) => InFlight(f)'
    BY <1>3, FlightKept
  <2> QED
    BY <2>2, <2>4, <2>5, <2>6, <2>7, LapseKept, {h} \in SUBSET Handlers
<1>4. ASSUME NEW h \in Handlers, Retrieve(h) PROVE AboutToLapse'
  <2>1. PICK w \in Works : /\ work' = [work EXCEPT ![h] = w] /\ Busy(h)
                          /\ w.event = work[h].event /\ w.pc = "retrieved" /\ w.status = stripe[SubOf(h)]
    BY <1>4, RetrieveStep
  <2>2. /\ work'[h] = w /\ SubOf(h)' = SubOf(h) /\ UNCHANGED <<tier, row, pending>>
        /\ work[h].event.seq = 0 /\ work[h].event \in Events /\ SubOf(h) \in Subs /\ InFlight(work[h].event)
    BY <1>4, <2>1, Kinds DEF Retrieve, SubOf, InFlight
  <2>3. ASSUME w.status \notin {"none", "active"} PROVE \E e \in pending : e.sub = SubOf(h) /\ Lapse(e)
    <3>1. changes[SubOf(h)] # 0
      BY <2>1, <2>2, <2>3 DEF InSequence
    <3>2. PICK e \in pending : e.sub = SubOf(h) /\ e.seq = changes[SubOf(h)]
      BY <2>2, <3>1, Kinds DEF InSequence, SubOf
    <3>3. e.status = stripe[SubOf(h)]
      BY <3>2, Kinds DEF InSequence, InFlight
    <3> QED
      BY <2>1, <2>2, <2>3, <3>1, <3>2, <3>3, Kinds DEF Lapse
  <2>4. ~Read(h)' /\ work'[h].pc # "ready"
    BY <2>1, <2>2 DEF Read
  <2>5. \A g \in Handlers \ {h} : work'[g] = work[g]
    BY <1>4, OthersKept DEF HandlerStep
  <2>6. \A f \in Events : InFlight(f) => InFlight(f)'
    BY <1>4, FlightKept
  <2>7. work'[h].event.seq = 0 /\ work'[h].status \notin {"none", "active"} =>
          \E e \in pending : e.sub = SubOf(h)' /\ Lapse(e)
    BY <2>2, <2>3
  <2> QED
    BY <2>2, <2>4, <2>5, <2>6, <2>7, LapseKeptAt
<1>5. ASSUME NEW h \in Handlers, FindRow(h) PROVE AboutToLapse'
  <2>1. PICK w \in Works : /\ work' = [work EXCEPT ![h] = w] /\ Busy(h)
                          /\ w.event = work[h].event /\ w.known = work[h].known
                          /\ w.pc = (IF Downgrades(h) THEN "found" ELSE "ready") /\ w.row = row[SubOf(h)]
                          /\ w.status = work[h].status
    BY <1>5, FindStep
  <2>2. work'[h] = w /\ SubOf(h)' = SubOf(h) /\ UNCHANGED <<tier, row, pending>>
    BY <1>5, <2>1, Kinds DEF FindRow, SubOf
  <2>3. Downgrades(h)' <=> Downgrades(h)
    BY <2>1, <2>2 DEF Downgrades
  <2>4. work'[h].pc = "ready" => ~Downgrades(h)'
    BY <2>1, <2>2, <2>3
  <2>5. w.event.seq = 0 /\ w.status \notin {"none", "active"} => \E e \in pending : e.sub = SubOf(h) /\ Lapse(e)
    BY <2>1 DEF AboutToLapse
  <2>6. /\ work'[h].event.seq = 0 /\ work'[h].status \notin {"none", "active"} =>
             \E e \in pending : e.sub = SubOf(h)' /\ Lapse(e)
        /\ work'[h].row = row[SubOf(h)']
    BY <2>1, <2>2, <2>5
  <2>7. \A g \in Handlers \ {h} : work'[g] = work[g]
    BY <1>5, OthersKept DEF HandlerStep
  <2>8. \A f \in Events : InFlight(f) => InFlight(f)'
    BY <1>5, FlightKept
  <2> QED
    BY <2>2, <2>4, <2>6, <2>7, <2>8, LapseKeptAt
<1>6. ASSUME NEW h \in Handlers, CountOthers(h) PROVE AboutToLapse'
  <2>1. PICK w \in Works : /\ work' = [work EXCEPT ![h] = w] /\ Busy(h)
                          /\ w.event = work[h].event /\ w.last = NoOtherActive(h)
                          /\ w.row = work[h].row /\ w.status = work[h].status
    BY <1>6, CountStep
  <2>2. /\ work'[h] = w /\ SubOf(h)' = SubOf(h) /\ UserOf(h)' = UserOf(h)
        /\ UNCHANGED <<tier, row, pending>> /\ Read(h)
    BY <1>6, <2>1, Kinds DEF CountOthers, SubOf, UserOf, Read
  <2>3. NoOtherActive(h)' <=> NoOtherActive(h)
    BY <2>2 DEF NoOtherActive
  <2>4. w.event.seq = 0 /\ w.status \notin {"none", "active"} => \E e \in pending : e.sub = SubOf(h) /\ Lapse(e)
    BY <2>1 DEF AboutToLapse
  <2>5. w.row = row[SubOf(h)]
    BY <2>1, <2>2 DEF AboutToLapse
  <2>6. \A g \in Handlers \ {h} : work'[g] = work[g]
    BY <1>6, OthersKept DEF HandlerStep
  <2>7. \A f \in Events : InFlight(f) => InFlight(f)'
    BY <1>6, FlightKept
  <2>8. work'[h].event.seq = 0 /\ work'[h].status \notin {"none", "active"} =>
          \E e \in pending : e.sub = SubOf(h)' /\ Lapse(e)
    BY <2>1, <2>2, <2>4
  <2>9. Read(h)' => work'[h].row = row[SubOf(h)']
    BY <2>2, <2>5
  <2>10. work'[h].pc = "ready" /\ Downgrades(h)' /\ ~work'[h].last => ~NoOtherActive(h)'
    BY <2>1, <2>2, <2>3
  <2> QED
    BY <2>2, <2>6, <2>7, <2>8, <2>9, <2>10, LapseKeptAt
<1>7. ASSUME NEW h \in Handlers, RefuseInsert(h) \/ Fail(h) PROVE AboutToLapse'
  <2>1. UNCHANGED <<tier, row>> /\ pending \subseteq pending' /\ work'[h] = Idle
    BY <1>7, Kinds DEF RefuseInsert, Fail
  <2>2. ~Busy(h)'
    BY <2>1, WorkFields DEF Busy
  <2>3. \A g \in Handlers \ {h} : work'[g] = work[g]
    BY <1>7, OthersKept DEF HandlerStep
  <2>4. \A f \in Events : InFlight(f) => InFlight(f)'
    BY <1>7, FlightKept
  <2> QED
    BY <2>1, <2>2, <2>3, <2>4, LapseKept, {h} \in SUBSET Handlers
<1>8. ASSUME NEW h \in Handlers, CommitCheckout(h) \/ CommitUpdate(h) PROVE AboutToLapse'
  BY <1>8, LapseCommitted
<1>9. CASE UNCHANGED vars
  BY <1>1, <1>9 DEF vars
<1> QED
  BY <1>2, <1>3, <1>4, <1>5, <1>6, <1>7, <1>8, <1>9 DEF Next, HandlerStep

(* An overlap is never undone either.                                      *)
LEMMA NoOverlapBefore ==
  ASSUME [Next]_vars, ~overlapped' PROVE ~overlapped
  BY DEF Next, HandlerStep, vars, OpenCheckout, SaveCustomer, Pay, Change, Receive, Retrieve, FindRow,
         CountOthers, CommitCheckout, RefuseInsert, CommitUpdate, Fail

(* Without overlap and disorder, a user with one customer none of whose    *)
(* subscriptions is on record as active is on the free tier once the       *)
(* webhooks are handled: until then a webhook that will take the paid tier *)
(* away is on its way.                                                     *)
THEOREM LapsedUsersAreFree == Spec => []LapsedIsFree
<1>1. Init => LapseInv
  BY WorkFields DEF Init, LapseInv, AboutToLapse, Busy, Read
<1>2. TypeOK /\ TypeOK' /\ ReadRightly /\ CheckoutInv /\ MirrorInv /\ PaidInv /\ LapseInv /\ [Next]_vars
        => LapseInv'
  BY NoOverlapBefore, NoDisorderBefore, LapseStep DEF LapseInv, MirrorInv, PaidInv
<1>3. TypeOK /\ LapseInv => LapsedIsFree
  <2> SUFFICES ASSUME TypeOK, LapseInv, ~overlapped, spent.disorder = 0, NEW u \in Users,
                      Settled(u), OneCustomer(u), NoneRecorded(u), tier[u] # "free"
               PROVE  FALSE
    BY DEF LapsedIsFree, LapsedWithoutDisorder, NoneRecorded
  <2>1. tier[u] = "pro"
    BY DEF TypeOK
  <2>2. PICK e \in Events : InFlight(e) /\ Buyer[e.sub] = u
    BY <2>1 DEF LapseInv, AboutToLapse
  <2> QED
    BY <2>2 DEF InFlight, Settled, UserOf, SubOf
<1> QED
  BY <1>1, <1>2, <1>3, TypeCorrect, ReadRightlyInvariant, CheckoutInvariant, MirrorInvariant, PaidInvariant,
     PTL DEF Spec
=============================================================================
