------------------------------- MODULE Billing -------------------------------
(***************************************************************************)
(* Subscriptions and the tier they buy.  POST /api/billing/checkout opens  *)
(* a Stripe session, Stripe reports what becomes of the subscription in    *)
(* webhooks, and the handlers of app/routes/billing.py copy its status to  *)
(* a row of subscriptions and derive users.tier from it.                   *)
(*                                                                         *)
(* Stripe delivers a webhook until it is answered, so perhaps repeatedly,  *)
(* promises no order, and calls handlers that run at the same time.  Each  *)
(* handler reads in several steps and writes in one commit; what it writes *)
(* is what differs from what it read, as the ORM's unit of work does it.   *)
(***************************************************************************)
EXTENDS Naturals, FiniteSets

CONSTANTS
  Users,
  Subs,         \* Stripe subscriptions, each the outcome of one checkout
  Buyer,        \* the user in the metadata of that checkout
  Customers,    \* Stripe customer ids
  NoCustomer,   \* stripe_customer_id IS NULL
  Handlers,     \* webhook handlers that may run at a time
  NoEvent,      \* the handler is idle
  MaxChanges,   \* bound: status changes of each subscription at Stripe
  MaxRepeats,   \* bound: webhooks delivered once more although answered
  MaxDisorder,  \* bound: webhooks that overtake an older one of their subscription
  MaxFailures   \* bound: handlers that fail before their commit

ASSUME BuyerAssumption    == Buyer \in [Subs -> Users]
ASSUME CustomerAssumption == NoCustomer \notin Customers
ASSUME BoundAssumption    == {MaxChanges, MaxRepeats, MaxDisorder, MaxFailures} \subseteq Nat

(* "trialing" is treated as "active" everywhere, "unpaid" as "past_due".   *)
Statuses == {"active", "past_due", "canceled"}

(* seq numbers the webhooks of a subscription in the order of their        *)
(* occurrence; 0 is checkout.session.completed, the others are             *)
(* customer.subscription.updated and .deleted.                             *)
Events == [sub : Subs, seq : 0..MaxChanges, status : Statuses]
ASSUME EventAssumption == NoEvent \notin Events

VARIABLES
  tier,       \* users.tier
  customer,   \* users.stripe_customer_id
  row,        \* subscriptions.status, "none" before the row
  page,       \* the checkout that leads to each subscription
  payer,      \* the customer that checkout was opened for
  stripe,     \* the status at Stripe, "none" before it is paid
  changes,    \* status changes at Stripe so far
  pending,    \* webhooks not yet answered and not being handled
  work,       \* what each handler has read
  lapsed,     \* history: the subscription has not always been active
  overlapped, \* history: two webhooks of one user were handled at once
  spent       \* how often delivery or a handler has gone wrong, by kind

account == <<tier, customer, row>>
shop    == <<page, payer>>
remote  == <<stripe, changes, lapsed>>
vars    == <<account, shop, remote, pending, work, overlapped, spent>>

Idle == [pc |-> "idle", event |-> NoEvent, tier |-> "free", known |-> FALSE,
         status |-> "none", row |-> "none", last |-> FALSE]

Works == [pc     : {"idle", "loaded", "retrieved", "found", "ready"},
          event  : Events \cup {NoEvent},
          tier   : {"free", "pro"},
          known  : BOOLEAN,
          status : Statuses \cup {"none"},
          row    : Statuses \cup {"none"},
          last   : BOOLEAN]

TypeOK ==
  /\ tier \in [Users -> {"free", "pro"}]
  /\ customer \in [Users -> Customers \cup {NoCustomer}]
  /\ row \in [Subs -> Statuses \cup {"none"}]
  /\ page \in [Subs -> {"none", "saving", "open"}]
  /\ payer \in [Subs -> Customers \cup {NoCustomer}]
  /\ stripe \in [Subs -> Statuses \cup {"none"}]
  /\ changes \in [Subs -> 0..MaxChanges]
  /\ pending \subseteq Events
  /\ work \in [Handlers -> Works]
  /\ lapsed \in [Subs -> BOOLEAN]
  /\ overlapped \in BOOLEAN
  /\ spent \in [repeat : 0..MaxRepeats, disorder : 0..MaxDisorder, failure : 0..MaxFailures]
  /\ \A h \in Handlers : work[h].event = NoEvent <=> work[h].pc = "idle"

Init ==
  /\ tier = [u \in Users |-> "free"]
  /\ customer = [u \in Users |-> NoCustomer]
  /\ row = [s \in Subs |-> "none"]
  /\ page = [s \in Subs |-> "none"]
  /\ payer = [s \in Subs |-> NoCustomer]
  /\ stripe = [s \in Subs |-> "none"]
  /\ changes = [s \in Subs |-> 0]
  /\ pending = {}
  /\ work = [h \in Handlers |-> Idle]
  /\ lapsed = [s \in Subs |-> FALSE]
  /\ overlapped = FALSE
  /\ spent = [repeat |-> 0, disorder |-> 0, failure |-> 0]

-----------------------------------------------------------------------------
(* POST /api/billing/checkout.                                             *)

(* The user is read; one without a customer id gets a new customer, which  *)
(* is committed to the row in a step of its own.                           *)
OpenCheckout(s) ==
  /\ page[s] = "none" /\ tier[Buyer[s]] = "free"
  /\ \/ /\ customer[Buyer[s]] # NoCustomer
        /\ payer' = [payer EXCEPT ![s] = customer[Buyer[s]]]
        /\ page' = [page EXCEPT ![s] = "open"]
     \/ /\ customer[Buyer[s]] = NoCustomer
        /\ \E c \in Customers : /\ \A t \in Subs : payer[t] # c
                                /\ payer' = [payer EXCEPT ![s] = c]
        /\ page' = [page EXCEPT ![s] = "saving"]
  /\ UNCHANGED <<account, remote, pending, work, overlapped, spent>>

SaveCustomer(s) ==
  /\ page[s] = "saving"
  /\ customer' = [customer EXCEPT ![Buyer[s]] = payer[s]]
  /\ page' = [page EXCEPT ![s] = "open"]
  /\ UNCHANGED <<tier, row, payer, remote, pending, work, overlapped, spent>>

-----------------------------------------------------------------------------
(* Stripe.                                                                 *)

Pay(s) ==
  /\ page[s] = "open" /\ stripe[s] = "none"
  /\ stripe' = [stripe EXCEPT ![s] = "active"]
  /\ pending' = pending \cup {[sub |-> s, seq |-> 0, status |-> "active"]}
  /\ UNCHANGED <<account, shop, changes, lapsed, work, overlapped, spent>>

(* A payment fails or succeeds again, or the subscription ends.            *)
Change(s) ==
  /\ stripe[s] \in {"active", "past_due"} /\ changes[s] < MaxChanges
  /\ \E st \in Statuses \ {stripe[s]} :
       /\ stripe' = [stripe EXCEPT ![s] = st]
       /\ pending' = pending \cup {[sub |-> s, seq |-> changes[s] + 1, status |-> st]}
       /\ lapsed' = [lapsed EXCEPT ![s] = @ \/ st # "active"]
  /\ changes' = [changes EXCEPT ![s] = @ + 1]
  /\ UNCHANGED <<account, shop, work, overlapped, spent>>

Busy(h) == work[h].pc # "idle"

(* No older webhook of the subscription is still waiting or being handled; *)
(* the same one may be, delivered twice.                                   *)
InOrder(e) ==
  /\ \A f \in pending : f.sub = e.sub => f.seq >= e.seq
  /\ \A h \in Handlers : Busy(h) /\ work[h].event.sub = e.sub => work[h].event.seq >= e.seq

Overlaps(e) == \E h \in Handlers : Busy(h) /\ Buyer[work[h].event.sub] = Buyer[e.sub]

(* Mutation: the handler forgets which webhook it answers.                 *)
LoadedNothing(e) == [Idle EXCEPT !.pc = "loaded", !.tier = tier[Buyer[e.sub]]]

(* The handler loads the user: by the metadata of the checkout, by the     *)
(* customer of a subscription.                                             *)
Loaded(e) ==
  [Idle EXCEPT !.pc = "loaded", !.event = e, !.tier = tier[Buyer[e.sub]],
               !.known = (e.seq = 0 \/ customer[Buyer[e.sub]] = payer[e.sub]),
               !.status = IF e.seq = 0 THEN "none" ELSE e.status]

Receive(h) ==
  /\ ~Busy(h)
  /\ \E e \in pending, again, late \in {0, 1} :
       /\ late = 1 <=> ~InOrder(e)
       /\ spent.repeat + again <= MaxRepeats /\ spent.disorder + late <= MaxDisorder
       /\ spent' = [spent EXCEPT !.repeat = @ + again, !.disorder = @ + late]
       /\ pending' = IF again = 1 THEN pending ELSE pending \ {e}
       /\ work' = [work EXCEPT ![h] = Loaded(e)]
       /\ overlapped' = (overlapped \/ Overlaps(e))
  /\ UNCHANGED <<account, shop, remote>>

-----------------------------------------------------------------------------
(* _handle_checkout_completed and _handle_subscription_update.             *)

SubOf(h)  == work[h].event.sub
UserOf(h) == Buyer[SubOf(h)]

(* The checkout's handler asks Stripe for the present status.              *)
Retrieve(h) ==
  /\ work[h].pc = "loaded" /\ work[h].event.seq = 0
  /\ work' = [work EXCEPT ![h] = [@ EXCEPT !.pc = "retrieved", !.status = stripe[SubOf(h)]]]
  /\ UNCHANGED <<account, shop, remote, pending, overlapped, spent>>

(* Mutation: a past_due subscription does not downgrade.                   *)
DowngradesOnCancel(h) ==
  work[h].event.seq > 0 /\ work[h].known /\ work[h].status = "canceled"

Downgrades(h) == work[h].event.seq > 0 /\ work[h].known /\ work[h].status # "active"

FindRow(h) ==
  /\ \/ work[h].pc = "retrieved"
     \/ work[h].pc = "loaded" /\ work[h].event.seq > 0
  /\ work' = [work EXCEPT ![h] = [@ EXCEPT !.pc = IF Downgrades(h) THEN "found" ELSE "ready",
                                           !.row = row[SubOf(h)]]]
  /\ UNCHANGED <<account, shop, remote, pending, overlapped, spent>>

(* Mutation: the other subscriptions are not looked at.                    *)
NoneActive(h) == TRUE

NoOtherActive(h) ==
  \A s \in Subs : Buyer[s] = UserOf(h) /\ row[s] = "active" => s = SubOf(h)

CountOthers(h) ==
  /\ work[h].pc = "found"
  /\ work' = [work EXCEPT ![h] = [@ EXCEPT !.pc = "ready", !.last = NoOtherActive(h)]]
  /\ UNCHANGED <<account, shop, remote, pending, overlapped, spent>>

(* The ORM writes a column only if it was read with another value.         *)
Upgraded(h) == work[h].status = "active" /\ work[h].tier = "free"

CommitCheckout(h) ==
  /\ work[h].pc = "ready" /\ work[h].event.seq = 0
  /\ work[h].row = "none" => row[SubOf(h)] = "none"
  /\ row' = [row EXCEPT ![SubOf(h)] = IF work[h].row = work[h].status THEN @ ELSE work[h].status]
  /\ tier' = [tier EXCEPT ![UserOf(h)] = IF Upgraded(h) THEN "pro" ELSE @]
  /\ work' = [work EXCEPT ![h] = Idle]
  /\ UNCHANGED <<customer, shop, remote, pending, overlapped, spent>>

(* stripe_subscription_id is unique: of two inserts one is refused, and    *)
(* Stripe calls again.                                                     *)
RefuseInsert(h) ==
  /\ work[h].pc = "ready" /\ work[h].event.seq = 0
  /\ work[h].row = "none" /\ row[SubOf(h)] # "none"
  /\ pending' = pending \cup {work[h].event}
  /\ work' = [work EXCEPT ![h] = Idle]
  /\ UNCHANGED <<account, shop, remote, overlapped, spent>>

(* Mutation: the status is recorded only when it downgrades.               *)
RowWrittenOnLapse(h) == work[h].row # "none" /\ Downgrades(h)

RowWritten(h) == work[h].row \notin {"none", work[h].status}

CommitUpdate(h) ==
  /\ work[h].pc = "ready" /\ work[h].event.seq > 0
  /\ row' = [row EXCEPT ![SubOf(h)] = IF RowWritten(h) THEN work[h].status ELSE @]
  /\ tier' = [tier EXCEPT ![UserOf(h)] = IF work[h].last /\ work[h].tier = "pro" THEN "free" ELSE @]
  /\ work' = [work EXCEPT ![h] = Idle]
  /\ UNCHANGED <<customer, shop, remote, pending, overlapped, spent>>

(* Stripe or the database fails the handler: Stripe calls again.           *)
Fail(h) ==
  /\ Busy(h) /\ spent.failure < MaxFailures
  /\ spent' = [spent EXCEPT !.failure = @ + 1]
  /\ pending' = pending \cup {work[h].event}
  /\ work' = [work EXCEPT ![h] = Idle]
  /\ UNCHANGED <<account, shop, remote, overlapped>>

HandlerStep(h) ==
  \/ Receive(h) \/ Retrieve(h) \/ FindRow(h) \/ CountOthers(h)
  \/ CommitCheckout(h) \/ RefuseInsert(h) \/ CommitUpdate(h)

Next ==
  \/ \E s \in Subs : OpenCheckout(s) \/ SaveCustomer(s) \/ Pay(s) \/ Change(s)
  \/ \E h \in Handlers : HandlerStep(h) \/ Fail(h)

Spec == Init /\ [][Next]_vars

-----------------------------------------------------------------------------
(* Properties.                                                             *)

Settled(u) ==
  /\ \A e \in pending : Buyer[e.sub] # u
  /\ \A h \in Handlers : Busy(h) => UserOf(h) # u

OneCustomer(u) == \A s \in Subs : Buyer[s] = u /\ payer[s] # NoCustomer => payer[s] = customer[u]

(* Whoever has a subscription on record that Stripe has never reported     *)
(* lapsed has the paid tier, in whatever order and however often webhooks  *)
(* arrive and whatever becomes of the user's other subscriptions, as long  *)
(* as the user's webhooks are not handled at the same time.                *)
PaidIsPro ==
  ~overlapped => \A s \in Subs : row[s] # "none" /\ ~lapsed[s] => tier[Buyer[s]] = "pro"

LapsedWithoutDisorder ==
  spent.disorder = 0 =>
    \A u \in Users :
      Settled(u) /\ OneCustomer(u) /\ (\A s \in Subs : Buyer[s] = u => row[s] # "active")
        => tier[u] = "free"

(* Once the webhooks of a user are handled, a user none of whose           *)
(* subscriptions is on record as active is back on the free tier, again    *)
(* without overlap, when webhooks come in order, however often, and unless *)
(* two checkouts at once have given the user two customers.                *)
LapsedIsFree == ~overlapped => LapsedWithoutDisorder

(* Once the webhooks are handled the subscriptions table mirrors Stripe,   *)
(* whatever was repeated or failed and whatever overlapped, two deliveries *)
(* of one webhook included, unless a webhook has overtaken an older one of *)
(* its subscription.                                                       *)
RecordMirrorsStripe ==
  spent.disorder = 0 => \A s \in Subs : Settled(Buyer[s]) => row[s] = stripe[s]

-----------------------------------------------------------------------------
(* Claims of the repository that the code does not keep.                   *)

(* tests/test_billing_webhooks.py "customer.subscription.updated (active)  *)
(* -> tier stays/becomes pro": a user with an active subscription has the  *)
(* paid tier once the webhooks are handled.                                *)
ActiveIsPro ==
  \A u \in Users :
    Settled(u) /\ (\E s \in Subs : Buyer[s] = u /\ row[s] = "active") => tier[u] = "pro"

(* plans/db-schema-phase2.md "When status in {canceled, unpaid, past_due}  *)
(* and no other active subscriptions: users.tier -> free": the same as     *)
(* LapsedIsFree, also when two webhooks of a user are handled at once.     *)
NoOtherActiveIsFree == LapsedWithoutDisorder
=============================================================================
