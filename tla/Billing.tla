------------------------------ MODULE Billing ------------------------------
(***************************************************************************)
(* One organization's subscription: the checkout handler and the webhook   *)
(* that mirrors Stripe's subscriptions into organizations                  *)
(* (app/api/billing.py, app/services/billing.py), and the part of Stripe   *)
(* they rely on.                                                           *)
(*                                                                         *)
(* Stripe numbers its events and delivers each at least once, in any       *)
(* order, until it is answered.  The webhook is an async endpoint: within  *)
(* one server process its handlers never overlap, and Workers is the set   *)
(* of processes.  Checkouts run in the processes' threads (Threads) and    *)
(* overlap everything.  An UPDATE writes only the columns that differ from *)
(* the values the session loaded.                                          *)
(***************************************************************************)
EXTENDS Integers, Sequences, FiniteSets, TLC

CONSTANTS
    Workers,       \* server processes, each handling one webhook at a time
    Threads,       \* checkout requests served at once
    Customers,     \* ids Stripe may give to customers (the bound on customers)
    Subs,          \* ids Stripe may give to subscriptions (the bound on them)
    Prices,        \* Stripe price ids
    PlanForPrice,  \* plan_for_price_id: None for a price that is not ours
    None,          \* an empty field
    AsItIs,        \* what an event says of a column it does not tell
    MaxEvents,     \* bound on the events Stripe emits
    InOrder,       \* Stripe delivers an event only after the earlier ones
    OneLive        \* nobody checks out while a subscription is live

ASSUME BoundAssumption == MaxEvents \in Nat
ASSUME PlanAssumption == PlanForPrice \in [Prices -> {"pro", "enterprise", None}]
ASSUME SwitchAssumption == InOrder \in BOOLEAN /\ OneLive \in BOOLEAN
ASSUME NoneAssumption == None \notin Customers \cup Subs \cup Prices
ASSUME AsItIsAssumption ==
    AsItIs \notin {"free", "pro", "enterprise", "active", "past_due", "canceled", None} \cup Subs

VARIABLES
    customer,      \* organizations.stripe_customer_id
    org,           \* the columns of organizations that the webhook writes
    recorded,      \* billing_events: event -> whether organization_id is set
    hook,          \* worker -> the webhook it handles
    checkout,      \* thread -> the checkout it handles
    customers,     \* Stripe: the customers created
    sessions,      \* Stripe: the open checkout sessions whose URL was handed out
    subs,          \* Stripe: its subscriptions
    events,        \* Stripe: the events emitted, oldest first
    answered       \* Stripe: the events that got their 204

server == <<customer, org, recorded, hook, checkout>>
stripe == <<customers, sessions, subs, events, answered>>
vars == <<server, stripe>>

Columns == [plan : {"free", "pro", "enterprise"},
            status : {"active", "past_due", "canceled", None},
            sub : Subs \cup {None}]
NoSub == [customer |-> None, price |-> None, status |-> "absent"]
Event == [type : {"created", "updated", "deleted", "invoice"}, sub : Subs, customer : Customers,
          price : Prices, status : {"active", "past_due", "canceled"}]

NoHook == [pc |-> "idle", event |-> 0, known |-> FALSE, loaded |-> None, attributed |-> FALSE]
NoCheckout == [pc |-> "idle", price |-> None, loaded |-> None, customer |-> None]

TypeOK ==
    /\ customer \in Customers \cup {None}
    /\ org \in Columns
    /\ DOMAIN recorded \subseteq DOMAIN events
    /\ \A e \in DOMAIN recorded : recorded[e] \in BOOLEAN
    /\ \A w \in Workers :
         /\ hook[w].pc \in {"idle", "applied", "attributed"}
         /\ hook[w].event \in DOMAIN events \cup {0}
         /\ hook[w].loaded \in Columns \cup {None}
    /\ checkout \in [Threads -> [pc : {"idle", "loaded", "customer", "session"},
                                 price : Prices \cup {None},
                                 loaded : Customers \cup {None},
                                 customer : Customers \cup {None}]]
    /\ customers \subseteq Customers
    /\ sessions \subseteq [customer : Customers, price : Prices]
    /\ \A s \in Subs : subs[s] = NoSub \/ subs[s].customer \in customers
    /\ Len(events) <= MaxEvents /\ \A e \in DOMAIN events : events[e] \in Event
    /\ answered \subseteq DOMAIN recorded

---------------------------------------------------------------------------
(* start_checkout *)

StartCheckout(t, price) ==
    /\ checkout[t].pc = "idle"
    /\ PlanForPrice[price] # None
    /\ checkout' = [checkout EXCEPT ![t] = [pc |-> "loaded", price |-> price,
                                            loaded |-> customer, customer |-> customer]]
    /\ UNCHANGED <<customer, org, recorded, hook, stripe>>

\* get_or_create_stripe_customer: Stripe is asked only if the organization had none.
NeedsCustomerAlways(t) == TRUE
NeedsCustomer(t) == checkout[t].loaded = None

GetOrCreateCustomer(t) ==
    /\ checkout[t].pc = "loaded"
    /\ IF NeedsCustomer(t)
       THEN \E c \in Customers \ customers :
              /\ customers' = customers \cup {c}
              /\ checkout' = [checkout EXCEPT ![t].pc = "customer", ![t].customer = c]
       ELSE /\ checkout' = [checkout EXCEPT ![t].pc = "customer"]
            /\ UNCHANGED customers
    /\ UNCHANGED <<customer, org, recorded, hook, sessions, subs, events, answered>>

CreateSession(t) ==
    /\ checkout[t].pc = "customer"
    /\ checkout' = [checkout EXCEPT ![t].pc = "session"]
    /\ UNCHANGED <<customer, org, recorded, hook, stripe>>

\* A call to Stripe fails, or the process dies: the request ends and saves nothing.
CheckoutFails(t) ==
    /\ checkout[t].pc # "idle"
    /\ checkout' = [checkout EXCEPT ![t] = NoCheckout]
    /\ UNCHANGED <<customer, org, recorded, hook, stripe>>

\* The customer id is saved before the URL goes to the browser.
CommitCheckout(t) ==
    /\ checkout[t].pc = "session"
    /\ customer' = IF checkout[t].customer # checkout[t].loaded THEN checkout[t].customer
                   ELSE customer
    /\ sessions' = sessions \cup {[customer |-> checkout[t].customer, price |-> checkout[t].price]}
    /\ checkout' = [checkout EXCEPT ![t] = NoCheckout]
    /\ UNCHANGED <<org, recorded, hook, customers, subs, events, answered>>

---------------------------------------------------------------------------
(* stripe_webhook *)

\* _apply_webhook_event on the row as loaded.
AppliedAnyPrice(e, row) ==
    CASE e.type \in {"created", "updated"} ->
            [plan |-> PlanForPrice[e.price], status |-> e.status, sub |-> e.sub]
      [] e.type = "deleted" -> [plan |-> "free", status |-> "canceled", sub |-> None]
      [] OTHER -> row
AppliedKeepingPlan(e, row) ==
    CASE e.type \in {"created", "updated"} ->
            [plan |-> IF PlanForPrice[e.price] # None THEN PlanForPrice[e.price] ELSE row.plan,
             status |-> e.status, sub |-> e.sub]
      [] e.type = "deleted" -> [row EXCEPT !.status = "canceled", !.sub = None]
      [] OTHER -> row
Applied(e, row) ==
    CASE e.type \in {"created", "updated"} ->
            [plan |-> IF PlanForPrice[e.price] # None THEN PlanForPrice[e.price] ELSE row.plan,
             status |-> e.status, sub |-> e.sub]
      [] e.type = "deleted" -> [plan |-> "free", status |-> "canceled", sub |-> None]
      [] OTHER -> row

Known(e) == e.customer = customer

Deliverable(e) ==
    /\ e \in DOMAIN events
    /\ InOrder => 1..(e - 1) \subseteq answered

\* A redelivery of a recorded event is answered and changes nothing.
DeliverSeen(w, e) ==
    /\ hook[w].pc = "idle"
    /\ Deliverable(e)
    /\ e \in DOMAIN recorded
    /\ e \notin answered
    /\ answered' = answered \cup {e}
    /\ UNCHANGED <<server, customers, sessions, subs, events>>

DeliverNew(w, e) ==
    /\ hook[w].pc = "idle"
    /\ Deliverable(e)
    /\ e \notin DOMAIN recorded
    /\ hook' = [hook EXCEPT ![w] = [NoHook EXCEPT !.pc = "applied", !.event = e,
                                                  !.known = Known(events[e]), !.loaded = org]]
    /\ UNCHANGED <<customer, org, recorded, checkout, stripe>>

\* _organization_for_customer looks the customer up a second time.
AttributeBySubscription(w) ==
    /\ hook[w].pc = "applied"
    /\ hook' = [hook EXCEPT ![w].pc = "attributed",
                            ![w].attributed = events[hook[w].event].sub = org.sub]
    /\ UNCHANGED <<customer, org, recorded, checkout, stripe>>
Attribute(w) ==
    /\ hook[w].pc = "applied"
    /\ hook' = [hook EXCEPT ![w].pc = "attributed",
                            ![w].attributed = Known(events[hook[w].event])]
    /\ UNCHANGED <<customer, org, recorded, checkout, stripe>>

\* The columns the session changed, on top of the row as it is now.
Merged(loaded, new) == [c \in DOMAIN org |-> IF new[c] # loaded[c] THEN new[c] ELSE org[c]]

\* A new row of billing_events.
Recorded(e, attributed) ==
    [f \in DOMAIN recorded \cup {e} |-> IF f = e THEN attributed ELSE recorded[f]]

\* stripe_event_id is unique: the INSERT of a second record fails the whole transaction.
RepeatsUnchecked(w) == FALSE
Repeats(w) == hook[w].event \in DOMAIN recorded

CommitFails(w) ==
    /\ hook[w].pc = "attributed"
    /\ Repeats(w)
    /\ hook' = [hook EXCEPT ![w] = NoHook]
    /\ UNCHANGED <<customer, org, recorded, checkout, stripe>>

\* The answer may be lost on its way: Stripe then delivers the event again.
CommitHandledOnly(w) ==
    LET e == hook[w].event IN
    /\ hook[w].pc = "attributed"
    /\ ~Repeats(w)
    /\ org' = IF hook[w].known THEN Merged(hook[w].loaded, Applied(events[e], hook[w].loaded)) ELSE org
    /\ recorded' = IF events[e].type = "invoice" THEN recorded ELSE Recorded(e, hook[w].attributed)
    /\ answered' = answered
    /\ hook' = [hook EXCEPT ![w] = NoHook]
    /\ UNCHANGED <<customer, checkout, customers, sessions, subs, events>>
Commit(w) ==
    LET e == hook[w].event IN
    /\ hook[w].pc = "attributed"
    /\ ~Repeats(w)
    /\ org' = IF hook[w].known THEN Merged(hook[w].loaded, Applied(events[e], hook[w].loaded)) ELSE org
    /\ recorded' = Recorded(e, hook[w].attributed)
    /\ answered' \in {answered, answered \cup {e}}
    /\ hook' = [hook EXCEPT ![w] = NoHook]
    /\ UNCHANGED <<customer, checkout, customers, sessions, subs, events>>

\* The process dies, or the transaction fails: nothing was committed or answered.
Crash(w) ==
    /\ hook[w].pc # "idle"
    /\ hook' = [hook EXCEPT ![w] = NoHook]
    /\ UNCHANGED <<customer, org, recorded, checkout, stripe>>

---------------------------------------------------------------------------
(* Stripe, as the webhook's reader sees it. *)

Live == {s \in Subs : subs[s].status \in {"active", "past_due"}}

\* s gets a new state, and an event tells it.
Changes(s, type, new) ==
    /\ Len(events) < MaxEvents
    /\ subs' = [subs EXCEPT ![s] = new]
    /\ events' = Append(events, [type |-> type, sub |-> s, customer |-> new.customer,
                                 price |-> new.price, status |-> new.status])
    /\ UNCHANGED <<server, customers, answered>>

CompleteCheckout(session, s) ==
    /\ session \in sessions
    /\ subs[s] = NoSub
    /\ OneLive => Live = {}
    /\ sessions' = sessions \ {session}
    /\ Changes(s, "created", [customer |-> session.customer, price |-> session.price,
                              status |-> "active"])

\* A change of price in the portal or by Stripe's operator.
ChangePrice(s, price) ==
    /\ s \in Live
    /\ subs[s].price # price
    /\ UNCHANGED sessions
    /\ Changes(s, "updated", [subs[s] EXCEPT !.price = price])

ChangeStatus(s, status) ==
    /\ s \in Live
    /\ subs[s].status # status
    /\ UNCHANGED sessions
    /\ Changes(s, "updated", [subs[s] EXCEPT !.status = status])

Cancel(s) ==
    /\ s \in Live
    /\ UNCHANGED sessions
    /\ Changes(s, "deleted", [subs[s] EXCEPT !.status = "canceled"])

\* An event of a type the handler does not act on.
SendInvoice(s) ==
    /\ s \in Live
    /\ UNCHANGED sessions
    /\ Changes(s, "invoice", subs[s])

---------------------------------------------------------------------------
Init ==
    /\ customer = None
    /\ org = [plan |-> "free", status |-> None, sub |-> None]
    /\ recorded = <<>>
    /\ hook = [w \in Workers |-> NoHook]
    /\ checkout = [t \in Threads |-> NoCheckout]
    /\ customers = {}
    /\ sessions = {}
    /\ subs = [s \in Subs |-> NoSub]
    /\ events = <<>>
    /\ answered = {}

Checkout(t) ==
    \/ \E price \in Prices : StartCheckout(t, price)
    \/ GetOrCreateCustomer(t)
    \/ CreateSession(t)
    \/ CheckoutFails(t)
    \/ CommitCheckout(t)

Webhook(w) ==
    \/ \E e \in DOMAIN events : DeliverSeen(w, e) \/ DeliverNew(w, e)
    \/ Attribute(w)
    \/ CommitFails(w)
    \/ Commit(w)
    \/ Crash(w)

Stripe ==
    \/ \E session \in sessions, s \in Subs : CompleteCheckout(session, s)
    \/ \E s \in Subs :
         \/ \E price \in Prices : ChangePrice(s, price)
         \/ \E status \in {"active", "past_due"} : ChangeStatus(s, status)
         \/ Cancel(s)
         \/ SendInvoice(s)

Next ==
    \/ \E t \in Threads : Checkout(t)
    \/ \E w \in Workers : Webhook(w)
    \/ Stripe

Spec == Init /\ [][Next]_vars

\* Stripe retries an event it got no answer for, a handler that has begun goes on, and no
\* event meets a crash at the same point of every one of its deliveries.
Fairness ==
    \A e \in 1..MaxEvents :
      /\ SF_vars(\E w \in Workers : DeliverNew(w, e))
      /\ SF_vars(\E w \in Workers : hook[w].event = e /\ Attribute(w))
      /\ SF_vars(\E w \in Workers : hook[w].event = e /\ (Commit(w) \/ CommitFails(w)))

FairSpec == Spec /\ Fairness

---------------------------------------------------------------------------
(* Properties. *)

\* However an event is delivered, again or to two processes at once, the organization and the
\* audit trail move as Ledger says: each event takes effect in one step, the one that records it,
\* and what changes is what the event tells (stripe_webhook, models/billing_event.py).
Told(e) == CASE e.type \in {"created", "updated"} ->
                  [plan |-> IF PlanForPrice[e.price] # None THEN PlanForPrice[e.price] ELSE AsItIs,
                   status |-> e.status, sub |-> e.sub]
             [] e.type = "deleted" -> [plan |-> "free", status |-> "canceled", sub |-> None]
             [] OTHER -> [plan |-> AsItIs, status |-> AsItIs, sub |-> AsItIs]
Abstract == INSTANCE Ledger WITH row <- org,
                                 sent <- [e \in DOMAIN events |-> Told(events[e])],
                                 applied <- DOMAIN recorded
EachEventOnce == Abstract!Spec

\* Nothing Stripe sent is silently dropped (_apply_webhook_event's docstring): every event
\* is recorded in the end, whatever its type and whoever its customer.
EveryEventRecorded == \A e \in 1..MaxEvents : e \in DOMAIN events ~> e \in DOMAIN recorded

\* Whoever pays is known here: the customer of a live subscription is the organization's.
\* (Two checkouts that overlap each make a customer, and the later commit forgets one.)
PayerIsKnown == \A s \in Live : subs[s].customer = customer

\* An event that changed the organization is filed under it in the audit trail.
ChangesAreAttributed ==
    [][org' # org => \E e \in DOMAIN recorded' \ DOMAIN recorded : recorded'[e]]_vars

\* Once every event is recorded the organization shows Stripe's subscription: its id, its
\* status and the plan of its price, and free when there is none.
AllRecorded == DOMAIN recorded = DOMAIN events
InSync ==
    AllRecorded =>
      IF Live = {} THEN org.plan = "free" /\ org.sub = None
      ELSE \E s \in Live : /\ org.sub = s
                           /\ org.status = subs[s].status
                           /\ PlanForPrice[subs[s].price] \in {None, org.plan}
=============================================================================
