--------------------------- MODULE BillingProofs ---------------------------
(***************************************************************************)
(* Proofs about Billing, for any number of processes, checkouts,           *)
(* customers, subscriptions and events.                                    *)
(*                                                                         *)
(* Types strengthens TypeOK to an inductive invariant: a handler or a      *)
(* checkout under way carries what its later steps rely on.  It alone      *)
(* gives the refinement of Ledger.                                         *)
(*                                                                         *)
(* While no two checkouts overlap, OneCustomer and AllKnown hold besides:  *)
(* nothing at Stripe belongs to anyone but the organization's customer,    *)
(* and every handler found the organization.                               *)
(*                                                                         *)
(* With ordered deliveries and one live subscription, Mirrored holds too:  *)
(* the recorded events are a prefix of Stripe's, a handler whose event is  *)
(* not recorded yet still holds the row as it is, the organization shows   *)
(* the last recorded event, and the last event tells the live              *)
(* subscription.  InSync is the case where the prefix is the whole.        *)
(***************************************************************************)
EXTENDS Billing, SequenceTheorems, TLAPS

\* What a handler, a checkout and a subscription are made of.
Hook == [pc : {"idle", "applied", "attributed"}, event : Nat, known : BOOLEAN,
         loaded : Columns \cup {None}, attributed : BOOLEAN]
Ticket == [pc : {"idle", "loaded", "customer", "session"}, price : Prices \cup {None},
           loaded : customers \cup {None}, customer : customers \cup {None}]
Subscription == [customer : customers, price : Prices, status : {"active", "past_due", "canceled"}]

Rows == org \in Columns /\ customer \in customers \cup {None} /\ customers \subseteq Customers

Handlers ==
    /\ hook \in [Workers -> Hook]
    /\ \A w \in Workers :
         IF hook[w].pc = "idle" THEN hook[w] = NoHook
         ELSE hook[w].event \in DOMAIN events /\ hook[w].loaded \in Columns

Checkouts ==
    /\ checkout \in [Threads -> Ticket]
    /\ \A t \in Threads :
         /\ checkout[t].pc # "idle" => checkout[t].price \in Prices
         /\ checkout[t].pc = "loaded" => checkout[t].customer = checkout[t].loaded
         /\ checkout[t].pc \in {"customer", "session"} => checkout[t].customer \in customers

StripeState ==
    /\ sessions \subseteq [customer : customers, price : Prices]
    /\ subs \in [Subs -> Subscription \cup {NoSub}]
    /\ events \in Seq(Event) /\ Len(events) <= MaxEvents

Trail ==
    /\ DOMAIN recorded \subseteq DOMAIN events
    /\ recorded \in [DOMAIN recorded -> BOOLEAN]
    /\ answered \subseteq DOMAIN recorded

Types == Rows /\ Handlers /\ Checkouts /\ StripeState /\ Trail

---------------------------------------------------------------------------
LEMMA TypesImplyTypeOK == Types => TypeOK
<1> SUFFICES ASSUME Types PROVE TypeOK
  OBVIOUS
<1>1. \A s \in Subs : subs[s] = NoSub \/ subs[s].customer \in customers
  BY DEF Types, StripeState, Subscription
<1>2. \A e \in DOMAIN events : events[e] \in Event
  BY ElementOfSeq DEF Types, StripeState
<1>3. \A w \in Workers :
         /\ hook[w].pc \in {"idle", "applied", "attributed"}
         /\ hook[w].event \in DOMAIN events \cup {0}
         /\ hook[w].loaded \in Columns \cup {None}
  BY DEF Types, Handlers, Hook, NoHook
<1>4. checkout \in [Threads -> [pc : {"idle", "loaded", "customer", "session"},
                                 price : Prices \cup {None},
                                 loaded : Customers \cup {None},
                                 customer : Customers \cup {None}]]
  BY DEF Types, Checkouts, Ticket, Rows
<1> QED
  BY <1>1, <1>2, <1>3, <1>4 DEF Types, TypeOK, Rows, Trail, StripeState, Subscription

LEMMA NoHookIsAHook == NoHook \in Hook
  BY DEF NoHook, Hook

LEMMA InitTypes == Init => Types
<1> SUFFICES ASSUME Init PROVE Types
  OBVIOUS
<1>1. Rows /\ Trail
  BY DEF Init, Rows, Trail, Columns
<1>2. Handlers
  BY DEF Init, Handlers, Hook, NoHook
<1>3. Checkouts
  BY DEF Init, Checkouts, Ticket, NoCheckout
<1>4. StripeState
  BY BoundAssumption DEF Init, StripeState
<1> QED
  BY <1>1, <1>2, <1>3, <1>4 DEF Types

\* What the handlers write keeps the columns' types.
LEMMA AppliedIsARow ==
    ASSUME NEW e \in Event, NEW row \in Columns
    PROVE  Applied(e, row) \in Columns
  BY PlanAssumption DEF Applied, Event, Columns

LEMMA MergedIsARow ==
    ASSUME org \in Columns, NEW loaded \in Columns, NEW new \in Columns
    PROVE  /\ Merged(loaded, new) \in Columns
           /\ Merged(loaded, new) =
                [plan |-> IF new.plan # loaded.plan THEN new.plan ELSE org.plan,
                 status |-> IF new.status # loaded.status THEN new.status ELSE org.status,
                 sub |-> IF new.sub # loaded.sub THEN new.sub ELSE org.sub]
<1> DEFINE m == [plan |-> IF new.plan # loaded.plan THEN new.plan ELSE org.plan,
                 status |-> IF new.status # loaded.status THEN new.status ELSE org.status,
                 sub |-> IF new.sub # loaded.sub THEN new.sub ELSE org.sub]
<1>1. DOMAIN org = {"plan", "status", "sub"} /\ DOMAIN m = {"plan", "status", "sub"}
  BY DEF Columns
<1>2. Merged(loaded, new) = m
  BY <1>1 DEF Merged
<1>3. m \in Columns
  BY DEF Columns
<1> QED
  BY <1>2, <1>3

\* A session that loaded the row as it is now writes the whole of it.
LEMMA MergedWithTheRowItself ==
    ASSUME org \in Columns, NEW new \in Columns
    PROVE  Merged(org, new) = new
<1>1. DOMAIN org = {"plan", "status", "sub"} /\ DOMAIN new = {"plan", "status", "sub"}
        /\ new = [c \in DOMAIN new |-> new[c]]
  BY DEF Columns
<1> QED
  BY <1>1 DEF Merged

---------------------------------------------------------------------------
\* The customer a checkout goes on with: the one it loaded, if there was one.
LEMMA CustomerIsGot ==
    ASSUME Types, NEW t \in Threads, GetOrCreateCustomer(t)
    PROVE  \E c \in customers' :
              /\ checkout' = [checkout EXCEPT ![t].pc = "customer", ![t].customer = c]
              /\ checkout[t].loaded # None => c = checkout[t].customer
<1>1. CASE NeedsCustomer(t)
  BY <1>1 DEF GetOrCreateCustomer, NeedsCustomer
<1>2. CASE ~NeedsCustomer(t)
  <2>1. checkout[t].customer \in customers /\ customers' = customers
    BY <1>2 DEF GetOrCreateCustomer, NeedsCustomer, Types, Checkouts, Ticket
  <2>2. checkout' = [checkout EXCEPT ![t].pc = "customer", ![t].customer = checkout[t].customer]
    BY <1>2 DEF GetOrCreateCustomer, Types, Checkouts, Ticket
  <2> QED
    BY <2>1, <2>2
<1> QED
  BY <1>1, <1>2

LEMMA CheckoutTypes == ASSUME Types, NEW t \in Threads, Checkout(t) PROVE Types'
<1> USE DEF Types
<1>1. ASSUME NEW price \in Prices, StartCheckout(t, price) PROVE Types'
  <2>1. Rows' /\ Handlers' /\ StripeState' /\ Trail'
    BY <1>1 DEF StartCheckout, stripe, Rows, Handlers, StripeState, Subscription, Trail
  <2>2. Checkouts'
    BY <1>1 DEF StartCheckout, stripe, Checkouts, Ticket, Rows
  <2> QED
    BY <2>1, <2>2
<1>2. ASSUME GetOrCreateCustomer(t) PROVE Types'
  <2>1. customers \subseteq customers' /\ customers' \subseteq Customers
    BY <1>2 DEF GetOrCreateCustomer, Rows
  <2>2. Rows' /\ Handlers' /\ StripeState' /\ Trail'
    BY <1>2, <2>1 DEF GetOrCreateCustomer, Rows, Handlers, StripeState, Subscription, Trail
  <2>3. Checkouts'
    <3>1. PICK c \in customers' :
             checkout' = [checkout EXCEPT ![t].pc = "customer", ![t].customer = c]
      BY <1>2, CustomerIsGot
    <3>2. [checkout[t] EXCEPT !.pc = "customer", !.customer = c] \in Ticket'
      BY <2>1, <3>1 DEF Checkouts, Ticket
    <3>3. \A u \in Threads : checkout[u] \in Ticket'
      BY <2>1 DEF Checkouts, Ticket
    <3>4. checkout[t].price \in Prices
      BY <1>2 DEF GetOrCreateCustomer, Checkouts
    <3>5. checkout' \in [Threads -> Ticket']
      BY <3>1, <3>2, <3>3 DEF Checkouts
    <3> QED
      BY <2>1, <3>1, <3>4, <3>5 DEF Checkouts
  <2> QED
    BY <2>2, <2>3
<1>3. ASSUME CreateSession(t) PROVE Types'
  <2>1. Rows' /\ Handlers' /\ StripeState' /\ Trail'
    BY <1>3 DEF CreateSession, stripe, Rows, Handlers, StripeState, Subscription, Trail
  <2>2. Checkouts'
    BY <1>3 DEF CreateSession, stripe, Checkouts, Ticket, Rows
  <2> QED
    BY <2>1, <2>2
<1>4. ASSUME CheckoutFails(t) PROVE Types'
  <2>1. Rows' /\ Handlers' /\ StripeState' /\ Trail'
    BY <1>4 DEF CheckoutFails, stripe, Rows, Handlers, StripeState, Subscription, Trail
  <2>2. Checkouts'
    BY <1>4 DEF CheckoutFails, NoCheckout, stripe, Checkouts, Ticket, Rows
  <2> QED
    BY <2>1, <2>2
<1>5. ASSUME CommitCheckout(t) PROVE Types'
  <2>1. checkout[t].customer \in customers /\ checkout[t].price \in Prices
    BY <1>5 DEF CommitCheckout, Checkouts
  <2>2. Rows' /\ Handlers' /\ StripeState' /\ Trail'
    BY <1>5, <2>1 DEF CommitCheckout, Rows, Handlers, StripeState, Subscription, Trail
  <2>3. Checkouts'
    BY <1>5 DEF CommitCheckout, NoCheckout, Checkouts, Ticket, Rows
  <2> QED
    BY <2>2, <2>3
<1> QED
  BY <1>1, <1>2, <1>3, <1>4, <1>5 DEF Checkout

LEMMA WebhookTypes == ASSUME Types, NEW w \in Workers, Webhook(w) PROVE Types'
<1> USE DEF Types
<1>1. ASSUME NEW e \in DOMAIN events, DeliverSeen(w, e) PROVE Types'
  BY <1>1 DEF DeliverSeen, server, Rows, Handlers, Checkouts, Ticket, StripeState, Subscription, Trail
<1>2. ASSUME NEW e \in DOMAIN events, DeliverNew(w, e) PROVE Types'
  <2>1. e \in Nat
    BY LenProperties DEF StripeState
  <2>2. Handlers'
    BY <1>2, <2>1 DEF DeliverNew, Handlers, Hook, NoHook, Known, Rows, stripe
  <2>3. Rows' /\ Checkouts' /\ StripeState' /\ Trail'
    BY <1>2 DEF DeliverNew, stripe, Rows, Checkouts, Ticket, StripeState, Subscription, Trail
  <2> QED
    BY <2>2, <2>3
<1>3. ASSUME Attribute(w) PROVE Types'
  <2>1. Handlers'
    <3>1. \A v \in Workers : hook'[v] =
             IF v = w THEN [hook[w] EXCEPT !.pc = "attributed",
                                           !.attributed = Known(events[hook[w].event])]
             ELSE hook[v]
      BY <1>3 DEF Attribute, Handlers
    <3>2. hook'[w] \in Hook /\ hook'[w].pc # "idle" /\ hook'[w].event = hook[w].event
            /\ hook'[w].loaded = hook[w].loaded
      BY <3>1 DEF Known, Hook, Handlers
    <3> QED
      BY <1>3, <3>1, <3>2 DEF Attribute, Handlers, stripe
  <2>2. Rows' /\ Checkouts' /\ StripeState' /\ Trail'
    BY <1>3 DEF Attribute, stripe, Rows, Checkouts, Ticket, StripeState, Subscription, Trail
  <2> QED
    BY <2>1, <2>2
<1>4. ASSUME CommitFails(w) \/ Crash(w) PROVE Types'
  <2>1. Handlers'
    <3>1. hook' = [hook EXCEPT ![w] = NoHook] /\ events' = events
      BY <1>4 DEF CommitFails, Crash, stripe
    <3> QED
      BY <3>1, NoHookIsAHook DEF Handlers, NoHook
  <2>2. Rows' /\ Checkouts' /\ StripeState' /\ Trail'
    BY <1>4 DEF CommitFails, Crash, stripe, Rows, Checkouts, Ticket, StripeState, Subscription, Trail
  <2> QED
    BY <2>1, <2>2
<1>5. ASSUME Commit(w) PROVE Types'
  <2> DEFINE e == hook[w].event
             loaded == hook[w].loaded
             new == Applied(events[e], loaded)
  <2>1. e \in DOMAIN events /\ loaded \in Columns /\ hook[w].attributed \in BOOLEAN
    BY <1>5 DEF Commit, Handlers, Hook
  <2>2. events[e] \in Event
    BY <2>1, ElementOfSeq, LenProperties DEF StripeState
  <2>3. Merged(loaded, new) \in Columns
    BY <2>1, <2>2, AppliedIsARow, MergedIsARow DEF Rows
  <2>4. Rows'
    BY <1>5, <2>3 DEF Commit, Rows
  <2>5. Handlers'
    BY <1>5, NoHookIsAHook DEF Commit, Handlers, NoHook
  <2>6. Trail'
    BY <1>5, <2>1 DEF Commit, Recorded, Trail
  <2>7. Checkouts' /\ StripeState'
    BY <1>5 DEF Commit, Checkouts, Ticket, StripeState, Subscription
  <2> QED
    BY <2>4, <2>5, <2>6, <2>7
<1> QED
  BY <1>1, <1>2, <1>3, <1>4, <1>5 DEF Webhook

LEMMA ChangesTypes ==
    ASSUME Types, NEW s \in Subs, NEW new \in Subscription, sessions' \subseteq sessions,
           NEW type \in {"created", "updated", "deleted", "invoice"}, Changes(s, type, new)
    PROVE  /\ Types'
           /\ Len(events') = Len(events) + 1
           /\ \A e \in DOMAIN events : events'[e] = events[e]
<1> USE DEF Types
<1> DEFINE v == [type |-> type, sub |-> s, customer |-> new.customer,
                 price |-> new.price, status |-> new.status]
<1>1. v \in Event
  BY DEF Event, Subscription, Rows
<1>2. /\ events' \in Seq(Event) /\ Len(events') = Len(events) + 1
      /\ \A e \in DOMAIN events : events'[e] = events[e]
      /\ DOMAIN events \subseteq DOMAIN events'
  BY <1>1, AppendProperties, LenProperties DEF Changes, StripeState
<1>3. StripeState'
  BY <1>2, LenProperties, BoundAssumption DEF Changes, StripeState, Subscription
<1>4. Handlers' /\ Trail'
  BY <1>2 DEF Changes, server, Handlers, Trail
<1>5. Rows' /\ Checkouts'
  BY DEF Changes, server, Rows, Checkouts, Ticket
<1> QED
  BY <1>2, <1>3, <1>4, <1>5

\* Who may pay: the customers of the open checkout sessions and of the subscriptions.
Payers == {session.customer : session \in sessions}
            \cup {subs[s].customer : s \in {r \in Subs : subs[r] # NoSub}}

\* Each of Stripe's steps gives one subscription a new state and tells it; no step brings in a
\* customer that is not there.
LEMMA StripeChanges ==
    ASSUME Types, Stripe
    PROVE  \E s \in Subs, type \in {"created", "updated", "deleted", "invoice"}, new \in Subscription :
              /\ Changes(s, type, new) /\ sessions' \subseteq sessions
              /\ new.customer \in Payers
<1>1. \A s \in Live : s \in Subs /\ subs[s] \in Subscription /\ subs[s].customer \in Payers
  BY DEF Types, StripeState, Live, NoSub, Payers
<1>2. ASSUME NEW session \in sessions, NEW s \in Subs, CompleteCheckout(session, s)
      PROVE  \E new \in Subscription : /\ Changes(s, "created", new) /\ sessions' \subseteq sessions
                                      /\ new.customer \in Payers
  <2> DEFINE new == [customer |-> session.customer, price |-> session.price, status |-> "active"]
  <2>1. new \in Subscription /\ new.customer \in Payers
    BY DEF Types, StripeState, Subscription, Payers
  <2> QED
    BY <1>2, <2>1 DEF CompleteCheckout
<1>3. ASSUME NEW s \in Subs, NEW price \in Prices, ChangePrice(s, price)
      PROVE  \E new \in Subscription : /\ Changes(s, "updated", new) /\ sessions' \subseteq sessions
                                      /\ new.customer \in Payers
  <2>1. [subs[s] EXCEPT !.price = price] \in Subscription
          /\ [subs[s] EXCEPT !.price = price].customer = subs[s].customer
    BY <1>1, <1>3 DEF ChangePrice, Subscription
  <2> QED
    BY <1>1, <1>3, <2>1 DEF ChangePrice
<1>4. ASSUME NEW s \in Subs, NEW status \in {"active", "past_due"}, ChangeStatus(s, status)
      PROVE  \E new \in Subscription : /\ Changes(s, "updated", new) /\ sessions' \subseteq sessions
                                      /\ new.customer \in Payers
  <2>1. [subs[s] EXCEPT !.status = status] \in Subscription
          /\ [subs[s] EXCEPT !.status = status].customer = subs[s].customer
    BY <1>1, <1>4 DEF ChangeStatus, Subscription
  <2> QED
    BY <1>1, <1>4, <2>1 DEF ChangeStatus
<1>5. ASSUME NEW s \in Subs, Cancel(s)
      PROVE  \E new \in Subscription : /\ Changes(s, "deleted", new) /\ sessions' \subseteq sessions
                                      /\ new.customer \in Payers
  <2>1. [subs[s] EXCEPT !.status = "canceled"] \in Subscription
          /\ [subs[s] EXCEPT !.status = "canceled"].customer = subs[s].customer
    BY <1>1, <1>5 DEF Cancel, Subscription
  <2> QED
    BY <1>1, <1>5, <2>1 DEF Cancel
<1>6. ASSUME NEW s \in Subs, SendInvoice(s)
      PROVE  \E new \in Subscription : /\ Changes(s, "invoice", new) /\ sessions' \subseteq sessions
                                      /\ new.customer \in Payers
  BY <1>1, <1>6 DEF SendInvoice
<1>7. PICK s \in Subs :
         \/ \E session \in sessions : CompleteCheckout(session, s)
         \/ \E price \in Prices : ChangePrice(s, price)
         \/ \E status \in {"active", "past_due"} : ChangeStatus(s, status)
         \/ Cancel(s)
         \/ SendInvoice(s)
  BY DEF Stripe
<1> QED
  BY <1>2, <1>3, <1>4, <1>5, <1>6, <1>7

LEMMA NextTypes == Types /\ [Next]_vars => Types'
<1> SUFFICES ASSUME Types, [Next]_vars PROVE Types'
  OBVIOUS
<1>1. ASSUME NEW t \in Threads, Checkout(t) PROVE Types'
  BY <1>1, CheckoutTypes
<1>2. ASSUME NEW w \in Workers, Webhook(w) PROVE Types'
  BY <1>2, WebhookTypes
<1>3. CASE Stripe
  BY <1>3, StripeChanges, ChangesTypes
<1>4. CASE UNCHANGED vars
  BY <1>4 DEF vars, server, stripe, Types, Rows, Handlers, Checkouts, Ticket, StripeState,
              Subscription, Trail
<1> QED
  BY <1>1, <1>2, <1>3, <1>4 DEF Next

\* Whatever the checkouts, the webhooks and Stripe do, in any order, every field keeps to its
\* kind: a handler or a checkout under way never refers to an event or a customer that is not
\* there, and what is answered was recorded (start_checkout, stripe_webhook).
THEOREM TypeCorrect == Spec => []TypeOK
<1>1. Spec => []Types
  BY InitTypes, NextTypes, PTL DEF Spec
<1> QED
  BY <1>1, TypesImplyTypeOK, PTL

---------------------------------------------------------------------------
(* Billing implements Ledger: recording an event applies it, an event Stripe emits is sent, and   *)
(* every other step stutters.                                                                    *)

LedgerRow == <<org, [e \in DOMAIN events |-> Told(events[e])], DOMAIN recorded>>

LEMMA ToldIsWhatChanges ==
    ASSUME NEW e \in Event, NEW row \in Columns,
           NEW new, new = Applied(e, row), NEW told, told = Told(e)
    PROVE  /\ new.plan # row.plan => told.plan # AsItIs /\ new.plan = told.plan
           /\ new.status # row.status => told.status # AsItIs /\ new.status = told.status
           /\ new.sub # row.sub => told.sub # AsItIs /\ new.sub = told.sub
<1>1. CASE e.type \in {"created", "updated"}
  <2>1. new = [plan |-> IF PlanForPrice[e.price] # None THEN PlanForPrice[e.price] ELSE row.plan,
               status |-> e.status, sub |-> e.sub]
    BY <1>1 DEF Applied
  <2>2. told = [plan |-> IF PlanForPrice[e.price] # None THEN PlanForPrice[e.price] ELSE AsItIs,
                status |-> e.status, sub |-> e.sub]
    BY <1>1 DEF Told
  <2>3. e.status # AsItIs /\ e.sub # AsItIs
    BY AsItIsAssumption DEF Event
  <2>4. PlanForPrice[e.price] # None => PlanForPrice[e.price] # AsItIs
    BY PlanAssumption, AsItIsAssumption DEF Event
  <2>5. new.plan # row.plan => told.plan # AsItIs /\ new.plan = told.plan
    BY <2>1, <2>2, <2>4
  <2> QED
    BY <2>1, <2>2, <2>3, <2>5
<1>2. CASE e.type = "deleted"
  <2>1. new = [plan |-> "free", status |-> "canceled", sub |-> None] /\ told = new
    BY <1>2 DEF Applied, Told
  <2> QED
    BY <2>1, AsItIsAssumption
<1>3. CASE e.type = "invoice"
  BY <1>3 DEF Applied
<1> QED
  BY <1>1, <1>2, <1>3 DEF Event

LEMMA CommitApplies ==
    ASSUME Types, NEW w \in Workers, Commit(w)
    PROVE  hook[w].event \in DOMAIN events /\ Abstract!Apply(hook[w].event)
<1> DEFINE e == hook[w].event
           loaded == hook[w].loaded
           new == Applied(events[e], loaded)
           told == Told(events[e])
           sets == IF hook[w].known THEN {c \in DOMAIN org : new[c] # loaded[c]} ELSE {}
<1>1. e \in DOMAIN events /\ loaded \in Columns /\ e \notin DOMAIN recorded
  BY DEF Commit, Repeats, Types, Handlers
<1>2. events[e] \in Event
  BY <1>1, ElementOfSeq, LenProperties DEF Types, StripeState
<1>3. DOMAIN org = {"plan", "status", "sub"}
  BY DEF Types, Rows, Columns
<1>4. \A c \in {"plan", "status", "sub"} : new[c] # loaded[c] => told[c] # AsItIs /\ new[c] = told[c]
  BY <1>1, <1>2, ToldIsWhatChanges
<1>5. sets \in SUBSET {c \in DOMAIN org : told[c] # AsItIs}
  BY <1>3, <1>4
<1>6. org' = [c \in DOMAIN org |-> IF c \in sets THEN told[c] ELSE org[c]]
  <2>1. CASE hook[w].known
    BY <2>1, <1>3, <1>4 DEF Commit, Merged
  <2>2. CASE ~hook[w].known
    BY <2>2, <1>3 DEF Commit, Types, Rows, Columns
  <2> QED
    BY <2>1, <2>2
<1>7. DOMAIN recorded' = DOMAIN recorded \cup {e} /\ events' = events
  BY DEF Commit, Recorded
<1>8. \E sent \in SUBSET {c \in DOMAIN org : told[c] # AsItIs} :
         org' = [c \in DOMAIN org |-> IF c \in sent THEN told[c] ELSE org[c]]
  BY <1>5, <1>6
<1>9. [f \in DOMAIN events |-> Told(events[f])][e] = told
  BY <1>1
<1> QED
  BY <1>1, <1>7, <1>8, <1>9 DEF Abstract!Apply

LEMMA StripeSends == ASSUME Types, Types', Stripe PROVE Abstract!Send
<1> DEFINE n == Len(events)
           sent == [e \in DOMAIN events |-> Told(events[e])]
           all == {Told(events'[e]) : e \in DOMAIN events'}
<1>1. PICK s \in Subs, type \in {"created", "updated", "deleted", "invoice"}, new \in Subscription :
         Changes(s, type, new) /\ sessions' \subseteq sessions
  BY StripeChanges
<1>2. Len(events') = n + 1 /\ (\A e \in DOMAIN events : events'[e] = events[e])
  BY <1>1, ChangesTypes
<1>3. n \in Nat /\ DOMAIN events = 1..n /\ DOMAIN events' = 1..(n + 1)
  BY <1>2, LenProperties DEF Types, StripeState
<1>4. sent' \in [1..(n + 1) -> all] /\ sent \in [1..n -> all]
  BY <1>2, <1>3
<1>5. sent' \in Seq(all) /\ sent \in Seq(all) /\ Len(sent') = n + 1 /\ Len(sent) = n
  BY <1>3, <1>4, SeqDef, LenProperties
<1>6. SubSeq(sent', 1, n) = sent
  <2>1. \A i \in 1..n : sent'[i] \in all /\ sent'[i] = sent[i]
    BY <1>2, <1>3, <1>4
  <2> HIDE DEF sent, all
  <2>2. /\ SubSeq(sent', 1, n) \in Seq(all) /\ Len(SubSeq(sent', 1, n)) = n
        /\ \A i \in 1..n : SubSeq(sent', 1, n)[i] = sent'[i]
    BY <1>3, <2>1, SubSeqProperties, Z3
  <2> QED
    BY <1>3, <1>5, <2>1, <2>2, SeqEqual
<1> QED
  BY <1>1, <1>5, <1>6 DEF Abstract!Send, Changes, server

LEMMA InitIsLedgerInit == Init => Abstract!Init
  BY DEF Init, Abstract!Init

LEMMA StepIsLedgerStep ==
    ASSUME Types, Types', [Next]_vars
    PROVE  [Abstract!Next]_Abstract!vars
<1> USE DEF Abstract!vars
<1>1. ASSUME NEW t \in Threads, Checkout(t) PROVE UNCHANGED Abstract!vars
  BY <1>1 DEF Checkout, StartCheckout, GetOrCreateCustomer, CreateSession, CheckoutFails,
              CommitCheckout, stripe
<1>2. ASSUME NEW w \in Workers, Webhook(w) PROVE [Abstract!Next]_Abstract!vars
  <2>1. CASE Commit(w)
    <3>1. hook[w].event \in DOMAIN [e \in DOMAIN events |-> Told(events[e])]
      BY <2>1, CommitApplies
    <3> QED
      BY <2>1, <3>1, CommitApplies DEF Abstract!Next
  <2>2. CASE ~Commit(w)
    BY <1>2, <2>2 DEF Webhook, DeliverSeen, DeliverNew, Attribute, CommitFails, Crash, server, stripe
  <2> QED
    BY <2>1, <2>2
<1>3. CASE Stripe
  BY <1>3, StripeSends DEF Abstract!Next
<1>4. CASE UNCHANGED vars
  BY <1>4 DEF vars, server, stripe
<1> QED
  BY <1>1, <1>2, <1>3, <1>4 DEF Next

\* However Stripe delivers an event, again, late or to two processes at once, and whatever crashes
\* between, the organization's row is a ledger of the events: each takes effect in one step, the
\* one that records it, and that step writes nothing the event does not tell (stripe_webhook and
\* the unique stripe_event_id of models/billing_event.py).
THEOREM ImplementsLedger == Spec => EachEventOnce
<1>1. Spec => []Types
  BY InitTypes, NextTypes, PTL DEF Spec
<1>2. Types /\ Types' /\ [Next]_vars => [Abstract!Next]_Abstract!vars
  BY StepIsLedgerStep
<1> QED
  BY <1>1, <1>2, InitIsLedgerInit, PTL DEF Spec, EachEventOnce, Abstract!Spec

---------------------------------------------------------------------------
(* While no two checkouts overlap, the organization keeps the one customer it gets, and all that *)
(* Stripe knows of is that customer's.                                                           *)

OneCheckoutAtATime ==
    \A t, u \in Threads : checkout[t].pc # "idle" /\ checkout[u].pc # "idle" => t = u

OneCustomer ==
    /\ \A t \in Threads : checkout[t].pc # "idle" =>
         /\ checkout[t].loaded = customer
         /\ customer # None => checkout[t].customer = customer
    /\ \A session \in sessions : session.customer = customer
    /\ \A s \in Subs : subs[s] # NoSub => subs[s].customer = customer
    /\ \A e \in DOMAIN events : events[e].customer = customer

AllKnown == \A w \in Workers : /\ hook[w].pc # "idle" => hook[w].known
                               /\ hook[w].pc = "attributed" => hook[w].attributed

Single == Types /\ OneCustomer /\ AllKnown

LEMMA SingleCheckout ==
    ASSUME Single, OneCheckoutAtATime, NEW t \in Threads, Checkout(t)
    PROVE  (OneCustomer /\ AllKnown)'
<1> USE DEF Single
<1>1. ASSUME NEW price \in Prices, StartCheckout(t, price) PROVE OneCustomer'
  BY <1>1 DEF StartCheckout, stripe, OneCustomer, Types, Checkouts
<1>2. ASSUME GetOrCreateCustomer(t) PROVE OneCustomer'
  <2>1. PICK c \in customers' :
           /\ checkout' = [checkout EXCEPT ![t].pc = "customer", ![t].customer = c]
           /\ checkout[t].loaded # None => c = checkout[t].customer
    BY <1>2, CustomerIsGot
  <2>2. /\ checkout'[t].loaded = checkout[t].loaded /\ checkout'[t].customer = c
        /\ \A u \in Threads \ {t} : checkout'[u] = checkout[u]
    BY <2>1 DEF Types, Checkouts, Ticket
  <2>3. checkout[t].pc # "idle"
    BY <1>2 DEF GetOrCreateCustomer
  <2> QED
    BY <1>2, <2>1, <2>2, <2>3 DEF GetOrCreateCustomer, OneCustomer
<1>3. ASSUME CreateSession(t) \/ CheckoutFails(t) PROVE OneCustomer'
  <2>1. \A u \in Threads : checkout'[u].pc # "idle" =>
           /\ checkout[u].pc # "idle"
           /\ checkout'[u].loaded = checkout[u].loaded
           /\ checkout'[u].customer = checkout[u].customer
    <3>1. CASE CreateSession(t)
      BY <3>1 DEF CreateSession, Types, Checkouts, Ticket
    <3>2. CASE CheckoutFails(t)
      BY <3>2 DEF CheckoutFails, NoCheckout, Types, Checkouts
    <3> QED
      BY <1>3, <3>1, <3>2
  <2> QED
    BY <1>3, <2>1 DEF CreateSession, CheckoutFails, stripe, OneCustomer
<1>4. ASSUME CommitCheckout(t) PROVE OneCustomer'
  <2>1. checkout[t].pc # "idle" /\ checkout[t].loaded = customer /\ checkout[t].customer # None
    BY <1>4, NoneAssumption DEF CommitCheckout, OneCustomer, Types, Checkouts, Rows
  <2>2. customer' = checkout[t].customer
    BY <1>4, <2>1 DEF CommitCheckout
  <2>3. \A u \in Threads : checkout'[u].pc = "idle"
    BY <1>4, <2>1 DEF CommitCheckout, OneCheckoutAtATime, NoCheckout, Types, Checkouts
  <2>4. CASE customer # None
    BY <1>4, <2>1, <2>2, <2>3, <2>4 DEF CommitCheckout, OneCustomer
  <2>5. CASE customer = None
    <3>1. sessions = {} /\ \A s \in Subs : subs[s] = NoSub
      BY <2>5, NoneAssumption DEF OneCustomer, Types, Rows, StripeState, Subscription
    <3>2. \A e \in DOMAIN events : events[e].customer \in Customers
      <4>1. \A e \in DOMAIN events : events[e] \in Event
        BY ElementOfSeq, LenProperties DEF Types, StripeState
      <4> QED
        BY <4>1 DEF Event
    <3>3. DOMAIN events = {}
      BY <2>5, <3>2, NoneAssumption DEF OneCustomer
    <3> QED
      BY <1>4, <2>2, <2>3, <3>1, <3>3 DEF CommitCheckout, OneCustomer
  <2> QED
    BY <2>4, <2>5
<1>5. UNCHANGED hook
  BY DEF Checkout, StartCheckout, GetOrCreateCustomer, CreateSession, CheckoutFails, CommitCheckout
<1> QED
  BY <1>1, <1>2, <1>3, <1>4, <1>5 DEF Checkout, AllKnown

LEMMA SingleWebhook ==
    ASSUME Single, NEW w \in Workers, Webhook(w)
    PROVE  (OneCustomer /\ AllKnown)'
<1> USE DEF Single
<1>1. UNCHANGED <<customer, checkout, sessions, subs, events>>
  BY DEF Webhook, DeliverSeen, DeliverNew, Attribute, CommitFails, Commit, Crash, server, stripe
<1>2. OneCustomer'
  BY <1>1 DEF OneCustomer
<1>3. ASSUME NEW e \in DOMAIN events, DeliverNew(w, e) PROVE AllKnown'
  <2>1. Known(events[e]) = TRUE
    BY DEF Known, OneCustomer
  <2> QED
    BY <1>3, <2>1 DEF DeliverNew, AllKnown, NoHook, Types, Handlers
<1>4. ASSUME Attribute(w) PROVE AllKnown'
  <2>1. Known(events[hook[w].event]) = TRUE
    BY <1>4 DEF Attribute, Known, OneCustomer, Types, Handlers
  <2> QED
    BY <1>4, <2>1 DEF Attribute, AllKnown, Types, Handlers
<1>5. ASSUME CommitFails(w) \/ Commit(w) \/ Crash(w) PROVE AllKnown'
  BY <1>5 DEF CommitFails, Commit, Crash, AllKnown, NoHook, Types, Handlers
<1>6. ASSUME NEW e \in DOMAIN events, DeliverSeen(w, e) PROVE AllKnown'
  BY <1>6 DEF DeliverSeen, server, AllKnown
<1> QED
  BY <1>2, <1>3, <1>4, <1>5, <1>6 DEF Webhook

LEMMA SingleStripe ==
    ASSUME Single, Stripe
    PROVE  (OneCustomer /\ AllKnown)'
<1> USE DEF Single
<1>1. PICK s \in Subs, type \in {"created", "updated", "deleted", "invoice"}, new \in Subscription :
         /\ Changes(s, type, new) /\ sessions' \subseteq sessions
         /\ new.customer \in Payers
  BY StripeChanges
<1>2. new.customer = customer
  BY <1>1 DEF Payers, OneCustomer
<1>3. \A r \in Subs : subs'[r] = IF r = s THEN new ELSE subs[r]
  BY <1>1 DEF Changes, Types, StripeState
<1>4. \A e \in DOMAIN events' : events'[e].customer = customer
  <2>1. events \in Seq(Event)
    BY DEF Types, StripeState
  <2> DEFINE v == [type |-> type, sub |-> s, customer |-> new.customer,
                   price |-> new.price, status |-> new.status]
  <2>2. v \in Event
    BY DEF Event, Subscription, Types, Rows
  <2>3. DOMAIN events' = 1..(Len(events) + 1) /\ Len(events) \in Nat /\ events'[Len(events) + 1] = v
          /\ \A e \in 1..Len(events) : events'[e] = events[e] /\ e \in DOMAIN events
    BY <1>1, <2>1, <2>2, AppendProperties, LenProperties DEF Changes
  <2> QED
    BY <1>2, <2>3 DEF OneCustomer
<1> QED
  BY <1>1, <1>2, <1>3, <1>4 DEF OneCustomer, AllKnown, Changes, server

LEMMA InitSingle == Init => OneCustomer /\ AllKnown
  BY DEF Init, OneCustomer, AllKnown, NoHook, NoCheckout

LEMMA NextSingle == Single /\ OneCheckoutAtATime /\ [Next]_vars => Single'
<1> SUFFICES ASSUME Single, OneCheckoutAtATime, [Next]_vars PROVE (OneCustomer /\ AllKnown)'
  BY NextTypes DEF Single
<1>1. CASE UNCHANGED vars
  BY <1>1 DEF vars, server, stripe, OneCustomer, AllKnown, Single
<1> QED
  BY <1>1, SingleCheckout, SingleWebhook, SingleStripe DEF Next

\* As long as no two checkouts overlap, whoever pays is known: the customer of every live
\* subscription is the one the organization's row names, so no webhook is dropped as a stranger's
\* (get_or_create_stripe_customer, start_checkout).
THEOREM PayerStaysKnown == Spec /\ []OneCheckoutAtATime => []PayerIsKnown
<1>1. Single => PayerIsKnown
  BY DEF Single, OneCustomer, PayerIsKnown, Live, NoSub
<1> QED
  BY <1>1, InitTypes, InitSingle, NextSingle, PTL DEF Spec, Single

LEMMA StepAttributes ==
    ASSUME Single, [Next]_vars, org' # org
    PROVE  \E e \in DOMAIN recorded' \ DOMAIN recorded : recorded'[e]
<1>1. PICK w \in Workers : Commit(w)
  BY DEF Next, Checkout, StartCheckout, GetOrCreateCustomer, CreateSession, CheckoutFails,
         CommitCheckout, Webhook, DeliverSeen, DeliverNew, Attribute, CommitFails, Crash, Stripe,
         CompleteCheckout, ChangePrice, ChangeStatus, Cancel, SendInvoice, Changes, vars, server,
         stripe
<1>2. hook[w].attributed
  BY <1>1 DEF Single, AllKnown, Commit
<1> QED
  BY <1>1, <1>2 DEF Commit, Repeats, Recorded

\* As long as no two checkouts overlap, an event that changes the organization is filed under it:
\* the second look at the customer (_organization_for_customer) finds what the first one found.
THEOREM ChangesStayAttributed == Spec /\ []OneCheckoutAtATime => ChangesAreAttributed
<1>1. Spec /\ []OneCheckoutAtATime => []Single
  BY InitTypes, InitSingle, NextSingle, PTL DEF Spec, Single
<1>2. Single /\ [Next]_vars
        => [org' # org => \E e \in DOMAIN recorded' \ DOMAIN recorded : recorded'[e]]_vars
  BY StepAttributes
<1> QED
  BY <1>1, <1>2, PTL DEF Spec, ChangesAreAttributed

---------------------------------------------------------------------------
(* When, besides, Stripe delivers in order and one subscription is live at a time, what is       *)
(* recorded is a prefix of the events and the organization shows the last of them.               *)

\* What event e told of the subscription is what the organization's columns say.
Shows(e) ==
    IF events[e].type = "deleted" THEN org.plan = "free" /\ org.sub = None
    ELSE /\ org.sub = events[e].sub
         /\ org.status = events[e].status
         /\ PlanForPrice[events[e].price] \in {None, org.plan}

InTurn ==
    /\ \A w \in Workers : hook[w].pc # "idle" =>
         /\ 1..(hook[w].event - 1) \subseteq DOMAIN recorded
         /\ hook[w].event \notin DOMAIN recorded => hook[w].loaded = org
    /\ \A e \in DOMAIN recorded : 1..(e - 1) \subseteq DOMAIN recorded

LastShown ==
    /\ DOMAIN recorded = {} => org.plan = "free" /\ org.sub = None
    /\ \A e \in DOMAIN recorded : e + 1 \notin DOMAIN recorded => Shows(e)

\* An invoice repeats what the event before it told, and that one was no deletion.
InvoicesRepeat ==
    \A e \in DOMAIN events : events[e].type = "invoice" =>
       /\ e - 1 \in DOMAIN events
       /\ events[e - 1].type # "deleted"
       /\ events[e - 1].sub = events[e].sub
       /\ events[e - 1].status = events[e].status
       /\ events[e - 1].price = events[e].price

LastTold ==
    IF events = <<>> \/ events[Len(events)].type = "deleted" THEN Live = {}
    ELSE LET last == events[Len(events)] IN
         /\ Live = {last.sub}
         /\ subs[last.sub].status = last.status
         /\ subs[last.sub].price = last.price

Mirrored == InTurn /\ LastShown /\ InvoicesRepeat /\ LastTold

LEMMA InitMirrored == Init => Mirrored
  BY DEF Init, Mirrored, InTurn, LastShown, InvoicesRepeat, LastTold, Live, NoHook, NoSub

\* The steps that touch nothing Mirrored looks at.
LEMMA MirroredStutters ==
    ASSUME Mirrored, UNCHANGED <<org, recorded, hook, subs, events>>
    PROVE  Mirrored'
  BY DEF Mirrored, InTurn, LastShown, Shows, InvoicesRepeat, LastTold, Live

---------------------------------------------------------------------------
LEMMA ChangesAppends ==
    ASSUME Types, NEW s \in Subs, NEW new \in Subscription,
           NEW type \in {"created", "updated", "deleted", "invoice"}, Changes(s, type, new)
    PROVE  /\ Len(events) \in Nat /\ DOMAIN events = 1..Len(events)
           /\ events = <<>> <=> Len(events) = 0
           /\ Len(events') = Len(events) + 1 /\ DOMAIN events' = 1..(Len(events) + 1)
           /\ events' # <<>>
           /\ events'[Len(events) + 1] = [type |-> type, sub |-> s, customer |-> new.customer,
                                          price |-> new.price, status |-> new.status]
           /\ \A e \in 1..Len(events) : events'[e] = events[e]
<1> DEFINE v == [type |-> type, sub |-> s, customer |-> new.customer,
                 price |-> new.price, status |-> new.status]
<1>1. v \in Event /\ events \in Seq(Event)
  BY DEF Event, Subscription, Types, Rows, StripeState
<1>2. /\ Len(events) \in Nat /\ DOMAIN events = 1..Len(events)
      /\ events = <<>> <=> Len(events) = 0
  BY <1>1, LenProperties, EmptySeq
<1>3. events' \in Seq(Event) /\ Len(events') = Len(events) + 1 /\ events'[Len(events) + 1] = v
        /\ \A e \in 1..Len(events) : events'[e] = events[e]
  BY <1>1, AppendProperties DEF Changes
<1>4. DOMAIN events' = 1..(Len(events) + 1) /\ events' # <<>>
  BY <1>2, <1>3, LenProperties, EmptySeq
<1> QED
  BY <1>2, <1>3, <1>4

LEMMA MirroredStripe ==
    ASSUME OneLive, Types, Mirrored, Stripe
    PROVE  Mirrored'
<1> DEFINE n == Len(events)
           last == events[n]
<1>1. \A s \in Live : s \in Subs /\ subs[s] \in Subscription
  BY DEF Types, StripeState, Live, NoSub
\* One subscription at most is live; the last event tells of it.
<1>2. \A s \in Live : /\ n # 0 /\ last.type # "deleted" /\ Live = {s} /\ last.sub = s
                      /\ last.status = subs[s].status /\ last.price = subs[s].price
  <2>1. n = 0 => events = <<>>
    BY EmptySeq DEF Types, StripeState
  <2> QED
    BY <2>1 DEF Mirrored, LastTold
\* What any change leaves as it was.
<1>3. ASSUME NEW s \in Subs, NEW new \in Subscription,
             NEW type \in {"created", "updated", "deleted", "invoice"}, Changes(s, type, new),
             Live \subseteq {s},
             type = "deleted" <=> new.status = "canceled",
             type = "invoice" => s \in Live /\ new = subs[s]
      PROVE  Mirrored'
  <2>1. /\ n \in Nat /\ DOMAIN events = 1..n /\ (events = <<>> <=> n = 0)
        /\ Len(events') = n + 1 /\ DOMAIN events' = 1..(n + 1) /\ events' # <<>>
        /\ events'[n + 1] = [type |-> type, sub |-> s, customer |-> new.customer,
                             price |-> new.price, status |-> new.status]
        /\ \A e \in 1..n : events'[e] = events[e]
        /\ \A r \in Subs : subs'[r] = IF r = s THEN new ELSE subs[r]
    <3>1. \A r \in Subs : subs'[r] = IF r = s THEN new ELSE subs[r]
      BY <1>3 DEF Changes, Types, StripeState
    <3> QED
      BY <1>3, <3>1, ChangesAppends
  <2>2. InTurn'
    BY <1>3 DEF Changes, server, Mirrored, InTurn
  <2>3. LastShown'
    BY <1>3, <2>1 DEF Changes, server, Mirrored, LastShown, Shows, Types, Trail
  <2>4. InvoicesRepeat'
    <3> SUFFICES ASSUME NEW e \in 1..(n + 1), events'[e].type = "invoice"
                 PROVE  /\ e - 1 \in 1..(n + 1)
                        /\ events'[e - 1].type # "deleted"
                        /\ events'[e - 1].sub = events'[e].sub
                        /\ events'[e - 1].status = events'[e].status
                        /\ events'[e - 1].price = events'[e].price
      BY <2>1 DEF InvoicesRepeat
    <3>1. CASE e = n + 1
      <4>1. type = "invoice" /\ s \in Live /\ new = subs[s] /\ events'[e].sub = s
              /\ events'[e].status = subs[s].status /\ events'[e].price = subs[s].price
        BY <1>3, <2>1, <3>1
      <4>2. n \in 1..n /\ e - 1 = n /\ events'[n] = last
        BY <1>2, <2>1, <3>1, <4>1
      <4> QED
        BY <1>2, <4>1, <4>2
    <3>2. CASE e # n + 1
      <4>1. e \in 1..n /\ events'[e] = events[e]
        BY <2>1, <3>2
      <4>2. e - 1 \in 1..n /\ events'[e - 1] = events[e - 1]
        BY <2>1, <4>1 DEF Mirrored, InvoicesRepeat
      <4>3. /\ events[e - 1].type # "deleted"
            /\ events[e - 1].sub = events[e].sub
            /\ events[e - 1].status = events[e].status
            /\ events[e - 1].price = events[e].price
        BY <2>1, <4>1 DEF Mirrored, InvoicesRepeat
      <4>4. e - 1 \in 1..(n + 1)
        BY <2>1, <4>2
      <4> QED
        BY <4>1, <4>2, <4>3, <4>4
    <3> QED
      BY <3>1, <3>2
  <2>5. LastTold'
    <3>1. \A r \in Subs \ {s} : subs'[r].status \notin {"active", "past_due"}
      BY <1>3, <2>1 DEF Live
    <3>2. subs'[s] = new /\ new.status \in {"active", "past_due", "canceled"}
      BY <2>1 DEF Subscription
    <3>3. Live' = IF type = "deleted" THEN {} ELSE {s}
      BY <1>3, <3>1, <3>2 DEF Live
    <3> QED
      BY <2>1, <3>2, <3>3 DEF LastTold
  <2> QED
    BY <2>2, <2>3, <2>4, <2>5 DEF Mirrored
<1>4. ASSUME NEW session \in sessions, NEW s \in Subs, CompleteCheckout(session, s) PROVE Mirrored'
  <2> DEFINE new == [customer |-> session.customer, price |-> session.price, status |-> "active"]
  <2>1. new \in Subscription
    BY DEF Types, StripeState, Subscription
  <2> QED
    BY <1>3, <1>4, <2>1 DEF CompleteCheckout
<1>5. ASSUME NEW s \in Subs, NEW price \in Prices, ChangePrice(s, price) PROVE Mirrored'
  <2> DEFINE new == [subs[s] EXCEPT !.price = price]
  <2>1. s \in Live /\ Live = {s} /\ new \in Subscription /\ new.status # "canceled"
    BY <1>1, <1>2, <1>5 DEF ChangePrice, Subscription, Live
  <2> QED
    BY <1>3, <1>5, <2>1 DEF ChangePrice
<1>6. ASSUME NEW s \in Subs, NEW status \in {"active", "past_due"}, ChangeStatus(s, status)
      PROVE  Mirrored'
  <2> DEFINE new == [subs[s] EXCEPT !.status = status]
  <2>1. s \in Live /\ Live = {s} /\ new \in Subscription /\ new.status # "canceled"
    BY <1>1, <1>2, <1>6 DEF ChangeStatus, Subscription, Live
  <2> QED
    BY <1>3, <1>6, <2>1 DEF ChangeStatus
<1>7. ASSUME NEW s \in Subs, Cancel(s) PROVE Mirrored'
  <2> DEFINE new == [subs[s] EXCEPT !.status = "canceled"]
  <2>1. s \in Live /\ Live = {s} /\ new \in Subscription /\ new.status = "canceled"
    BY <1>1, <1>2, <1>7 DEF Cancel, Subscription
  <2> QED
    BY <1>3, <1>7, <2>1 DEF Cancel
<1>8. ASSUME NEW s \in Subs, SendInvoice(s) PROVE Mirrored'
  <2>1. s \in Live /\ Live = {s} /\ subs[s] \in Subscription /\ subs[s].status # "canceled"
    BY <1>1, <1>2, <1>8 DEF SendInvoice, Live
  <2> QED
    BY <1>3, <1>8, <2>1 DEF SendInvoice
<1> QED
  BY <1>4, <1>5, <1>6, <1>7, <1>8 DEF Stripe

LEMMA MirroredCommit ==
    ASSUME Single, Mirrored, NEW w \in Workers, Commit(w), NEW e, e = hook[w].event
    PROVE  Mirrored'
<1> DEFINE new == Applied(events[e], org)
<1>1. /\ e \in DOMAIN events /\ e \notin DOMAIN recorded /\ hook[w].loaded = org /\ hook[w].known
      /\ 1..(e - 1) \subseteq DOMAIN recorded
  BY DEF Commit, Repeats, Single, AllKnown, Types, Handlers, Mirrored, InTurn
<1>2. /\ DOMAIN events = 1..Len(events) /\ Len(events) \in Nat /\ e \in Nat /\ e >= 1
      /\ events[e] \in Event
  BY <1>1, ElementOfSeq, LenProperties DEF Single, Types, StripeState
<1>3. DOMAIN recorded = 1..(e - 1)
  <2>1. \A f \in DOMAIN recorded : f \in Nat /\ f >= 1 /\ e \notin 1..(f - 1)
    BY <1>1, <1>2 DEF Mirrored, InTurn, Single, Types, Trail
  <2>2. \A f \in DOMAIN recorded : f < e
    BY <1>1, <1>2, <2>1
  <2>3. DOMAIN recorded \subseteq 1..(e - 1)
    BY <1>2, <2>1, <2>2
  <2> QED
    BY <1>1, <2>3
<1>4. DOMAIN recorded' = 1..e
  <2>1. DOMAIN recorded' = DOMAIN recorded \cup {e}
    BY DEF Commit, Recorded
  <2> QED
    BY <1>2, <1>3, <2>1
<1>5. org' = new
  <2>1. org \in Columns /\ new \in Columns
    BY <1>2, AppliedIsARow DEF Single, Types, Rows
  <2>2. Merged(org, new) = new
    BY <2>1, MergedWithTheRowItself
  <2> QED
    BY <1>1, <2>2 DEF Commit
<1>6. UNCHANGED <<events, subs>> /\ \A v \in Workers : hook'[v].pc # "idle" => hook'[v] = hook[v]
  BY DEF Commit, NoHook, Single, Types, Handlers
<1>7. InTurn'
  <2>1. ASSUME NEW v \in Workers, hook'[v].pc # "idle"
        PROVE  /\ 1..(hook'[v].event - 1) \subseteq DOMAIN recorded'
               /\ hook'[v].event \notin DOMAIN recorded' => hook'[v].loaded = org'
    <3> DEFINE f == hook[v].event
    <3>1. hook'[v] = hook[v] /\ f \in 1..Len(events) /\ 1..(f - 1) \subseteq 1..(e - 1)
      BY <1>2, <1>3, <1>6, <2>1 DEF Single, Types, Handlers, Mirrored, InTurn
    <3>2. f <= e
      BY <1>2, <3>1
    <3> QED
      BY <1>2, <1>4, <3>1, <3>2
  <2>2. \A f \in DOMAIN recorded' : 1..(f - 1) \subseteq DOMAIN recorded'
    BY <1>2, <1>4
  <2> QED
    BY <2>1, <2>2 DEF InTurn
<1>8. Shows(e)'
  <2>1. CASE events[e].type \in {"created", "updated"}
    <3>1. org' = [plan |-> IF PlanForPrice[events[e].price] # None THEN PlanForPrice[events[e].price]
                           ELSE org.plan,
                  status |-> events[e].status, sub |-> events[e].sub]
      BY <1>5, <2>1 DEF Applied
    <3> QED
      BY <1>6, <2>1, <3>1 DEF Shows
  <2>2. CASE events[e].type = "deleted"
    BY <1>5, <1>6, <2>2 DEF Applied, Shows
  <2>3. CASE events[e].type = "invoice"
    <3>1. org' = org
      BY <1>5, <2>3 DEF Applied
    <3>2. e - 1 \in DOMAIN recorded /\ (e - 1) + 1 \notin DOMAIN recorded
      BY <1>1, <1>2, <1>3, <2>3 DEF Mirrored, InvoicesRepeat
    <3>3. Shows(e - 1)
      BY <3>2 DEF Mirrored, LastShown
    <3>4. /\ events[e - 1].type # "deleted"
          /\ events[e - 1].sub = events[e].sub
          /\ events[e - 1].status = events[e].status
          /\ events[e - 1].price = events[e].price
      BY <1>1, <2>3 DEF Mirrored, InvoicesRepeat
    <3>5. Shows(e)
      BY <2>3, <3>3, <3>4 DEF Shows
    <3> QED
      BY <1>6, <3>1, <3>5 DEF Shows
  <2> QED
    BY <1>2, <2>1, <2>2, <2>3 DEF Event
<1>9. LastShown'
  <2>1. \A f \in DOMAIN recorded' : f + 1 \notin DOMAIN recorded' => f = e
    BY <1>2, <1>4
  <2>2. DOMAIN recorded' # {}
    BY <1>2, <1>4
  <2> QED
    BY <1>8, <2>1, <2>2 DEF LastShown
<1>10. InvoicesRepeat' /\ LastTold'
  BY <1>6 DEF Mirrored, InvoicesRepeat, LastTold, Live
<1> QED
  BY <1>7, <1>9, <1>10 DEF Mirrored

LEMMA MirroredWebhook ==
    ASSUME InOrder, Single, Mirrored, NEW w \in Workers, Webhook(w)
    PROVE  Mirrored'
<1>1. ASSUME NEW e \in DOMAIN events, DeliverSeen(w, e) PROVE Mirrored'
  BY <1>1, MirroredStutters DEF DeliverSeen, server
<1>2. ASSUME ~Commit(w), Webhook(w), UNCHANGED <<org, recorded, subs, events>>, InTurn'
      PROVE  Mirrored'
  BY <1>2 DEF Mirrored, LastShown, Shows, InvoicesRepeat, LastTold, Live
<1>3. ASSUME NEW e \in DOMAIN events, DeliverNew(w, e) PROVE Mirrored'
  <2>1. 1..(e - 1) \subseteq DOMAIN recorded
    BY <1>3 DEF DeliverNew, Deliverable, Single, Types, Trail
  <2>2. \A v \in Workers : v # w => hook'[v] = hook[v]
    BY <1>3 DEF DeliverNew, Single, Types, Handlers
  <2>3. hook'[w].event = e /\ hook'[w].loaded = org
    BY <1>3 DEF DeliverNew, Single, Types, Handlers, NoHook
  <2>4. InTurn'
    BY <1>3, <2>1, <2>2, <2>3 DEF DeliverNew, Mirrored, InTurn
  <2> QED
    BY <1>3, <2>4 DEF DeliverNew, stripe, Mirrored, LastShown, Shows, InvoicesRepeat, LastTold, Live
<1>4. ASSUME Attribute(w) \/ CommitFails(w) \/ Crash(w) PROVE Mirrored'
  <2>1. \A v \in Workers : hook'[v].pc # "idle" =>
           hook[v].pc # "idle" /\ hook'[v].event = hook[v].event /\ hook'[v].loaded = hook[v].loaded
    <3>1. CASE Attribute(w)
      BY <3>1 DEF Attribute, Single, Types, Handlers, Hook
    <3>2. CASE CommitFails(w) \/ Crash(w)
      BY <3>2 DEF CommitFails, Crash, NoHook, Single, Types, Handlers
    <3> QED
      BY <1>4, <3>1, <3>2
  <2>2. UNCHANGED <<org, recorded, subs, events>>
    BY <1>4 DEF Attribute, CommitFails, Crash, stripe
  <2>3. InTurn'
    BY <2>1, <2>2 DEF Mirrored, InTurn
  <2> QED
    BY <2>2, <2>3 DEF Mirrored, LastShown, Shows, InvoicesRepeat, LastTold, Live
<1> QED
  BY <1>1, <1>3, <1>4, MirroredCommit DEF Webhook

LEMMA NextMirrored ==
    ASSUME InOrder, OneLive
    PROVE  Single /\ Mirrored /\ [Next]_vars => Mirrored'
<1> SUFFICES ASSUME Single, Mirrored, [Next]_vars PROVE Mirrored'
  OBVIOUS
<1>1. ASSUME NEW t \in Threads, Checkout(t) PROVE Mirrored'
  BY <1>1, MirroredStutters DEF Checkout, StartCheckout, GetOrCreateCustomer, CreateSession,
     CheckoutFails, CommitCheckout, stripe
<1>2. CASE UNCHANGED vars
  BY <1>2, MirroredStutters DEF vars, server, stripe
<1> QED
  BY <1>1, <1>2, MirroredWebhook, MirroredStripe DEF Next, Single

LEMMA MirroredIsInSync == ASSUME Types, Mirrored PROVE InSync
<1> SUFFICES ASSUME AllRecorded
             PROVE  IF Live = {} THEN org.plan = "free" /\ org.sub = None
                    ELSE \E s \in Live : /\ org.sub = s
                                         /\ org.status = subs[s].status
                                         /\ PlanForPrice[subs[s].price] \in {None, org.plan}
  BY DEF InSync
<1> DEFINE n == Len(events)
<1>1. n \in Nat /\ DOMAIN recorded = 1..n /\ (events = <<>> <=> n = 0)
  BY LenProperties, EmptySeq DEF AllRecorded, Types, StripeState
<1>2. CASE n = 0
  BY <1>1, <1>2 DEF Mirrored, LastShown, LastTold
<1>3. CASE n # 0
  <2>1. n \in DOMAIN recorded /\ n + 1 \notin DOMAIN recorded
    BY <1>1, <1>3
  <2>2. Shows(n)
    BY <2>1 DEF Mirrored, LastShown
  <2> QED
    BY <1>1, <1>3, <2>2 DEF Mirrored, LastTold, Shows
<1> QED
  BY <1>2, <1>3

\* When Stripe delivers in order, an organization has one live subscription at a time and no two
\* checkouts overlap, any number of server processes keep the organization in step: with every
\* event recorded it shows Stripe's subscription, and free when there is none
\* (_apply_webhook_event).  Each hypothesis is needed: MCBillingReordered breaks the first.
THEOREM OrganizationInSync ==
    ASSUME InOrder, OneLive
    PROVE  Spec /\ []OneCheckoutAtATime => []InSync
<1>1. Spec /\ []OneCheckoutAtATime => []Single
  BY InitTypes, InitSingle, NextSingle, PTL DEF Spec, Single
<1>2. Single /\ Mirrored /\ [Next]_vars => Mirrored'
  BY NextMirrored
<1>3. Single /\ Mirrored => InSync
  BY MirroredIsInSync DEF Single
<1> QED
  BY <1>1, <1>2, <1>3, InitMirrored, PTL DEF Spec
=============================================================================
