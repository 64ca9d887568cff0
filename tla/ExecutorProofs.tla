---------------------------- MODULE ExecutorProofs ----------------------------
(***************************************************************************)
(* What one call of Execute never does to the position, for every number   *)
(* of retries, size of the legs and combination of faults.                 *)
(***************************************************************************)
EXTENDS Executor, SumTheorems

Sending   == {"send", "poll", "cancel"}

\* What an order adds to the lots bought or sold for a leg, and what it may
\* still come to buy.
BoughtBy(l)    == [o \in Order |-> IF o.leg = l /\ o.reduceOnly = FALSE THEN o.filled ELSE 0]
SoldBy(l)      == [o \in Order |-> IF o.leg = l /\ o.reduceOnly = TRUE THEN o.filled ELSE 0]
Share(o)       == IF o.open THEN o.qty ELSE o.filled
CommittedBy(l) == [o \in Order |-> IF o.leg = l /\ o.reduceOnly = FALSE THEN Share(o) ELSE 0]

Bought(l)    == Summed(BoughtBy(l), orders)
Sold(l)      == Summed(SoldBy(l), orders)
Committed(l) == Summed(CommittedBy(l), orders)

WellFormedOrder(o) ==
  /\ o.filled <= o.qty
  /\ o.open => o.filled < o.qty /\ ~o.reduceOnly
  /\ o.reduceOnly => o.leg = 1

WellFormed == \A n \in DOMAIN orders : WellFormedOrder(orders[n])

\* The order being followed is the one Execute sent last for the leg.
Following ==
  /\ result[1].partial => result[1].qty \in 1..Lots
  /\ pc \in Sending => target[leg] > 0
  /\ pc \in {"poll", "cancel"} =>
       /\ current \in DOMAIN orders
       /\ orders[current].leg = leg /\ ~orders[current].reduceOnly
       /\ orders[current].qty = target[leg] /\ orders[current].type = OrderType
  /\ pc = "unwindPoll" => current \in DOMAIN orders /\ orders[current].reduceOnly
  /\ pc \in {"unwind", "unwindPoll"} => leg = 2

NotSoldShort == Sold(2) = 0 /\ Sold(1) <= Bought(1)

\* While no answer is lost or late, a leg is asked for once at a time.
AskedOnce ==
  faults \subseteq {"partial"} =>
    /\ \A l \in Legs :
         /\ Committed(l) <= target[l]
         /\ l > leg => Committed(l) = 0
         /\ l = leg /\ pc \in {"leg", "send"} => Committed(l) = 0
         /\ l = leg /\ pc \in {"poll", "cancel"} => Committed(l) = Share(orders[current])
    /\ pc = "poll" /\ orders[current].type = "LIMIT" /\ ~orders[current].open =>
         orders[current].filled = orders[current].qty
    /\ pc = "cancel" /\ orders[current].type = "LIMIT" => orders[current].filled = 0

\* On an exchange that answers and fills orders whole.
Balanced ==
  faults = {} =>
    /\ \A n \in DOMAIN orders : orders[n].open => n = current /\ pc \in {"poll", "cancel"}
    /\ pc = "poll" => orders[current].filled \in {0, orders[current].qty}
    /\ pc = "cancel" => orders[current].filled = 0
    /\ ~result[1].partial
    /\ pc \in Sending => target[leg] = Lots
    /\ pc \notin {"done", "unwindPoll"} => Sold(1) = 0
    /\ pc # "done" /\ leg = 2 => result[1].qty = Lots /\ Bought(1) = Lots /\ Committed(1) = Lots
    /\ pc = "unwindPoll" => Sold(1) = Lots /\ orders[current].filled = orders[current].qty
    /\ pc \in {"failed", "unwind", "unwindPoll"} => \A l \in Legs : l = leg => Committed(l) = 0
    /\ pc = "done" => Committed(1) - Sold(1) = Committed(2) \/ Alarmed
    /\ \A l \in Legs : pc \notin {"poll", "cancel"} \/ l # leg => Committed(l) = Bought(l)
    /\ \A l \in Legs : pc \in {"poll", "cancel"} /\ l = leg => Bought(l) = orders[current].filled

IInv == TypeOK /\ WellFormed /\ Following /\ NotSoldShort /\ AskedOnce /\ Balanced

-----------------------------------------------------------------------------
\* What an order adds to a sum is a number.
LEMMA Weights ==
  ASSUME NEW l
  PROVE  /\ BoughtBy(l) \in [Order -> Int] /\ SoldBy(l) \in [Order -> Int]
         /\ CommittedBy(l) \in [Order -> Int]
BY DEF BoughtBy, SoldBy, CommittedBy, Share, Order

\* The sums are numbers, and never is more bought than has been committed to.
LEMMA SumsTyped ==
  ASSUME orders \in Seq(Order), NEW l
  PROVE  /\ Bought(l) \in Int /\ Sold(l) \in Int /\ Committed(l) \in Int
         /\ Sold(l) >= 0
         /\ WellFormed => Bought(l) <= Committed(l)
<1>1. Bought(l) \in Int /\ Sold(l) \in Int /\ Committed(l) \in Int
  BY Weights, SummedInt DEF Bought, Sold, Committed
<1>2. \A n \in DOMAIN orders : orders[n] \in Order
  BY SeqIndices
<1>3. Sold(l) >= 0
  <2>1. \A n \in DOMAIN orders : SoldBy(l)[orders[n]] >= 0
    BY <1>2 DEF SoldBy, Order
  <2> QED
    BY <2>1, Weights, SummedNonNegative DEF Sold
<1>4. ASSUME WellFormed PROVE Bought(l) <= Committed(l)
  <2>1. \A n \in DOMAIN orders : BoughtBy(l)[orders[n]] <= CommittedBy(l)[orders[n]]
    <3>1. SUFFICES ASSUME NEW n \in DOMAIN orders
                   PROVE  BoughtBy(l)[orders[n]] <= CommittedBy(l)[orders[n]]
      OBVIOUS
    <3>2. orders[n] \in Order /\ orders[n].filled <= orders[n].qty
      BY <1>2, <1>4 DEF WellFormed, WellFormedOrder
    <3> QED
      BY <3>2 DEF BoughtBy, CommittedBy, Share, Order
  <2> QED
    BY <2>1, Weights, SummedLeq DEF Bought, Committed
<1> QED
  BY <1>1, <1>3, <1>4

\* What is held of a leg is what was bought less what was sold of it.
LEMMA HeldIs ==
  ASSUME orders \in Seq(Order), NEW l \in Legs
  PROVE  Held(l) = Bought(l) - Sold(l)
<1>1. \A n \in DOMAIN orders : orders[n] \in Order
  BY SeqIndices
<1>2. SumOf(l, FALSE) = Bought(l)
  <2>1. [n \in DOMAIN orders |-> IF orders[n].leg = l /\ orders[n].reduceOnly = FALSE
                                 THEN orders[n].filled ELSE 0]
        = [n \in DOMAIN orders |-> BoughtBy(l)[orders[n]]]
    BY <1>1 DEF BoughtBy
  <2> QED
    BY <2>1 DEF SumOf, Bought, Summed
<1>3. SumOf(l, TRUE) = Sold(l)
  <2>1. [n \in DOMAIN orders |-> IF orders[n].leg = l /\ orders[n].reduceOnly = TRUE
                                 THEN orders[n].filled ELSE 0]
        = [n \in DOMAIN orders |-> SoldBy(l)[orders[n]]]
    BY <1>1 DEF SoldBy
  <2> QED
    BY <2>1 DEF SumOf, Sold, Summed
<1> QED
  BY <1>2, <1>3 DEF Held

\* A new order adds its own share to every sum.
LEMMA OrderAppended ==
  ASSUME orders \in Seq(Order), NEW o \in Order, orders' = Append(orders, o)
  PROVE  /\ orders' \in Seq(Order)
         /\ Len(orders) \in Nat /\ Len(orders') = Len(orders) + 1
         /\ DOMAIN orders' = DOMAIN orders \cup {Len(orders) + 1}
         /\ orders'[Len(orders) + 1] = o
         /\ \A n \in DOMAIN orders : orders'[n] = orders[n]
         /\ \A l \in Legs : /\ Bought(l)' = Bought(l) + BoughtBy(l)[o]
                            /\ Sold(l)' = Sold(l) + SoldBy(l)[o]
                            /\ Committed(l)' = Committed(l) + CommittedBy(l)[o]
<1>1. ASSUME NEW l \in Legs
      PROVE  /\ Bought(l)' = Bought(l) + BoughtBy(l)[o]
             /\ Sold(l)' = Sold(l) + SoldBy(l)[o]
             /\ Committed(l)' = Committed(l) + CommittedBy(l)[o]
  <2>1. Summed(BoughtBy(l), Append(orders, o)) = Summed(BoughtBy(l), orders) + BoughtBy(l)[o]
    BY Weights, SummedAppend
  <2>2. Summed(SoldBy(l), Append(orders, o)) = Summed(SoldBy(l), orders) + SoldBy(l)[o]
    BY Weights, SummedAppend
  <2>3. Summed(CommittedBy(l), Append(orders, o))
          = Summed(CommittedBy(l), orders) + CommittedBy(l)[o]
    BY Weights, SummedAppend
  <2> QED
    BY <2>1, <2>2, <2>3 DEF Bought, Sold, Committed
<1>2. Len(orders) \in Nat /\ DOMAIN orders = 1..Len(orders)
  OBVIOUS
<1>3. /\ orders' \in Seq(Order) /\ Len(orders') = Len(orders) + 1
      /\ DOMAIN orders' = 1..(Len(orders) + 1)
      /\ orders'[Len(orders) + 1] = o
      /\ \A n \in DOMAIN orders : orders'[n] = orders[n]
  OBVIOUS
<1>4. DOMAIN orders' = DOMAIN orders \cup {Len(orders) + 1}
  BY <1>2, <1>3
<1> QED
  BY <1>1, <1>2, <1>3, <1>4

\* An order that changes exchanges its old share for its new one.
LEMMA OrderReplaced ==
  ASSUME orders \in Seq(Order), orders' \in Seq(Order), Len(orders') = Len(orders),
         NEW m \in 1..Len(orders), \A n \in 1..Len(orders) : n # m => orders'[n] = orders[n],
         NEW l
  PROVE  /\ Bought(l)' = Bought(l) - BoughtBy(l)[orders[m]] + BoughtBy(l)[orders'[m]]
         /\ Sold(l)' = Sold(l) - SoldBy(l)[orders[m]] + SoldBy(l)[orders'[m]]
         /\ Committed(l)' = Committed(l) - CommittedBy(l)[orders[m]]
                              + CommittedBy(l)[orders'[m]]
<1>0. /\ BoughtBy(l) \in [Order -> Int] /\ SoldBy(l) \in [Order -> Int]
      /\ CommittedBy(l) \in [Order -> Int]
  BY Weights
<1>1. \A w \in [Order -> Int] :
        Summed(w, orders') = Summed(w, orders) - w[orders[m]] + w[orders'[m]]
  BY SummedReplaced
<1>2. /\ Summed(BoughtBy(l), orders')
           = Summed(BoughtBy(l), orders) - BoughtBy(l)[orders[m]] + BoughtBy(l)[orders'[m]]
      /\ Summed(SoldBy(l), orders')
           = Summed(SoldBy(l), orders) - SoldBy(l)[orders[m]] + SoldBy(l)[orders'[m]]
      /\ Summed(CommittedBy(l), orders')
           = Summed(CommittedBy(l), orders) - CommittedBy(l)[orders[m]]
             + CommittedBy(l)[orders'[m]]
  BY <1>0, <1>1, Zenon
<1> QED
  BY <1>2 DEF Bought, Sold, Committed

-----------------------------------------------------------------------------
(* What a step does to the orders of the exchange.                         *)

LegOrder(k) == [leg |-> leg, type |-> OrderType, reduceOnly |-> FALSE,
                qty |-> target[leg], filled |-> k, open |-> OrderType = "LIMIT"]

UnwindOrder(k) == [leg |-> 1, type |-> "MARKET", reduceOnly |-> TRUE,
                   qty |-> result[1].qty, filled |-> k, open |-> FALSE]

\* A part is less than the whole; a faultless exchange fills no parts.
LEMMA PartsSmall ==
  ASSUME NEW m \in Int
  PROVE  /\ \A k \in PartsBelow(m) : k \in Nat /\ k > 0 /\ k < m
         /\ faults = {} => PartsBelow(m) = {}
<1>1. \A k \in PartsBelow(m) : k \in Parts /\ k < m /\ "partial" \in faults
  BY DEF PartsBelow
<1>2. \A k \in Parts : k \in Nat /\ k > 0
  BY ExecutorAssumption
<1> QED
  BY <1>1, <1>2

\* What is sent for a leg is an order for its target, filled no further.
\* A limit order is not filled on acceptance.
LEMMA LegOrderSent ==
  ASSUME TypeOK, Following, pc = "send",
         NEW k \in FillsOnAcceptance(OrderType, FALSE, leg, target[leg])
  PROVE  /\ LegOrder(k) \in Order /\ WellFormedOrder(LegOrder(k))
         /\ OrderType \in {"LIMIT", "IOC"}
         /\ OrderType = "LIMIT" => k = 0
         /\ k \in Nat /\ k <= target[leg]
         /\ faults = {} => k \in {0, target[leg]}
<1>1. target[leg] \in 1..Lots /\ leg \in Legs
  BY DEF TypeOK, Following, Sending, Legs
<1>2. OrderType \in {"LIMIT", "IOC"} /\ OrderType # "MARKET"
  BY DEF OrderType
<1>3. /\ \A m \in PartsBelow(target[leg]) : m \in Nat /\ m > 0 /\ m < target[leg]
      /\ faults = {} => PartsBelow(target[leg]) = {}
  BY <1>1, PartsSmall, ExecutorAssumption
<1>4. \/ OrderType = "LIMIT" /\ k = 0
      \/ OrderType = "IOC" /\ k \in {0, target[leg]} \cup PartsBelow(target[leg])
  BY <1>2 DEF FillsOnAcceptance
<1>5. /\ k \in Nat /\ k <= target[leg] /\ (faults = {} => k \in {0, target[leg]})
      /\ OrderType = "LIMIT" => k = 0
  <2>1. CASE OrderType = "LIMIT" /\ k = 0
    BY <1>1, <2>1, ExecutorAssumption
  <2>2. CASE OrderType = "IOC" /\ k \in {0, target[leg]} \cup PartsBelow(target[leg])
    BY <1>1, <1>3, <2>2, ExecutorAssumption
  <2> QED
    BY <1>4, <2>1, <2>2
<1>6. LegOrder(k) \in Order
  BY <1>1, <1>2, <1>5, ExecutorAssumption DEF LegOrder, Order
<1>7. WellFormedOrder(LegOrder(k))
  <2>1. /\ LegOrder(k).filled = k /\ LegOrder(k).qty = target[leg]
        /\ ~LegOrder(k).reduceOnly /\ (LegOrder(k).open <=> OrderType = "LIMIT")
    BY DEF LegOrder
  <2> QED
    BY <1>1, <1>5, <2>1, ExecutorAssumption DEF WellFormedOrder
<1> QED
  BY <1>2, <1>5, <1>6, <1>7

\* An unwind is a reducing order: it sells no more than is held.
LEMMA UnwindOrderSent ==
  ASSUME TypeOK, NotSoldShort, NEW k \in UnwindFills
  PROVE  /\ UnwindOrder(k) \in Order /\ WellFormedOrder(UnwindOrder(k))
         /\ k \in Nat /\ k <= Held(1) /\ k <= result[1].qty
         /\ faults = {} => k = Lower(result[1].qty, Held(1))
<1>1. result[1].qty \in Nat /\ Held(1) \in Nat
  <2>1. result[1].qty \in Nat
    BY DEF TypeOK, Result, Legs
  <2>2. Held(1) = Bought(1) - Sold(1) /\ Bought(1) \in Int /\ Sold(1) \in Int
    BY HeldIs, SumsTyped DEF TypeOK, Legs
  <2> QED
    BY <2>1, <2>2 DEF NotSoldShort
<1> DEFINE most == Lower(result[1].qty, Held(1))
<1>2. most \in Nat /\ most <= Held(1) /\ most <= result[1].qty
  BY <1>1 DEF Lower
<1>3. /\ \A m \in PartsBelow(most) : m \in Nat /\ m > 0 /\ m < most
      /\ faults = {} => PartsBelow(most) = {}
  BY <1>2, PartsSmall
<1>4. k \in {most} \cup PartsBelow(most)
  BY DEF UnwindFills, FillsOnAcceptance, ReduceOnly
<1>5. k \in Nat /\ k <= most /\ (faults = {} => k = most)
  <2> HIDE DEF most
  <2> QED
    BY <1>2, <1>3, <1>4
<1>6. UnwindOrder(k) \in Order
  BY <1>1, <1>5 DEF UnwindOrder, Order, Legs
<1>7. WellFormedOrder(UnwindOrder(k))
  <2> HIDE DEF most
  <2> QED
    BY <1>1, <1>2, <1>5 DEF UnwindOrder, WellFormedOrder
<1> QED
  <2> HIDE DEF most
  <2>1. k \in Nat /\ k <= Held(1) /\ k <= result[1].qty
    BY <1>1, <1>2, <1>5
  <2> QED
    BY <1>5, <1>6, <1>7, <2>1 DEF most

\* A fill takes an open order further, and closes it when it is complete.
LEMMA OrderFilled ==
  ASSUME TypeOK, WellFormed, NEW n \in DOMAIN orders, Fill(n)
  PROVE  /\ n \in 1..Len(orders)
         /\ orders' \in Seq(Order) /\ Len(orders') = Len(orders)
         /\ \A m \in 1..Len(orders) : m # n => orders'[m] = orders[m]
         /\ orders[n] \in Order /\ orders'[n] \in Order /\ WellFormedOrder(orders'[n])
         /\ orders'[n].leg = orders[n].leg /\ orders'[n].type = orders[n].type
         /\ orders'[n].qty = orders[n].qty /\ orders'[n].reduceOnly = orders[n].reduceOnly
         /\ orders'[n].filled > orders[n].filled /\ orders[n].open
         /\ orders'[n].open <=> orders'[n].filled < orders'[n].qty
         /\ faults = {} => orders'[n].filled = orders'[n].qty
<1>1. orders \in Seq(Order) /\ orders[n] \in Order /\ n \in 1..Len(orders)
  BY DEF TypeOK
<1> DEFINE o    == orders[n]
           rest == o.qty - o.filled
<1>2. PICK k \in {rest} \cup PartsBelow(rest) :
        orders' = [orders EXCEPT ![n].filled = @ + k, ![n].open = k < rest]
  BY DEF Fill
<1>3. o.open /\ o.qty \in Nat /\ o.filled \in Nat /\ o.filled < o.qty /\ ~o.reduceOnly
  <2>1. o.open
    BY DEF Fill
  <2>2. o.qty \in Nat /\ o.filled \in Nat
    BY <1>1 DEF Order
  <2> QED
    BY <2>1, <2>2 DEF WellFormed, WellFormedOrder
<1>4. k \in Nat /\ k > 0 /\ k <= rest /\ (faults = {} => k = rest)
  <2>1. rest \in Int /\ rest > 0
    BY <1>3
  <2>2. /\ \A m \in PartsBelow(rest) : m \in Nat /\ m > 0 /\ m < rest
        /\ faults = {} => PartsBelow(rest) = {}
    BY <2>1, PartsSmall
  <2> QED
    BY <2>1, <2>2
<1> DEFINE new == [o EXCEPT !.filled = @ + k, !.open = k < rest]
<1>5. orders' = [orders EXCEPT ![n] = new]
  BY <1>2
<1>6. new \in Order
  <2>1. o.filled + k \in Nat /\ (k < rest) \in BOOLEAN
    BY <1>3, <1>4
  <2> HIDE DEF rest
  <2> QED
    BY <1>1, <2>1 DEF Order
<1>7. /\ new.leg = o.leg /\ new.type = o.type /\ new.qty = o.qty
      /\ new.reduceOnly = o.reduceOnly /\ new.filled = o.filled + k /\ (new.open <=> k < rest)
  BY <1>1 DEF Order
<1>8. /\ orders' \in Seq(Order) /\ Len(orders') = Len(orders) /\ orders'[n] = new
      /\ \A m \in 1..Len(orders) : m # n => orders'[m] = orders[m]
  <2> HIDE DEF new
  <2> QED
    BY <1>1, <1>5, <1>6
<1>9. WellFormedOrder(new)
  <2> HIDE DEF new
  <2> QED
    BY <1>3, <1>4, <1>7 DEF WellFormedOrder
<1>10. new.filled > o.filled /\ (new.open <=> new.filled < new.qty)
       /\ (faults = {} => new.filled = new.qty)
  <2> HIDE DEF new
  <2> QED
    BY <1>3, <1>4, <1>7
<1> HIDE DEF new
<1> QED
  BY <1>1, <1>3, <1>6, <1>7, <1>8, <1>9, <1>10

\* A cancellation keeps what was filled.
LEMMA OrderCancelled ==
  ASSUME TypeOK, WellFormed, current \in DOMAIN orders,
         orders' = [orders EXCEPT ![current] = Cancelled(@)]
  PROVE  /\ current \in 1..Len(orders)
         /\ orders' \in Seq(Order) /\ Len(orders') = Len(orders)
         /\ \A m \in 1..Len(orders) : m # current => orders'[m] = orders[m]
         /\ orders[current] \in Order /\ orders'[current] \in Order
         /\ WellFormedOrder(orders'[current])
         /\ orders'[current] = [orders[current] EXCEPT !.open = FALSE]
<1>1. orders \in Seq(Order) /\ orders[current] \in Order /\ current \in 1..Len(orders)
  BY DEF TypeOK
<1> DEFINE new == [orders[current] EXCEPT !.open = FALSE]
<1>2. orders' = [orders EXCEPT ![current] = new]
  BY DEF Cancelled
<1>3. new \in Order
  BY <1>1 DEF Order
<1>4. WellFormedOrder(new)
  <2>1. WellFormedOrder(orders[current])
    BY <1>1 DEF WellFormed
  <2> QED
    BY <1>1, <2>1 DEF WellFormedOrder, Order
<1>5. /\ orders' \in Seq(Order) /\ Len(orders') = Len(orders) /\ orders'[current] = new
      /\ \A m \in 1..Len(orders) : m # current => orders'[m] = orders[m]
  <2> HIDE DEF new
  <2> QED
    BY <1>1, <1>2, <1>3
<1> QED
  BY <1>1, <1>3, <1>4, <1>5

\* The orders change in four ways only.
LEMMA OrdersChange ==
  ASSUME [Next]_vars
  PROVE  \/ UNCHANGED orders
         \/ pc = "send" /\ \E k \in FillsOnAcceptance(OrderType, FALSE, leg, target[leg]) :
              orders' = Append(orders, LegOrder(k))
         \/ pc = "unwind" /\ \E k \in UnwindFills : orders' = Append(orders, UnwindOrder(k))
         \/ \E n \in DOMAIN orders : Fill(n)
         \/ pc = "cancel" /\ orders' = [orders EXCEPT ![current] = Cancelled(@)]
<1>1. CASE AbandonLeg \/ AbandonOnDrift \/ PrepareLeg
  BY <1>1 DEF AbandonLeg, AbandonOnDrift, PrepareLeg
<1>2. CASE SendAccepted \/ SendFails
  BY <1>2 DEF SendAccepted, SendFails, Accepted, LegOrder
<1>3. CASE PollSeesFill \/ PollSeesNoFill \/ LegFailed
  BY <1>3 DEF PollSeesFill, PollSeesNoFill, LegFailed
<1>4. CASE Cancel
  BY <1>4 DEF Cancel
<1>5. CASE UnwindAccepted \/ UnwindFails
  BY <1>5 DEF UnwindAccepted, UnwindFails, UnwindSent, UnwindOrder
<1>6. CASE UnwindSeenFilled \/ UnwindNotSeenFilled \/ Tick \/ UNCHANGED vars
  BY <1>6 DEF UnwindSeenFilled, UnwindNotSeenFilled, Tick, vars
<1>7. CASE \E n \in DOMAIN orders : Fill(n)
  BY <1>7
<1> QED
  BY <1>1, <1>2, <1>3, <1>4, <1>5, <1>6, <1>7 DEF Next, Step

\* No step makes an order ill-formed, sells more than was bought, or loses an
\* order.
LEMMA BookStep ==
  ASSUME TypeOK, WellFormed, Following, NotSoldShort, [Next]_vars
  PROVE  /\ orders' \in Seq(Order) /\ WellFormed' /\ NotSoldShort'
         /\ Len(orders') >= Len(orders)
<1>0. orders \in Seq(Order) /\ Len(orders) \in Nat /\ DOMAIN orders = 1..Len(orders)
      /\ 1 \in Legs /\ 2 \in Legs
  BY DEF TypeOK, Legs
<1>1. CASE UNCHANGED orders
  BY <1>0, <1>1 DEF WellFormed, NotSoldShort, Bought, Sold
<1>2. ASSUME pc = "send",
             NEW k \in FillsOnAcceptance(OrderType, FALSE, leg, target[leg]),
             orders' = Append(orders, LegOrder(k))
      PROVE  orders' \in Seq(Order) /\ WellFormed' /\ NotSoldShort'
             /\ Len(orders') >= Len(orders)
  <2>1. LegOrder(k) \in Order /\ WellFormedOrder(LegOrder(k)) /\ k \in Nat
    BY <1>2, LegOrderSent
  <2>2. /\ orders' \in Seq(Order)
        /\ Len(orders') = Len(orders) + 1
        /\ DOMAIN orders' = DOMAIN orders \cup {Len(orders) + 1}
        /\ orders'[Len(orders) + 1] = LegOrder(k)
        /\ \A n \in DOMAIN orders : orders'[n] = orders[n]
        /\ \A l \in Legs : /\ Bought(l)' = Bought(l) + BoughtBy(l)[LegOrder(k)]
                           /\ Sold(l)' = Sold(l) + SoldBy(l)[LegOrder(k)]
    BY <1>0, <1>2, <2>1, OrderAppended
  <2>3. WellFormed'
    BY <2>1, <2>2 DEF WellFormed
  <2>4. \A l \in Legs : BoughtBy(l)[LegOrder(k)] \in Nat /\ SoldBy(l)[LegOrder(k)] = 0
    BY <2>1 DEF BoughtBy, SoldBy, LegOrder
  <2>5. Bought(1) \in Int /\ Sold(1) \in Int /\ Sold(2) \in Int
    BY <1>0, SumsTyped
  <2>6. NotSoldShort'
    BY <1>0, <2>2, <2>4, <2>5 DEF NotSoldShort
  <2> QED
    BY <1>0, <2>2, <2>3, <2>6
<1>3. ASSUME pc = "unwind", NEW k \in UnwindFills, orders' = Append(orders, UnwindOrder(k))
      PROVE  orders' \in Seq(Order) /\ WellFormed' /\ NotSoldShort'
             /\ Len(orders') >= Len(orders)
  <2>1. /\ UnwindOrder(k) \in Order /\ WellFormedOrder(UnwindOrder(k))
        /\ k \in Nat /\ k <= Held(1)
    BY <1>3, UnwindOrderSent
  <2>2. /\ orders' \in Seq(Order)
        /\ Len(orders') = Len(orders) + 1
        /\ DOMAIN orders' = DOMAIN orders \cup {Len(orders) + 1}
        /\ orders'[Len(orders) + 1] = UnwindOrder(k)
        /\ \A n \in DOMAIN orders : orders'[n] = orders[n]
        /\ \A l \in Legs : /\ Bought(l)' = Bought(l) + BoughtBy(l)[UnwindOrder(k)]
                           /\ Sold(l)' = Sold(l) + SoldBy(l)[UnwindOrder(k)]
    BY <1>0, <1>3, <2>1, OrderAppended
  <2>3. WellFormed'
    BY <2>1, <2>2 DEF WellFormed
  <2>4. /\ BoughtBy(1)[UnwindOrder(k)] = 0 /\ SoldBy(1)[UnwindOrder(k)] = k
        /\ SoldBy(2)[UnwindOrder(k)] = 0
    BY <2>1 DEF BoughtBy, SoldBy, UnwindOrder
  <2>5. Bought(1) \in Int /\ Sold(1) \in Int /\ Sold(2) \in Int /\ Held(1) = Bought(1) - Sold(1)
    BY <1>0, SumsTyped, HeldIs
  <2>6. NotSoldShort'
    BY <1>0, <2>1, <2>2, <2>4, <2>5 DEF NotSoldShort
  <2> QED
    BY <1>0, <2>2, <2>3, <2>6
<1>4. ASSUME NEW n \in DOMAIN orders, Fill(n)
      PROVE  orders' \in Seq(Order) /\ WellFormed' /\ NotSoldShort'
             /\ Len(orders') >= Len(orders)
  <2>1. /\ n \in 1..Len(orders)
        /\ orders' \in Seq(Order) /\ Len(orders') = Len(orders)
        /\ \A m \in 1..Len(orders) : m # n => orders'[m] = orders[m]
        /\ orders[n] \in Order /\ orders'[n] \in Order /\ WellFormedOrder(orders'[n])
        /\ orders'[n].leg = orders[n].leg
        /\ orders'[n].reduceOnly = orders[n].reduceOnly
        /\ orders'[n].filled > orders[n].filled /\ orders[n].open
    BY <1>4, OrderFilled
  <2>2. WellFormed'
    <3>1. DOMAIN orders' = 1..Len(orders)
      BY <2>1
    <3> QED
      BY <1>0, <2>1, <3>1 DEF WellFormed
  <2>3. \A l : /\ Bought(l)' = Bought(l) - BoughtBy(l)[orders[n]] + BoughtBy(l)[orders'[n]]
               /\ Sold(l)' = Sold(l) - SoldBy(l)[orders[n]] + SoldBy(l)[orders'[n]]
    BY <1>0, <2>1, OrderReplaced
  <2>4. ~orders[n].reduceOnly
    BY <2>1 DEF WellFormed, WellFormedOrder
  <2>5. \A l : /\ BoughtBy(l)[orders[n]] \in Int /\ BoughtBy(l)[orders'[n]] \in Int
               /\ BoughtBy(l)[orders[n]] <= BoughtBy(l)[orders'[n]]
               /\ SoldBy(l)[orders[n]] = 0 /\ SoldBy(l)[orders'[n]] = 0
    BY <2>1, <2>4 DEF BoughtBy, SoldBy, Order
  <2>6. Bought(1) \in Int /\ Sold(1) \in Int /\ Sold(2) \in Int
    BY <1>0, SumsTyped
  <2>7. NotSoldShort'
    BY <1>0, <2>3, <2>5, <2>6 DEF NotSoldShort
  <2> QED
    BY <1>0, <2>1, <2>2, <2>7
<1>5. ASSUME pc = "cancel", orders' = [orders EXCEPT ![current] = Cancelled(@)]
      PROVE  orders' \in Seq(Order) /\ WellFormed' /\ NotSoldShort'
             /\ Len(orders') >= Len(orders)
  <2>0. current \in DOMAIN orders
    BY <1>5 DEF Following
  <2>1. /\ current \in 1..Len(orders)
        /\ orders' \in Seq(Order) /\ Len(orders') = Len(orders)
        /\ \A m \in 1..Len(orders) : m # current => orders'[m] = orders[m]
        /\ orders[current] \in Order /\ orders'[current] \in Order
        /\ WellFormedOrder(orders'[current])
        /\ orders'[current] = [orders[current] EXCEPT !.open = FALSE]
    BY <1>5, <2>0, OrderCancelled
  <2>2. WellFormed'
    <3>1. DOMAIN orders' = 1..Len(orders)
      BY <2>1
    <3> QED
      BY <1>0, <2>1, <3>1 DEF WellFormed
  <2>3. \A l : /\ Bought(l)' = Bought(l) - BoughtBy(l)[orders[current]] + BoughtBy(l)[orders'[current]]
               /\ Sold(l)' = Sold(l) - SoldBy(l)[orders[current]] + SoldBy(l)[orders'[current]]
    BY <1>0, <2>1, OrderReplaced
  <2>4. /\ orders'[current].leg = orders[current].leg
        /\ orders'[current].filled = orders[current].filled
        /\ orders'[current].reduceOnly = orders[current].reduceOnly
    BY <2>1 DEF Order
  <2>5. \A l : /\ BoughtBy(l)[orders[current]] \in Int /\ SoldBy(l)[orders[current]] \in Int
               /\ BoughtBy(l)[orders[current]] = BoughtBy(l)[orders'[current]]
               /\ SoldBy(l)[orders[current]] = SoldBy(l)[orders'[current]]
    BY <2>1, <2>4 DEF BoughtBy, SoldBy, Order
  <2>6. Bought(1) \in Int /\ Sold(1) \in Int /\ Sold(2) \in Int
    BY <1>0, SumsTyped
  <2>7. NotSoldShort'
    BY <1>0, <2>3, <2>5, <2>6 DEF NotSoldShort
  <2> QED
    BY <1>0, <2>1, <2>2, <2>7
<1> QED
  BY <1>1, <1>2, <1>3, <1>4, <1>5, OrdersChange

-----------------------------------------------------------------------------
(* The sums after each kind of change.                                     *)

\* An order for a leg commits to its whole quantity while it is open.
LEMMA SendEffect ==
  ASSUME TypeOK, Following, pc = "send",
         NEW k \in FillsOnAcceptance(OrderType, FALSE, leg, target[leg]),
         orders' = Append(orders, LegOrder(k))
  PROVE  /\ orders'[Len(orders) + 1] = LegOrder(k)
         /\ DOMAIN orders' = DOMAIN orders \cup {Len(orders) + 1}
         /\ \A n \in DOMAIN orders : orders'[n] = orders[n]
         /\ \A l \in Legs : /\ Sold(l)' = Sold(l)
                            /\ l # leg => Committed(l)' = Committed(l) /\ Bought(l)' = Bought(l)
                            /\ l = leg => /\ Committed(l)' = Committed(l) + Share(LegOrder(k))
                                          /\ Bought(l)' = Bought(l) + k
<1>1. orders \in Seq(Order) /\ leg \in Legs
  BY DEF TypeOK
<1>2. LegOrder(k) \in Order /\ k \in Nat
  BY LegOrderSent
<1>3. /\ DOMAIN orders' = DOMAIN orders \cup {Len(orders) + 1}
      /\ orders'[Len(orders) + 1] = LegOrder(k)
      /\ \A n \in DOMAIN orders : orders'[n] = orders[n]
      /\ \A l \in Legs : /\ Bought(l)' = Bought(l) + BoughtBy(l)[LegOrder(k)]
                         /\ Sold(l)' = Sold(l) + SoldBy(l)[LegOrder(k)]
                         /\ Committed(l)' = Committed(l) + CommittedBy(l)[LegOrder(k)]
  BY <1>1, <1>2, OrderAppended
<1>4. \A l \in Legs : Bought(l) \in Int /\ Sold(l) \in Int /\ Committed(l) \in Int
  BY <1>1, SumsTyped
<1>5. LegOrder(k).leg = leg /\ LegOrder(k).reduceOnly = FALSE /\ LegOrder(k).filled = k
  BY DEF LegOrder
<1>6. \A l \in Legs :
        /\ SoldBy(l)[LegOrder(k)] = 0
        /\ l # leg => BoughtBy(l)[LegOrder(k)] = 0 /\ CommittedBy(l)[LegOrder(k)] = 0
        /\ l = leg => /\ BoughtBy(l)[LegOrder(k)] = k
                      /\ CommittedBy(l)[LegOrder(k)] = Share(LegOrder(k))
  <2>1. \A o \in Order : \A l : o.reduceOnly = FALSE =>
          /\ SoldBy(l)[o] = 0
          /\ o.leg # l => BoughtBy(l)[o] = 0 /\ CommittedBy(l)[o] = 0
          /\ o.leg = l => BoughtBy(l)[o] = o.filled /\ CommittedBy(l)[o] = Share(o)
    BY DEF BoughtBy, SoldBy, CommittedBy
  <2> QED
    BY <1>2, <1>5, <2>1
<1>7. \A l \in Legs :
        /\ Sold(l)' = Sold(l)
        /\ l # leg => Committed(l)' = Committed(l) /\ Bought(l)' = Bought(l)
        /\ l = leg => /\ Committed(l)' = Committed(l) + Share(LegOrder(k))
                      /\ Bought(l)' = Bought(l) + k
  BY <1>3, <1>4, <1>6
<1> QED
  BY <1>3, <1>7

\* An unwind changes what was sold of the first leg, and nothing else.
LEMMA UnwindEffect ==
  ASSUME TypeOK, NotSoldShort, NEW k \in UnwindFills, orders' = Append(orders, UnwindOrder(k))
  PROVE  /\ orders'[Len(orders) + 1] = UnwindOrder(k)
         /\ DOMAIN orders' = DOMAIN orders \cup {Len(orders) + 1}
         /\ \A n \in DOMAIN orders : orders'[n] = orders[n]
         /\ \A l \in Legs : Committed(l)' = Committed(l) /\ Bought(l)' = Bought(l)
         /\ Sold(1)' = Sold(1) + k
<1>1. orders \in Seq(Order) /\ 1 \in Legs
  BY DEF TypeOK, Legs
<1>2. UnwindOrder(k) \in Order /\ k \in Nat
  BY UnwindOrderSent
<1>3. /\ DOMAIN orders' = DOMAIN orders \cup {Len(orders) + 1}
      /\ orders'[Len(orders) + 1] = UnwindOrder(k)
      /\ \A n \in DOMAIN orders : orders'[n] = orders[n]
      /\ \A l \in Legs : /\ Bought(l)' = Bought(l) + BoughtBy(l)[UnwindOrder(k)]
                         /\ Sold(l)' = Sold(l) + SoldBy(l)[UnwindOrder(k)]
                         /\ Committed(l)' = Committed(l) + CommittedBy(l)[UnwindOrder(k)]
  BY <1>1, <1>2, OrderAppended
<1>4. \A l \in Legs : Bought(l) \in Int /\ Committed(l) \in Int
  BY <1>1, SumsTyped
<1>5. /\ UnwindOrder(k).leg = 1 /\ UnwindOrder(k).reduceOnly = TRUE
      /\ UnwindOrder(k).filled = k
  BY DEF UnwindOrder
<1>6. /\ \A l \in Legs : /\ BoughtBy(l)[UnwindOrder(k)] = 0
                         /\ CommittedBy(l)[UnwindOrder(k)] = 0
      /\ SoldBy(1)[UnwindOrder(k)] = k
  BY <1>2, <1>5 DEF BoughtBy, SoldBy, CommittedBy
<1> QED
  BY <1>1, <1>3, <1>4, <1>6

\* A fill turns what was committed into what is bought.
LEMMA FillEffect ==
  ASSUME TypeOK, WellFormed, NEW n \in DOMAIN orders, Fill(n)
  PROVE  /\ DOMAIN orders' = DOMAIN orders
         /\ \A l \in Legs :
              /\ Committed(l)' = Committed(l) /\ Sold(l)' = Sold(l)
              /\ l # orders[n].leg => Bought(l)' = Bought(l)
              /\ l = orders[n].leg => Bought(l)' = Bought(l) - orders[n].filled + orders'[n].filled
         /\ \A m \in DOMAIN orders : Share(orders'[m]) = Share(orders[m])
<1>0. orders \in Seq(Order)
  BY DEF TypeOK
<1>1. /\ n \in 1..Len(orders)
      /\ orders' \in Seq(Order) /\ Len(orders') = Len(orders)
      /\ \A m \in 1..Len(orders) : m # n => orders'[m] = orders[m]
      /\ orders[n] \in Order /\ orders'[n] \in Order /\ WellFormedOrder(orders'[n])
      /\ orders'[n].leg = orders[n].leg /\ orders'[n].qty = orders[n].qty
      /\ orders'[n].reduceOnly = orders[n].reduceOnly
      /\ orders[n].open
      /\ orders'[n].open <=> orders'[n].filled < orders'[n].qty
  BY OrderFilled
<1>2. \A l : /\ Bought(l)' = Bought(l) - BoughtBy(l)[orders[n]] + BoughtBy(l)[orders'[n]]
             /\ Sold(l)' = Sold(l) - SoldBy(l)[orders[n]] + SoldBy(l)[orders'[n]]
             /\ Committed(l)' = Committed(l) - CommittedBy(l)[orders[n]]
                                  + CommittedBy(l)[orders'[n]]
  BY <1>0, <1>1, OrderReplaced
<1>3. ~orders[n].reduceOnly
  BY <1>1 DEF WellFormed, WellFormedOrder
<1>4. Share(orders'[n]) = Share(orders[n])
  <2>1. orders'[n].filled <= orders'[n].qty /\ orders'[n].filled \in Nat /\ orders'[n].qty \in Nat
    BY <1>1 DEF WellFormedOrder, Order
  <2> QED
    BY <1>1, <2>1 DEF Share
<1>5. \A l : /\ SoldBy(l)[orders[n]] = 0 /\ SoldBy(l)[orders'[n]] = 0
             /\ CommittedBy(l)[orders'[n]] = CommittedBy(l)[orders[n]]
             /\ CommittedBy(l)[orders[n]] \in Int
  BY <1>1, <1>3, <1>4, Weights DEF SoldBy, CommittedBy
<1>6. \A l : /\ l = orders[n].leg => /\ BoughtBy(l)[orders[n]] = orders[n].filled
                                     /\ BoughtBy(l)[orders'[n]] = orders'[n].filled
             /\ l # orders[n].leg => /\ BoughtBy(l)[orders[n]] = 0
                                     /\ BoughtBy(l)[orders'[n]] = 0
  BY <1>1, <1>3 DEF BoughtBy
<1>7. \A l : Bought(l) \in Int /\ Sold(l) \in Int /\ Committed(l) \in Int
  BY <1>0, SumsTyped
<1>8. \A l : Committed(l)' = Committed(l) /\ Sold(l)' = Sold(l)
  BY <1>2, <1>5, <1>7
<1>9. DOMAIN orders' = 1..Len(orders) /\ DOMAIN orders = 1..Len(orders)
  BY <1>0, <1>1
<1>10. \A m \in DOMAIN orders : Share(orders'[m]) = Share(orders[m])
  BY <1>1, <1>4, <1>9
<1>11. \A l : /\ l # orders[n].leg => Bought(l)' = Bought(l)
              /\ l = orders[n].leg => Bought(l)' = Bought(l) - orders[n].filled + orders'[n].filled
  BY <1>2, <1>6, <1>7
<1>12. \A l \in Legs :
         /\ Committed(l)' = Committed(l) /\ Sold(l)' = Sold(l)
         /\ l # orders[n].leg => Bought(l)' = Bought(l)
         /\ l = orders[n].leg => Bought(l)' = Bought(l) - orders[n].filled + orders'[n].filled
  BY <1>8, <1>11, Zenon
<1>13. DOMAIN orders' = DOMAIN orders
  BY <1>9
<1> QED
  BY <1>10, <1>12, <1>13, Zenon

\* A cancellation gives back what was committed and not bought.
LEMMA CancelEffect ==
  ASSUME TypeOK, WellFormed, Following, pc = "cancel",
         orders' = [orders EXCEPT ![current] = Cancelled(@)]
  PROVE  /\ DOMAIN orders' = DOMAIN orders
         /\ \A m \in DOMAIN orders : m # current => orders'[m] = orders[m]
         /\ ~orders'[current].open /\ orders'[current].filled = orders[current].filled
         /\ \A l \in Legs :
              /\ Sold(l)' = Sold(l) /\ Bought(l)' = Bought(l)
              /\ l # leg => Committed(l)' = Committed(l)
              /\ l = leg => Committed(l)' = Committed(l) - Share(orders[current])
                                              + orders[current].filled
<1>0. orders \in Seq(Order) /\ current \in DOMAIN orders
  BY DEF TypeOK, Following
<1>1. /\ current \in 1..Len(orders)
      /\ orders' \in Seq(Order) /\ Len(orders') = Len(orders)
      /\ \A m \in 1..Len(orders) : m # current => orders'[m] = orders[m]
      /\ orders[current] \in Order /\ orders'[current] \in Order
      /\ orders'[current] = [orders[current] EXCEPT !.open = FALSE]
  BY <1>0, OrderCancelled
<1>2. \A l : /\ Bought(l)' = Bought(l) - BoughtBy(l)[orders[current]] + BoughtBy(l)[orders'[current]]
             /\ Sold(l)' = Sold(l) - SoldBy(l)[orders[current]] + SoldBy(l)[orders'[current]]
             /\ Committed(l)' = Committed(l) - CommittedBy(l)[orders[current]]
                                  + CommittedBy(l)[orders'[current]]
  BY <1>0, <1>1, OrderReplaced
<1>3. /\ orders'[current].leg = orders[current].leg
      /\ orders'[current].filled = orders[current].filled
      /\ orders'[current].reduceOnly = orders[current].reduceOnly
      /\ ~orders'[current].open
  BY <1>1 DEF Order
<1>4. orders[current].leg = leg /\ ~orders[current].reduceOnly
  BY DEF Following
<1>5. \A l : /\ BoughtBy(l)[orders[current]] \in Int /\ SoldBy(l)[orders[current]] \in Int
             /\ BoughtBy(l)[orders[current]] = BoughtBy(l)[orders'[current]]
             /\ SoldBy(l)[orders[current]] = SoldBy(l)[orders'[current]]
  BY <1>1, <1>3 DEF BoughtBy, SoldBy, Order
<1>6. \A l : /\ l = leg => /\ CommittedBy(l)[orders[current]] = Share(orders[current])
                           /\ CommittedBy(l)[orders'[current]] = orders[current].filled
             /\ l # leg => /\ CommittedBy(l)[orders[current]] = 0
                           /\ CommittedBy(l)[orders'[current]] = 0
  BY <1>1, <1>3, <1>4 DEF CommittedBy, Share
<1>7. \A l : Bought(l) \in Int /\ Sold(l) \in Int /\ Committed(l) \in Int
  BY <1>0, SumsTyped
<1>8. DOMAIN orders' = 1..Len(orders) /\ DOMAIN orders = 1..Len(orders)
  BY <1>0, <1>1
<1>9. \A l \in Legs : Sold(l)' = Sold(l) /\ Bought(l)' = Bought(l)
  BY <1>2, <1>5, <1>7
<1>10. \A l \in Legs :
         /\ l # leg => Committed(l)' = Committed(l)
         /\ l = leg => Committed(l)' = Committed(l) - Share(orders[current])
                                         + orders[current].filled
  BY <1>2, <1>6, <1>7
<1> QED
  BY <1>1, <1>3, <1>8, <1>9, <1>10

-----------------------------------------------------------------------------
\* What is appended to the events is an event.
LEMMA EventsAppended ==
  ASSUME TypeOK, NEW type \in EventTypes, NEW l \in Legs
  PROVE  /\ Append(events, <<type, l>>) \in Seq(EventTypes \X Legs)
         /\ \A other \in EventTypes :
              events \o <<<<type, l>>, <<other, l>>>> \in Seq(EventTypes \X Legs)
<1>1. events \in Seq(EventTypes \X Legs)
  BY DEF TypeOK
<1>2. ASSUME NEW other \in EventTypes
      PROVE  <<<<type, l>>, <<other, l>>>> \in Seq(EventTypes \X Legs)
  <2>1. <<type, l>> \in EventTypes \X Legs /\ <<other, l>> \in EventTypes \X Legs
    OBVIOUS
  <2> QED
    BY <2>1
<1>3. <<type, l>> \in EventTypes \X Legs
  OBVIOUS
<1> HIDE DEF EventTypes, Legs
<1> QED
  BY <1>1, <1>2, <1>3

\* Every step keeps the types.
LEMMA TypeStep ==
  ASSUME TypeOK, WellFormed, Following, NotSoldShort, [Next]_vars
  PROVE  TypeOK'
<1>0. orders' \in Seq(Order) /\ Len(orders') >= Len(orders) /\ Len(orders) \in Nat
      /\ Len(orders') \in Nat
  <2>1. orders' \in Seq(Order) /\ Len(orders') >= Len(orders) /\ orders \in Seq(Order)
    BY BookStep DEF TypeOK
  <2> QED
    BY <2>1
<1>1. CASE AbandonLeg \/ AbandonOnDrift \/ PrepareLeg
  <2>1. GiveUp => pc' \in {"unwind", "done"} /\ attempt' = 0
    BY DEF GiveUp
  <2>2. CASE AbandonLeg
    BY <1>0, <2>1, <2>2, ExecutorAssumption DEF TypeOK, AbandonLeg
  <2>3. CASE AbandonOnDrift
    BY <1>0, <2>1, <2>3, ExecutorAssumption DEF TypeOK, AbandonOnDrift, Emit, EventTypes
  <2>4. CASE PrepareLeg
    <3>1. TargetOf(leg) \in 0..Lots
      BY ExecutorAssumption DEF TypeOK, TargetOf, Following, Result, Legs
    <3> QED
      BY <1>0, <2>4, <3>1, ExecutorAssumption DEF TypeOK, PrepareLeg
  <2> QED
    BY <1>1, <2>2, <2>3, <2>4
<1>2. CASE SendAccepted
  <2>1. Len(orders') = Len(orders) + 1
    BY <1>2 DEF SendAccepted, Accepted, TypeOK
  <2> QED
    BY <1>0, <1>2, <2>1 DEF TypeOK, SendAccepted, Emit, EventTypes
<1>3. CASE SendFails
  <2>1. events' \in Seq(EventTypes \X Legs) /\ attempt' \in 0..(MaxRetriesPerLeg + MaxUnwindRetries)
        /\ pc' \in {"send", "failed"}
    <3>0. /\ attempt < MaxRetriesPerLeg =>
               /\ events' = events \o <<<<"ORDER_SENT", leg>>, <<"ORDER_RETRY", leg>>>>
               /\ attempt' = attempt + 1 /\ pc' = pc
          /\ ~(attempt < MaxRetriesPerLeg) =>
               /\ events' = Append(events, <<"ORDER_SENT", leg>>)
               /\ attempt' = attempt /\ pc' = "failed"
          /\ pc = "send"
      BY <1>3 DEF SendFails, Emit
    <3>1. /\ "ORDER_SENT" \in EventTypes /\ "ORDER_RETRY" \in EventTypes
          /\ leg \in Legs /\ attempt \in 0..(MaxRetriesPerLeg + MaxUnwindRetries)
      BY DEF EventTypes, TypeOK
    <3>2. events' \in Seq(EventTypes \X Legs)
      BY <3>0, <3>1, EventsAppended
    <3>3. attempt' \in 0..(MaxRetriesPerLeg + MaxUnwindRetries)
      BY <3>0, <3>1, ExecutorAssumption
    <3> QED
      BY <3>0, <3>2, <3>3
  <2>2. UNCHANGED <<faults, now, leg, current, target, result>>
    BY <1>3 DEF SendFails
  <2> QED
    BY <1>0, <2>1, <2>2 DEF TypeOK
<1>4. CASE PollSeesFill
  <2>1. /\ pc' \in {"leg", "done"} /\ leg' = 2
        /\ UNCHANGED <<faults, now, attempt, current, target, orders>>
    BY <1>4 DEF PollSeesFill
  <2>2. orders[current] \in Order
    BY <1>4 DEF TypeOK, Following, PollSeesFill
  <2>3. result' \in [Legs -> Result]
    <3>1. [filled |-> TRUE, partial |-> orders[current].filled < orders[current].qty,
           qty |-> orders[current].filled, at |-> now] \in Result
      BY <2>2 DEF Result, Order, TypeOK
    <3> QED
      BY <1>4, <3>1 DEF PollSeesFill, TypeOK
  <2>4. events' \in Seq(EventTypes \X Legs)
    BY <1>4 DEF PollSeesFill, Emit, EventTypes, TypeOK
  <2> QED
    BY <1>0, <2>1, <2>3, <2>4 DEF TypeOK, Legs
<1>5. CASE PollSeesNoFill
  BY <1>0, <1>5 DEF TypeOK, PollSeesNoFill
<1>6. CASE Cancel
  BY <1>0, <1>6, ExecutorAssumption DEF TypeOK, Cancel, NextAttempt
<1>7. CASE LegFailed
  BY <1>0, <1>7, ExecutorAssumption DEF TypeOK, LegFailed, GiveUp, Emit, EventTypes
<1>8. CASE UnwindAccepted
  <2>1. Len(orders') = Len(orders) + 1
    BY <1>8 DEF UnwindAccepted, UnwindSent, TypeOK
  <2> QED
    BY <1>0, <1>8, <2>1 DEF TypeOK, UnwindAccepted
<1>9. CASE UnwindFails \/ UnwindNotSeenFilled
  <2>1. UnwindAttemptFailed /\ UNCHANGED <<faults, now, leg, current, target, result>>
    BY <1>9 DEF UnwindFails, UnwindNotSeenFilled
  <2>2. /\ events' \in Seq(EventTypes \X Legs)
        /\ attempt' \in 0..(MaxRetriesPerLeg + MaxUnwindRetries)
        /\ pc' \in {"unwind", "done"}
    <3>1. /\ "HEDGE_FAILED" \in EventTypes /\ 1 \in Legs
          /\ attempt \in 0..(MaxRetriesPerLeg + MaxUnwindRetries)
          /\ events \in Seq(EventTypes \X Legs)
      BY DEF EventTypes, Legs, TypeOK
    <3>2. Append(events, <<"HEDGE_FAILED", 1>>) \in Seq(EventTypes \X Legs)
      BY <3>1, EventsAppended
    <3>3. CASE attempt < MaxUnwindRetries
      BY <2>1, <3>1, <3>3, ExecutorAssumption DEF UnwindAttemptFailed, NextAttempt
    <3>4. CASE ~(attempt < MaxUnwindRetries)
      BY <2>1, <3>1, <3>2, <3>4 DEF UnwindAttemptFailed
    <3> QED
      BY <3>3, <3>4
  <2>3. /\ faults' = faults /\ now' = now /\ leg' = leg /\ current' = current
        /\ target' = target /\ result' = result
    BY <2>1
  <2>4. current' \in 0..Len(orders')
    BY <1>0, <2>3 DEF TypeOK
  <2> QED
    BY <1>0, <2>2, <2>3, <2>4 DEF TypeOK
<1>10. CASE UnwindSeenFilled
  BY <1>0, <1>10 DEF TypeOK, UnwindSeenFilled, EventTypes, Legs
<1>11. CASE \E n \in DOMAIN orders : Fill(n)
  BY <1>0, <1>11 DEF TypeOK, Fill
<1>12. CASE Tick
  BY <1>0, <1>12 DEF TypeOK, Tick
<1>13. CASE UNCHANGED vars
  BY <1>13 DEF TypeOK, vars
<1> QED
  BY <1>1, <1>2, <1>3, <1>4, <1>5, <1>6, <1>7, <1>8, <1>9, <1>10, <1>11, <1>12, <1>13
     DEF Next, Step

\* Every step keeps the order that is followed the last one sent.
LEMMA FollowingStep ==
  ASSUME TypeOK, WellFormed, Following, NotSoldShort, [Next]_vars
  PROVE  Following'
<1>0. orders \in Seq(Order) /\ leg \in Legs /\ MaxRetriesPerLeg \in Nat /\ attempt \in Int
  BY ExecutorAssumption DEF TypeOK
<1>1. CASE AbandonLeg \/ AbandonOnDrift
  BY <1>1 DEF Following, AbandonLeg, AbandonOnDrift, GiveUp, Sending, Legs, TypeOK
<1>2. CASE PrepareLeg
  <2>1. TargetOf(leg) > 0
    BY ExecutorAssumption DEF TypeOK, TargetOf, Following, Legs
  <2> QED
    BY <1>2, <2>1 DEF Following, PrepareLeg, Sending, TypeOK
<1>3. CASE SendAccepted
  <2>1. PICK k \in FillsOnAcceptance(OrderType, FALSE, leg, target[leg]) :
          orders' = Append(orders, LegOrder(k))
    BY <1>3 DEF SendAccepted, Accepted, LegOrder
  <2>2. pc = "send" /\ pc' = "poll" /\ current' = Len(orders) + 1
        /\ UNCHANGED <<leg, attempt, target, result>>
    BY <1>3 DEF SendAccepted
  <2>3. DOMAIN orders' = DOMAIN orders \cup {Len(orders) + 1}
        /\ orders'[Len(orders) + 1] = LegOrder(k)
    BY <2>1, <2>2, SendEffect
  <2> QED
    BY <2>2, <2>3 DEF Following, Sending, LegOrder, OrderType
<1>4. CASE SendFails
  BY <1>4 DEF Following, SendFails, Sending
<1>5. CASE PollSeesFill
  <2>1. orders[current] \in Order /\ current \in DOMAIN orders
    BY <1>5 DEF Following, PollSeesFill, TypeOK
  <2>2. pc = "poll" /\ pc' \in {"leg", "done"} /\ SeenFilled(orders[current])
    BY <1>5 DEF PollSeesFill
  <2>3. result'[1].partial => result'[1].qty \in 1..Lots
    <3>1. CASE leg = 1
      <4>1. /\ result'[1].partial <=> orders[current].filled < orders[current].qty
            /\ result'[1].qty = orders[current].filled
        BY <1>5, <3>1 DEF PollSeesFill, TypeOK, Legs
      <4>2. orders[current].qty \in Nat /\ orders[current].qty <= Lots
        BY <1>0, <2>1, <2>2 DEF Following, TypeOK, Order
      <4>3. orders[current].filled \in Nat
        BY <2>1 DEF Order
      <4>4. orders[current].filled < orders[current].qty => orders[current].filled > 0
        BY <2>2, <4>2, <4>3 DEF SeenFilled
      <4> QED
        BY <4>1, <4>2, <4>3, <4>4, ExecutorAssumption
    <3>2. CASE leg # 1
      <4>1. result'[1] = result[1]
        BY <1>5, <3>2 DEF PollSeesFill, TypeOK, Legs
      <4> QED
        BY <4>1 DEF Following
    <3> QED
      BY <3>1, <3>2
  <2> QED
    BY <2>2, <2>3 DEF Following, Sending
<1>6. CASE PollSeesNoFill
  BY <1>6 DEF Following, PollSeesNoFill, Sending, OrderType
<1>7. CASE Cancel
  <2>1. pc = "cancel" /\ pc' \in {"send", "failed"} /\ UNCHANGED <<leg, target, result>>
    BY <1>7 DEF Cancel
  <2> QED
    BY <2>1 DEF Following, Sending
<1>8. CASE LegFailed
  BY <1>8, <1>0 DEF Following, LegFailed, GiveUp, Sending, Legs
<1>9. CASE UnwindAccepted
  <2>1. PICK k \in UnwindFills : orders' = Append(orders, UnwindOrder(k))
    BY <1>9 DEF UnwindAccepted, UnwindSent, UnwindOrder
  <2>2. pc = "unwind" /\ pc' = "unwindPoll" /\ current' = Len(orders) + 1
        /\ UNCHANGED <<leg, target, result>>
    BY <1>9 DEF UnwindAccepted
  <2>3. DOMAIN orders' = DOMAIN orders \cup {Len(orders) + 1}
        /\ orders'[Len(orders) + 1] = UnwindOrder(k)
    BY <2>1, UnwindEffect
  <2> QED
    BY <2>2, <2>3 DEF Following, Sending, UnwindOrder
<1>10. CASE UnwindFails \/ UnwindNotSeenFilled
  <2>1. pc \in {"unwind", "unwindPoll"} /\ pc' \in {"unwind", "done"} /\ UNCHANGED <<leg, target, result>>
    BY <1>10 DEF UnwindFails, UnwindNotSeenFilled, UnwindAttemptFailed
  <2> QED
    BY <2>1 DEF Following, Sending
<1>11. CASE UnwindSeenFilled
  BY <1>11 DEF Following, UnwindSeenFilled, Sending
<1>12. ASSUME NEW n \in DOMAIN orders, Fill(n) PROVE Following'
  <2>1. UNCHANGED <<pc, leg, attempt, current, target, result>>
    BY <1>12 DEF Fill
  <2>2. /\ orders' \in Seq(Order) /\ Len(orders') = Len(orders)
        /\ \A m \in 1..Len(orders) : m # n => orders'[m] = orders[m]
        /\ orders'[n].leg = orders[n].leg /\ orders'[n].type = orders[n].type
        /\ orders'[n].qty = orders[n].qty /\ orders'[n].reduceOnly = orders[n].reduceOnly
    BY <1>12, OrderFilled
  <2>3. DOMAIN orders' = DOMAIN orders /\ DOMAIN orders = 1..Len(orders)
    BY <1>0, <2>2
  <2>4. \A m \in DOMAIN orders :
          /\ orders'[m].leg = orders[m].leg /\ orders'[m].type = orders[m].type
          /\ orders'[m].qty = orders[m].qty /\ orders'[m].reduceOnly = orders[m].reduceOnly
    BY <2>2, <2>3
  <2> QED
    BY <2>1, <2>3, <2>4 DEF Following, OrderType
<1>13. CASE Tick \/ UNCHANGED vars
  BY <1>13 DEF Following, Tick, vars, OrderType
<1> QED
  BY <1>1, <1>2, <1>3, <1>4, <1>5, <1>6, <1>7, <1>8, <1>9, <1>10, <1>11, <1>12, <1>13
     DEF Next, Step

\* The sums depend on the orders only.
LEMMA SumsKept ==
  ASSUME UNCHANGED orders
  PROVE  \A l : Committed(l)' = Committed(l) /\ Bought(l)' = Bought(l) /\ Sold(l)' = Sold(l)
BY DEF Committed, Bought, Sold

\* A leg is asked for again only after its last order was closed unfilled.
LEMMA AskedStep ==
  ASSUME TypeOK, WellFormed, Following, NotSoldShort, AskedOnce, [Next]_vars
  PROVE  AskedOnce'
<1>0. orders \in Seq(Order) /\ leg \in Legs /\ 1 \in Legs /\ 2 \in Legs
      /\ \A l \in Legs : Committed(l) \in Int /\ target[l] \in 0..Lots
  BY SumsTyped DEF TypeOK, Legs
<1>1. CASE AbandonLeg \/ AbandonOnDrift \/ LegFailed
  <2>1. pc' \in {"unwind", "done"} /\ UNCHANGED <<faults, leg, target, orders>>
    BY <1>1 DEF AbandonLeg, AbandonOnDrift, LegFailed, GiveUp
  <2>2. \A l : Committed(l)' = Committed(l)
    BY <2>1, SumsKept
  <2> QED
    BY <2>1, <2>2 DEF AskedOnce
<1>2. CASE PrepareLeg
  <2>1. /\ pc = "leg" /\ pc' = "send" /\ UNCHANGED <<faults, leg, orders>>
        /\ target' = [target EXCEPT ![leg] = TargetOf(leg)]
    BY <1>2 DEF PrepareLeg
  <2>2. \A l : Committed(l)' = Committed(l)
    BY <2>1, SumsKept
  <2>3. TargetOf(leg) >= 0
    BY ExecutorAssumption DEF TypeOK, TargetOf, Following, Legs
  <2>4. \A l \in Legs : /\ l # leg => target'[l] = target[l]
                        /\ l = leg => target'[l] >= 0
    BY <2>1, <2>3 DEF TypeOK
  <2> QED
    BY <2>1, <2>2, <2>4 DEF AskedOnce
<1>3. ASSUME pc = "send", UNCHANGED <<faults, leg, target>>, faults \subseteq {"partial"},
             NEW k \in FillsOnAcceptance(OrderType, FALSE, leg, target[leg]),
             orders' = Append(orders, LegOrder(k)), pc' = "poll", current' = Len(orders) + 1,
             AskedOnce
      PROVE  AskedOnce'
  <2>1. /\ orders'[Len(orders) + 1] = LegOrder(k)
        /\ \A l \in Legs : /\ l # leg => Committed(l)' = Committed(l)
                           /\ l = leg => Committed(l)' = Committed(l) + Share(LegOrder(k))
    BY <1>3, SendEffect
  <2>2. k \in Nat /\ k <= target[leg]
    BY <1>3, LegOrderSent
  <2>3. Share(LegOrder(k)) \in Int /\ Share(LegOrder(k)) <= target[leg]
    BY <1>0, <2>2 DEF Share, LegOrder
  <2>4. \A l \in Legs : /\ Committed(l) <= target[l]
                        /\ l >= leg => Committed(l) = 0
    BY <1>0, <1>3 DEF AskedOnce, Legs
  <2>5. LegOrder(k).type = "LIMIT" => LegOrder(k).open
    BY DEF LegOrder
  <2>6. orders'[current'] = LegOrder(k)
    BY <1>3, <2>1
  <2>7. \A l \in Legs : /\ Committed(l)' <= target[l]
                        /\ l > leg => Committed(l)' = 0
                        /\ l = leg => Committed(l)' = Share(LegOrder(k))
    BY <1>0, <2>1, <2>3, <2>4 DEF Legs
  <2>8. /\ leg' = leg /\ target' = target /\ pc' = "poll"
        /\ orders'[current'].type = "LIMIT" => orders'[current'].open
    BY <1>3, <2>5, <2>6
  <2>9. \A l \in Legs : /\ Committed(l)' <= target'[l]
                        /\ l > leg' => Committed(l)' = 0
                        /\ l = leg' => Committed(l)' = Share(orders'[current'])
    BY <2>6, <2>7, <2>8
  <2> QED
    BY <2>8, <2>9 DEF AskedOnce
<1>4. CASE SendAccepted
  <2>1. /\ pc = "send" /\ UNCHANGED <<faults, leg, target>> /\ pc' = "poll"
        /\ current' = Len(orders) + 1
    BY <1>4 DEF SendAccepted
  <2>2. PICK k \in FillsOnAcceptance(OrderType, FALSE, leg, target[leg]) :
          orders' = Append(orders, LegOrder(k))
    BY <1>4 DEF SendAccepted, Accepted, LegOrder
  <2>3. CASE faults \subseteq {"partial"}
    BY <1>3, <2>1, <2>2, <2>3
  <2>4. CASE ~(faults \subseteq {"partial"})
    BY <2>1, <2>4 DEF AskedOnce
  <2> QED
    BY <2>3, <2>4
<1>5. CASE SendFails
  <2>1. /\ pc = "send" /\ pc' \in {"send", "failed"} /\ UNCHANGED <<faults, leg, target>>
        /\ UNCHANGED orders \/ "lost" \in faults
    BY <1>5 DEF SendFails
  <2>2. CASE UNCHANGED orders
    <3>1. \A l : Committed(l)' = Committed(l)
      BY <2>2, SumsKept
    <3> QED
      BY <2>1, <3>1 DEF AskedOnce
  <2>3. CASE "lost" \in faults
    BY <2>1, <2>3 DEF AskedOnce
  <2> QED
    BY <2>1, <2>2, <2>3
<1>6. CASE PollSeesFill
  <2>1. /\ pc' = (IF leg = 1 THEN "leg" ELSE "done") /\ leg' = 2
        /\ UNCHANGED <<faults, target, orders>>
    BY <1>6 DEF PollSeesFill
  <2>2. \A l : Committed(l)' = Committed(l)
    BY <2>1, SumsKept
  <2> QED
    BY <1>0, <2>1, <2>2 DEF AskedOnce, Legs
<1>7. CASE PollSeesNoFill
  <2>1. /\ pc = "poll" /\ pc' = "cancel" /\ UNCHANGED <<faults, leg, target, current, orders>>
        /\ "pollsFail" \in faults \/ ~SeenFilled(orders[current])
    BY <1>7 DEF PollSeesNoFill, NotSeenFilled
  <2>2. \A l : Committed(l)' = Committed(l)
    BY <2>1, SumsKept
  <2>3. orders[current] \in Order
    BY <2>1 DEF Following, TypeOK
  <2>4. ASSUME faults \subseteq {"partial"}, orders[current].type = "LIMIT"
        PROVE  orders[current].filled = 0
    BY <2>1, <2>3, <2>4 DEF AskedOnce, SeenFilled, Order
  <2> QED
    BY <2>1, <2>2, <2>4 DEF AskedOnce
<1>8. CASE Cancel
  <2>1. /\ pc = "cancel" /\ UNCHANGED <<faults, leg, target, current>>
        /\ "lost" \in faults \/ orders' = [orders EXCEPT ![current] = Cancelled(@)]
        /\ \/ attempt < MaxRetriesPerLeg /\ pc' = "send"
           \/ pc' = "failed"
    BY <1>8 DEF Cancel
  <2>2. CASE "lost" \in faults
    BY <2>1, <2>2 DEF AskedOnce
  <2>3. CASE "lost" \notin faults
    <3>1. \A l \in Legs :
            /\ l # leg => Committed(l)' = Committed(l)
            /\ l = leg => Committed(l)' = Committed(l) - Share(orders[current])
                                            + orders[current].filled
      BY <2>1, <2>3, CancelEffect
    <3>2. orders[current] \in Order /\ WellFormedOrder(orders[current])
          /\ orders[current].type = OrderType
      BY <2>1 DEF Following, TypeOK, WellFormed
    <3>3. Share(orders[current]) \in Int /\ orders[current].filled \in Nat
          /\ orders[current].filled <= Share(orders[current])
      BY <3>2 DEF Order, WellFormedOrder, Share
    <3>4. ASSUME faults \subseteq {"partial"}
          PROVE  \A l \in Legs : /\ Committed(l)' <= target[l]
                                 /\ l > leg => Committed(l)' = 0
                                 /\ l = leg => Committed(l)' = orders[current].filled
      <4>1. \A l \in Legs : /\ Committed(l) <= target[l]
                            /\ l > leg => Committed(l) = 0
                            /\ l = leg => Committed(l) = Share(orders[current])
        BY <2>1, <3>4 DEF AskedOnce
      <4> QED
        BY <1>0, <3>1, <3>3, <4>1 DEF Legs
    <3>5. ASSUME faults \subseteq {"partial"}, pc' = "send" PROVE orders[current].filled = 0
      BY <2>1, <3>2, <3>5 DEF AskedOnce, OrderType
    <3> QED
      BY <2>1, <3>4, <3>5 DEF AskedOnce
  <2> QED
    BY <2>2, <2>3
<1>9. CASE UnwindAccepted \/ UnwindFails
  <2>1. /\ pc' \in {"unwind", "unwindPoll", "done"} /\ UNCHANGED <<faults, leg, target>>
        /\ UNCHANGED orders \/ \E k \in UnwindFills : orders' = Append(orders, UnwindOrder(k))
    BY <1>9 DEF UnwindAccepted, UnwindFails, UnwindAttemptFailed, UnwindSent, UnwindOrder
  <2>2. \A l \in Legs : Committed(l)' = Committed(l)
    BY <2>1, SumsKept, UnwindEffect
  <2> QED
    BY <2>1, <2>2 DEF AskedOnce
<1>10. CASE UnwindSeenFilled \/ UnwindNotSeenFilled
  <2>1. /\ pc' \in {"unwind", "done"} /\ UNCHANGED <<faults, leg, target, orders>>
    BY <1>10 DEF UnwindSeenFilled, UnwindNotSeenFilled, UnwindAttemptFailed
  <2>2. \A l : Committed(l)' = Committed(l)
    BY <2>1, SumsKept
  <2> QED
    BY <2>1, <2>2 DEF AskedOnce
<1>11. ASSUME NEW n \in DOMAIN orders, Fill(n) PROVE AskedOnce'
  <2>1. /\ UNCHANGED <<pc, faults, leg, current, target>>
        /\ pc = "cancel" => "late" \in faults
    BY <1>11 DEF Fill
  <2>2. /\ \A l \in Legs : Committed(l)' = Committed(l)
        /\ \A m \in DOMAIN orders : Share(orders'[m]) = Share(orders[m])
    BY <1>11, FillEffect
  <2>3. pc \in {"poll", "cancel"} => current \in DOMAIN orders
    BY DEF Following
  <2>4. /\ \A m \in 1..Len(orders) : m # n => orders'[m] = orders[m]
        /\ orders'[n] \in Order /\ WellFormedOrder(orders'[n])
        /\ orders'[n].open <=> orders'[n].filled < orders'[n].qty
    BY <1>11, OrderFilled
  <2>5. ASSUME faults \subseteq {"partial"}, pc = "poll",
               orders'[current].type = "LIMIT", ~orders'[current].open
        PROVE  orders'[current].filled = orders'[current].qty
    <3>1. CASE current = n
      BY <2>4, <2>5, <3>1 DEF Order, WellFormedOrder
    <3>2. CASE current # n
      <4>1. orders'[current] = orders[current]
        BY <1>0, <2>3, <2>4, <2>5, <3>2
      <4> QED
        BY <2>5, <4>1 DEF AskedOnce
    <3> QED
      BY <3>1, <3>2
  <2> QED
    BY <2>1, <2>2, <2>3, <2>5 DEF AskedOnce
<1>12. CASE Tick \/ UNCHANGED vars
  <2>1. UNCHANGED <<pc, faults, leg, current, target, orders>>
    BY <1>12 DEF Tick, vars
  <2>2. \A l : Committed(l)' = Committed(l)
    BY <2>1, SumsKept
  <2> QED
    BY <2>1, <2>2 DEF AskedOnce
<1> QED
  BY <1>1, <1>2, <1>4, <1>5, <1>6, <1>7, <1>8, <1>9, <1>10, <1>11, <1>12 DEF Next, Step

\* On an exchange that answers and fills orders whole, no step leaves the legs
\* unequal at the end without an alarm.
LEMMA BalancedStep ==
  ASSUME IInv, [Next]_vars
  PROVE  Balanced'
<1> USE DEF IInv
<1>0. /\ orders \in Seq(Order) /\ leg \in Legs /\ 1 \in Legs /\ 2 \in Legs /\ Legs = {1, 2}
      /\ Lots \in Nat /\ Lots > 0
      /\ \A l : Committed(l) \in Int /\ Bought(l) \in Int /\ Sold(l) \in Int
  BY SumsTyped, ExecutorAssumption DEF TypeOK, Legs
<1>f. faults' = faults
  BY DEF Next, Step, vars, AbandonLeg, AbandonOnDrift, PrepareLeg, SendAccepted, SendFails,
         PollSeesFill, PollSeesNoFill, Cancel, LegFailed, UnwindAccepted, UnwindFails,
         UnwindSeenFilled, UnwindNotSeenFilled, Fill, Tick
<1>s. SUFFICES ASSUME faults = {} PROVE Balanced'
  BY <1>f DEF Balanced
<1>p. faults \subseteq {"partial"} /\ \A e : e \notin faults
  BY <1>s
<1>b. /\ \A n \in DOMAIN orders : orders[n].open => n = current /\ pc \in {"poll", "cancel"}
      /\ ~result[1].partial
  BY <1>s DEF Balanced
<1>c. pc \in {"poll", "cancel"} =>
        /\ current \in DOMAIN orders /\ orders[current] \in Order
        /\ orders[current].filled \in Nat /\ orders[current].qty = Lots
        /\ orders[current].leg = leg
        /\ orders[current].open => orders[current].filled < orders[current].qty
        /\ orders[current].filled \in {0, Lots}
  <2>1. SUFFICES ASSUME pc \in {"poll", "cancel"}
                 PROVE  /\ current \in DOMAIN orders /\ orders[current] \in Order
                        /\ orders[current].filled \in Nat /\ orders[current].qty = Lots
                        /\ orders[current].leg = leg
                        /\ orders[current].open => orders[current].filled < orders[current].qty
                        /\ orders[current].filled \in {0, Lots}
    OBVIOUS
  <2>2. /\ current \in DOMAIN orders /\ orders[current].qty = target[leg]
        /\ orders[current].leg = leg
    BY <2>1 DEF Following
  <2>3. orders[current] \in Order /\ WellFormedOrder(orders[current])
    BY <1>0, <2>2 DEF WellFormed
  <2>4. target[leg] = Lots
    BY <1>s, <2>1 DEF Balanced, Sending
  <2>5. orders[current].filled \in {0, orders[current].qty}
    BY <1>s, <2>1 DEF Balanced
  <2> QED
    BY <2>2, <2>3, <2>4, <2>5 DEF Order, WellFormedOrder
<1>1. CASE AbandonLeg \/ AbandonOnDrift \/ LegFailed
  <2>1. /\ pc \in {"leg", "failed"}
        /\ pc' = (IF leg = 2 THEN "unwind" ELSE "done")
        /\ UNCHANGED <<leg, current, target, result, orders>>
    BY <1>1 DEF AbandonLeg, AbandonOnDrift, LegFailed, GiveUp
  <2>2. \A l : Committed(l)' = Committed(l) /\ Bought(l)' = Bought(l) /\ Sold(l)' = Sold(l)
    BY <2>1, SumsKept
  <2>3. \A l \in Legs : l = leg => Committed(l) = 0
    BY <1>s, <1>p, <2>1 DEF AskedOnce, Balanced
  <2>4. leg = 1 => Committed(2) = 0
    BY <1>0, <1>p DEF AskedOnce
  <2>5. Sold(1) = 0 /\ (leg = 2 => result[1].qty = Lots /\ Bought(1) = Lots /\ Committed(1) = Lots)
        /\ \A l \in Legs : Committed(l) = Bought(l)
    BY <1>s, <2>1 DEF Balanced
  <2> QED
    BY <1>0, <1>b, <2>1, <2>2, <2>3, <2>4, <2>5 DEF Balanced, Sending
<1>2. CASE PrepareLeg
  <2>1. /\ pc = "leg" /\ pc' = "send" /\ UNCHANGED <<leg, current, result, orders>>
        /\ target' = [target EXCEPT ![leg] = TargetOf(leg)]
    BY <1>2 DEF PrepareLeg
  <2>2. \A l : Committed(l)' = Committed(l) /\ Bought(l)' = Bought(l) /\ Sold(l)' = Sold(l)
    BY <2>1, SumsKept
  <2>3. target'[leg] = Lots
    BY <1>b, <2>1 DEF TypeOK, TargetOf
  <2>4. Sold(1) = 0 /\ (leg = 2 => result[1].qty = Lots /\ Bought(1) = Lots /\ Committed(1) = Lots)
        /\ \A l \in Legs : Committed(l) = Bought(l)
    BY <1>s, <2>1 DEF Balanced
  <2> QED
    BY <1>b, <2>1, <2>2, <2>3, <2>4 DEF Balanced, Sending
<1>3. CASE SendAccepted
  <2>1. /\ pc = "send" /\ pc' = "poll" /\ current' = Len(orders) + 1
        /\ UNCHANGED <<leg, target, result>>
    BY <1>3 DEF SendAccepted
  <2>2. PICK k \in FillsOnAcceptance(OrderType, FALSE, leg, target[leg]) :
          orders' = Append(orders, LegOrder(k))
    BY <1>3 DEF SendAccepted, Accepted, LegOrder
  <2>3. k \in {0, target[leg]}
    BY <1>s, <2>1, LegOrderSent
  <2>4. /\ orders'[Len(orders) + 1] = LegOrder(k)
        /\ DOMAIN orders' = DOMAIN orders \cup {Len(orders) + 1}
        /\ \A n \in DOMAIN orders : orders'[n] = orders[n]
        /\ \A l \in Legs : /\ Sold(l)' = Sold(l)
                           /\ l # leg => Committed(l)' = Committed(l) /\ Bought(l)' = Bought(l)
                           /\ l = leg => Bought(l)' = Bought(l) + k
    BY <2>1, <2>2, SendEffect
  <2>5. \A l \in Legs : l = leg => Bought(l) = 0
    BY <1>s, <1>p, <2>1 DEF Balanced, AskedOnce
  <2>6. /\ Sold(1) = 0
        /\ leg = 2 => result[1].qty = Lots /\ Bought(1) = Lots /\ Committed(1) = Lots
        /\ \A l \in Legs : Committed(l) = Bought(l)
        /\ target[leg] = Lots
    BY <1>s, <2>1 DEF Balanced, Sending
  <2>7. orders'[current'].filled = k /\ orders'[current'].qty = target[leg]
    BY <2>1, <2>4 DEF LegOrder
  <2>8. k \in Int
    BY <1>0, <2>3, <2>6
  <2>9. \A n \in DOMAIN orders' : orders'[n].open => n = current'
    BY <1>b, <2>1, <2>4
  <2>10. \A l \in Legs : /\ l = leg => Bought(l)' = k
                         /\ l # leg => Committed(l)' = Bought(l)'
    BY <2>4, <2>5, <2>6, <2>8
  <2>11. Sold(1)' = 0 /\ (leg = 2 => Bought(1)' = Lots /\ Committed(1)' = Lots)
    BY <1>0, <2>4, <2>6
  <2>12. /\ pc' = "poll" /\ leg' = leg /\ target' = target /\ result' = result
    BY <2>1
  <2> QED
    BY <1>b, <2>3, <2>6, <2>7, <2>9, <2>10, <2>11, <2>12 DEF Balanced, Sending
<1>4. CASE SendFails
  <2>1. /\ pc = "send" /\ pc' \in {"send", "failed"}
        /\ UNCHANGED <<leg, current, target, result, orders>>
    BY <1>4, <1>p DEF SendFails
  <2>2. \A l : Committed(l)' = Committed(l) /\ Bought(l)' = Bought(l) /\ Sold(l)' = Sold(l)
    BY <2>1, SumsKept
  <2>3. \A l \in Legs : l = leg => Committed(l) = 0
    BY <1>p, <2>1 DEF AskedOnce
  <2>4. /\ Sold(1) = 0
        /\ leg = 2 => result[1].qty = Lots /\ Bought(1) = Lots /\ Committed(1) = Lots
        /\ \A l \in Legs : Committed(l) = Bought(l)
        /\ target[leg] = Lots
    BY <1>s, <2>1 DEF Balanced, Sending
  <2> QED
    BY <1>b, <2>1, <2>2, <2>3, <2>4 DEF Balanced, Sending
<1>5. CASE PollSeesFill
  <2>1. /\ pc = "poll" /\ SeenFilled(orders[current])
        /\ result' = [result EXCEPT ![leg] =
             [filled |-> TRUE, partial |-> orders[current].filled < orders[current].qty,
              qty |-> orders[current].filled, at |-> now]]
        /\ pc' = (IF leg = 1 THEN "leg" ELSE "done") /\ leg' = 2
        /\ UNCHANGED <<current, target, orders>>
    BY <1>5 DEF PollSeesFill
  <2>2. \A l : Committed(l)' = Committed(l) /\ Bought(l)' = Bought(l) /\ Sold(l)' = Sold(l)
    BY <2>1, SumsKept
  <2>3. orders[current].filled = Lots /\ ~orders[current].open /\ orders[current].qty = Lots
    BY <1>0, <1>c, <2>1 DEF SeenFilled
  <2>4. \A n \in DOMAIN orders : ~orders[n].open
    BY <1>b, <2>3
  <2>5. \A l \in Legs : /\ l = leg => Committed(l) = Lots /\ Bought(l) = Lots
                        /\ l # leg => Committed(l) = Bought(l)
                        /\ l > leg => Committed(l) = 0
    BY <1>s, <1>p, <2>1, <2>3 DEF Balanced, AskedOnce, Share
  <2>6. Sold(1) = 0
        /\ (leg = 2 => result[1].qty = Lots /\ Bought(1) = Lots /\ Committed(1) = Lots)
    BY <1>s, <2>1 DEF Balanced
  <2>7. ~result'[1].partial /\ result'[1].qty = Lots
    <3>1. CASE leg = 1
      <4>1. /\ result'[1].partial <=> orders[current].filled < orders[current].qty
            /\ result'[1].qty = orders[current].filled
        BY <2>1, <3>1 DEF TypeOK, Legs
      <4> QED
        BY <1>0, <2>3, <4>1
    <3>2. CASE leg = 2
      <4>1. result'[1] = result[1]
        BY <2>1, <3>2 DEF TypeOK, Legs
      <4> QED
        BY <1>b, <2>6, <3>2, <4>1
    <3> QED
      BY <1>0, <3>1, <3>2
  <2>8. Bought(1) = Lots /\ Committed(1) = Lots /\ (leg = 2 => Committed(2) = Lots)
        /\ \A l \in Legs : Committed(l) = Bought(l)
    BY <1>0, <2>5, <2>6
  <2>9. pc' \in {"leg", "done"} /\ (pc' = "done" => leg = 2) /\ orders' = orders /\ leg' = 2
    BY <1>0, <2>1
  <2>10. pc' = "done" => Committed(1) - Sold(1) = Committed(2)
    BY <1>0, <2>6, <2>8, <2>9
  <2> QED
    BY <2>2, <2>4, <2>6, <2>7, <2>8, <2>9, <2>10 DEF Balanced, Sending
<1>6. CASE PollSeesNoFill
  <2>1. /\ pc = "poll" /\ pc' = "cancel" /\ ~SeenFilled(orders[current])
        /\ UNCHANGED <<leg, target, result, current, orders>>
    BY <1>6, <1>p DEF PollSeesNoFill, NotSeenFilled
  <2>2. \A l : Committed(l)' = Committed(l) /\ Bought(l)' = Bought(l) /\ Sold(l)' = Sold(l)
    BY <2>1, SumsKept
  <2>3. orders[current].filled = 0
    BY <1>c, <2>1 DEF SeenFilled
  <2>4. /\ Sold(1) = 0
        /\ leg = 2 => result[1].qty = Lots /\ Bought(1) = Lots /\ Committed(1) = Lots
        /\ target[leg] = Lots
        /\ \A l \in Legs : l # leg => Committed(l) = Bought(l)
        /\ \A l \in Legs : l = leg => Bought(l) = orders[current].filled
    BY <1>s, <2>1 DEF Balanced, Sending
  <2> QED
    BY <1>b, <2>1, <2>2, <2>3, <2>4 DEF Balanced, Sending
<1>7. CASE Cancel
  <2>1. /\ pc = "cancel" /\ UNCHANGED <<leg, target, current, result>>
        /\ pc' \in {"send", "failed"}
        /\ orders' = [orders EXCEPT ![current] = Cancelled(@)]
    BY <1>7, <1>p DEF Cancel
  <2>2. /\ DOMAIN orders' = DOMAIN orders
        /\ \A m \in DOMAIN orders : m # current => orders'[m] = orders[m]
        /\ ~orders'[current].open
        /\ \A l \in Legs :
             /\ Sold(l)' = Sold(l) /\ Bought(l)' = Bought(l)
             /\ l # leg => Committed(l)' = Committed(l)
             /\ l = leg => Committed(l)' = Committed(l) - Share(orders[current])
                                             + orders[current].filled
    BY <2>1, CancelEffect
  <2>3. /\ Sold(1) = 0
        /\ leg = 2 => result[1].qty = Lots /\ Bought(1) = Lots /\ Committed(1) = Lots
        /\ target[leg] = Lots /\ orders[current].filled = 0
        /\ \A l \in Legs : l # leg => Committed(l) = Bought(l)
        /\ \A l \in Legs : l = leg => Bought(l) = 0
    BY <1>s, <2>1 DEF Balanced, Sending
  <2>4. \A l \in Legs : l = leg => Committed(l) = Share(orders[current])
    BY <1>p, <2>1 DEF AskedOnce
  <2>5. \A n \in DOMAIN orders' : ~orders'[n].open
    BY <1>b, <2>2
  <2>6. \A l \in Legs : /\ l = leg => Committed(l)' = 0
                        /\ Committed(l)' = Bought(l)'
    BY <1>0, <2>2, <2>3, <2>4
  <2>7. /\ Sold(1)' = 0 /\ (leg = 2 => Bought(1)' = Lots /\ Committed(1)' = Lots)
    BY <1>0, <2>2, <2>3
  <2>8. /\ pc' \in {"send", "failed"} /\ leg' = leg /\ target' = target /\ result' = result
    BY <2>1
  <2> QED
    BY <1>b, <2>3, <2>5, <2>6, <2>7, <2>8 DEF Balanced, Sending
<1>8. CASE UnwindAccepted
  <2>1. /\ pc = "unwind" /\ pc' = "unwindPoll" /\ current' = Len(orders) + 1
        /\ UNCHANGED <<leg, target, result>>
    BY <1>8 DEF UnwindAccepted
  <2>2. PICK k \in UnwindFills : orders' = Append(orders, UnwindOrder(k))
    BY <1>8 DEF UnwindAccepted, UnwindSent, UnwindOrder
  <2>3. leg = 2 /\ result[1].qty = Lots /\ Bought(1) = Lots /\ Committed(1) = Lots /\ Sold(1) = 0
        /\ Committed(2) = 0 /\ \A l \in Legs : Committed(l) = Bought(l)
    BY <1>0, <1>s, <2>1 DEF Balanced, Following
  <2>4. k = Lots
    <3>1. k = Lower(result[1].qty, Held(1))
      BY <1>s, UnwindOrderSent
    <3>2. Held(1) = Bought(1) - Sold(1)
      BY <1>0, HeldIs
    <3> QED
      BY <1>0, <2>3, <3>1, <3>2 DEF Lower
  <2>5. /\ orders'[Len(orders) + 1] = UnwindOrder(k)
        /\ DOMAIN orders' = DOMAIN orders \cup {Len(orders) + 1}
        /\ \A n \in DOMAIN orders : orders'[n] = orders[n]
        /\ \A l \in Legs : Committed(l)' = Committed(l) /\ Bought(l)' = Bought(l)
        /\ Sold(1)' = Sold(1) + k
    BY <2>2, UnwindEffect
  <2>6. \A n \in DOMAIN orders' : ~orders'[n].open
    BY <1>b, <2>1, <2>5 DEF UnwindOrder
  <2>7. orders'[current'].filled = orders'[current'].qty
    BY <2>1, <2>3, <2>4, <2>5 DEF UnwindOrder
  <2>8. Sold(1)' = Lots /\ Bought(1)' = Lots /\ Committed(1)' = Lots /\ Committed(2)' = 0
        /\ \A l \in Legs : Committed(l)' = Bought(l)'
    BY <1>0, <2>3, <2>4, <2>5
  <2>9. pc' = "unwindPoll" /\ leg' = leg /\ result' = result
    BY <2>1
  <2> QED
    BY <1>0, <1>b, <2>3, <2>6, <2>7, <2>8, <2>9 DEF Balanced, Sending
<1>9. CASE UnwindFails
  <2>1. /\ pc = "unwind" /\ UNCHANGED <<leg, target, current, result, orders>>
        /\ \/ pc' = "unwind"
           \/ pc' = "done" /\ events' = Append(events, <<"HEDGE_FAILED", 1>>)
    BY <1>9, <1>p DEF UnwindFails, UnwindAttemptFailed
  <2>2. \A l : Committed(l)' = Committed(l) /\ Bought(l)' = Bought(l) /\ Sold(l)' = Sold(l)
    BY <2>1, SumsKept
  <2>3. leg = 2 /\ result[1].qty = Lots /\ Bought(1) = Lots /\ Committed(1) = Lots /\ Sold(1) = 0
        /\ Committed(2) = 0 /\ \A l \in Legs : Committed(l) = Bought(l)
    BY <1>0, <1>s, <2>1 DEF Balanced, Following
  <2>4. pc' = "done" => Alarmed'
    <3>1. SUFFICES ASSUME events' = Append(events, <<"HEDGE_FAILED", 1>>) PROVE Alarmed'
      BY <2>1
    <3>2. events \in Seq(EventTypes \X Legs)
      BY DEF TypeOK
    <3>3. Len(events) + 1 \in DOMAIN events' /\ events'[Len(events) + 1] = <<"HEDGE_FAILED", 1>>
      BY <3>1, <3>2
    <3> QED
      BY <3>3 DEF Alarmed
  <2> QED
    BY <1>b, <2>1, <2>2, <2>3, <2>4 DEF Balanced, Sending
<1>10. CASE UnwindSeenFilled
  <2>1. /\ pc = "unwindPoll" /\ pc' = "done" /\ UNCHANGED <<leg, current, result, orders>>
    BY <1>10 DEF UnwindSeenFilled
  <2>2. \A l : Committed(l)' = Committed(l) /\ Bought(l)' = Bought(l) /\ Sold(l)' = Sold(l)
    BY <2>1, SumsKept
  <2>3. leg = 2 /\ Committed(1) = Lots /\ Sold(1) = Lots /\ Committed(2) = 0
        /\ \A l \in Legs : Committed(l) = Bought(l)
    BY <1>0, <1>s, <2>1 DEF Balanced, Following
  <2>4. Committed(1) - Sold(1) = Committed(2)
    BY <1>0, <2>3
  <2> QED
    BY <1>b, <2>1, <2>2, <2>3, <2>4 DEF Balanced, Sending
<1>11. CASE UnwindNotSeenFilled
  <2>1. pc = "unwindPoll" /\ orders[current].filled < orders[current].qty
    BY <1>11, <1>p DEF UnwindNotSeenFilled
  <2>2. current \in DOMAIN orders /\ orders[current].filled = orders[current].qty
    BY <1>s, <2>1 DEF Balanced, Following
  <2>3. orders[current] \in Order
    BY <1>0, <2>2
  <2> QED
    BY <2>1, <2>2, <2>3 DEF Order
<1>12. ASSUME NEW n \in DOMAIN orders, Fill(n) PROVE Balanced'
  <2>1. /\ UNCHANGED <<pc, leg, current, target, result>>
        /\ pc # "cancel" /\ orders[n].open
    BY <1>12, <1>p DEF Fill
  <2>2. n = current /\ pc = "poll"
    BY <1>b, <2>1
  <2>3. /\ DOMAIN orders' = DOMAIN orders
        /\ \A l \in Legs :
             /\ Committed(l)' = Committed(l) /\ Sold(l)' = Sold(l)
             /\ l # orders[n].leg => Bought(l)' = Bought(l)
             /\ l = orders[n].leg => Bought(l)' = Bought(l) - orders[n].filled + orders'[n].filled
    BY <1>12, FillEffect
  <2>4. /\ \A m \in 1..Len(orders) : m # n => orders'[m] = orders[m]
        /\ orders'[n] \in Order /\ orders'[n].filled = orders'[n].qty
    BY <1>12, <1>s, OrderFilled
  <2>5. /\ Sold(1) = 0
        /\ leg = 2 => result[1].qty = Lots /\ Bought(1) = Lots /\ Committed(1) = Lots
        /\ target[leg] = Lots
        /\ \A l \in Legs : l # leg => Committed(l) = Bought(l)
        /\ \A l \in Legs : l = leg => Bought(l) = orders[current].filled
    BY <1>s, <2>2 DEF Balanced, Sending
  <2>6. orders[n].leg = leg /\ orders[n].filled \in Nat /\ orders'[n].filled \in Nat
    BY <1>c, <2>2, <2>4 DEF Order
  <2>7. \A m \in DOMAIN orders' : orders'[m].open => m = current
    BY <1>0, <1>b, <2>2, <2>3, <2>4
  <2>8. \A l \in Legs : /\ l = leg => Bought(l)' = orders'[current].filled
                        /\ l # leg => Committed(l)' = Bought(l)'
    BY <2>2, <2>3, <2>5, <2>6
  <2>9. Sold(1)' = 0 /\ (leg = 2 => Bought(1)' = Lots /\ Committed(1)' = Lots)
    BY <1>0, <2>3, <2>5, <2>6
  <2>10. orders'[current].filled \in {0, orders'[current].qty}
    BY <2>2, <2>4
  <2>11. /\ pc' = "poll" /\ leg' = leg /\ current' = current /\ target' = target
         /\ result' = result
    BY <2>1, <2>2
  <2> QED
    BY <1>b, <2>5, <2>7, <2>8, <2>9, <2>10, <2>11 DEF Balanced, Sending
<1>13. CASE Tick \/ UNCHANGED vars
  <2>1. UNCHANGED <<pc, leg, current, target, result, orders, events>>
    BY <1>13 DEF Tick, vars
  <2>2. \A l : Committed(l)' = Committed(l) /\ Bought(l)' = Bought(l) /\ Sold(l)' = Sold(l)
    BY <2>1, SumsKept
  <2>3. Alarmed' = Alarmed
    BY <2>1 DEF Alarmed
  <2> QED
    BY <1>s, <2>1, <2>2, <2>3 DEF Balanced
<1> QED
  BY <1>1, <1>2, <1>3, <1>4, <1>5, <1>6, <1>7, <1>8, <1>9, <1>10, <1>11, <1>12, <1>13
     DEF Next, Step

\* No order has been sent at the start.
LEMMA InvInit ==
  ASSUME Init
  PROVE  IInv
<1>1. orders = << >> /\ DOMAIN orders = {} /\ orders \in Seq(Order) /\ Len(orders) = 0
  BY DEF Init
<1>2. \A l : Committed(l) = 0 /\ Bought(l) = 0 /\ Sold(l) = 0
  BY <1>1, SummedEmpty DEF Committed, Bought, Sold
<1>3. TypeOK
  <2>1. [l \in Legs |-> [filled |-> FALSE, partial |-> FALSE, qty |-> 0, at |-> 0]]
          \in [Legs -> Result]
    BY DEF Result
  <2>2. << >> \in Seq(EventTypes \X Legs)
    OBVIOUS
  <2> QED
    BY <1>1, <2>1, <2>2, ExecutorAssumption DEF Init, TypeOK, Legs
<1>4. /\ pc = "leg" /\ leg = 1 /\ \A l \in Legs : target[l] = 0
      /\ ~result[1].partial
  BY DEF Init, Legs
<1>5. WellFormed /\ Following
  BY <1>1, <1>4 DEF WellFormed, Following, Sending
<1>6. NotSoldShort /\ AskedOnce /\ Balanced
  BY <1>1, <1>2, <1>4 DEF NotSoldShort, AskedOnce, Balanced, Sending
<1> QED
  BY <1>3, <1>5, <1>6 DEF IInv

\* The parts of the invariant together.
LEMMA InvStep ==
  ASSUME IInv, [Next]_vars
  PROVE  IInv'
<1>1. TypeOK' /\ Following'
  BY TypeStep, FollowingStep DEF IInv
<1>2. WellFormed' /\ NotSoldShort'
  BY BookStep DEF IInv
<1>3. AskedOnce'
  BY AskedStep DEF IInv
<1>4. Balanced'
  BY BalancedStep
<1> QED
  BY <1>1, <1>2, <1>3, <1>4 DEF IInv

\* So it holds throughout.
LEMMA InvHolds == Spec => []IInv
<1>1. Init => IInv
  BY InvInit
<1>2. IInv /\ [Next]_vars => IInv'
  BY InvStep
<1> QED
  BY <1>1, <1>2, PTL DEF Spec

-----------------------------------------------------------------------------
(* Every variable stays in its type.                                       *)
THEOREM ExecutorTypeSafe == Spec => []TypeOK
<1>1. IInv => TypeOK
  BY DEF IInv
<1> QED
  BY <1>1, InvHolds, PTL

\* However many unwind orders were sent for a fill, whose answers were lost or
\* late, the position is never turned around (emergencyUnwind).
THEOREM UnwindNeverReverses == Spec => []NeverReversed
<1>1. IInv => NeverReversed
  <2>1. SUFFICES ASSUME IInv, NEW l \in Legs PROVE Held(l) >= 0
    BY DEF NeverReversed
  <2>2. orders \in Seq(Order) /\ NotSoldShort /\ l \in {1, 2}
    BY <2>1 DEF IInv, TypeOK, Legs
  <2>3. Held(l) = Bought(l) - Sold(l) /\ Bought(l) \in Int /\ Sold(l) \in Int
    BY <2>1, <2>2, HeldIs, SumsTyped
  <2>4. Bought(2) >= 0
    <3>1. \A n \in DOMAIN orders : orders[n] \in Order
      BY <2>2, SeqIndices
    <3>2. \A n \in DOMAIN orders : BoughtBy(2)[orders[n]] >= 0
      BY <3>1 DEF BoughtBy, Order
    <3> QED
      BY <2>2, <3>2, Weights, SummedNonNegative DEF Bought
  <2> QED
    BY <2>2, <2>3, <2>4 DEF NotSoldShort
<1> QED
  BY <1>1, InvHolds, PTL

\* Retries, widened or as IOC, do not add up: while no answer is lost or late,
\* a leg never gets more than it asked for (executeLeg's attempts).
THEOREM RetriesNeverOverfill == Spec => []NeverOverfilled
<1>1. IInv => NeverOverfilled
  <2>1. SUFFICES ASSUME IInv, faults \subseteq {"partial"}, NEW l \in Legs
                 PROVE  Held(l) <= target[l]
    BY DEF NeverOverfilled
  <2>2. orders \in Seq(Order) /\ target[l] \in Int /\ WellFormed /\ Committed(l) <= target[l]
    BY <2>1 DEF IInv, TypeOK, AskedOnce
  <2>3. Held(l) = Bought(l) - Sold(l)
    BY <2>1, <2>2, HeldIs
  <2>4. /\ Bought(l) \in Int /\ Sold(l) \in Int /\ Committed(l) \in Int
        /\ Sold(l) >= 0 /\ Bought(l) <= Committed(l)
    BY <2>2, SumsTyped
  <2> QED
    BY <2>2, <2>3, <2>4
<1> QED
  BY <1>1, InvHolds, PTL

\* On an exchange that answers and fills orders whole, Execute leaves the pair
\* hedged or flat, or raises the alarm.
THEOREM ExecuteHedgesOrAlarms == Spec => []HedgedOrAlarmed
<1>1. IInv => HedgedOrAlarmed
  <2>1. SUFFICES ASSUME IInv, pc = "done", faults = {}, ~Alarmed PROVE Held(1) = Held(2)
    BY DEF HedgedOrAlarmed
  <2>2. orders \in Seq(Order) /\ 1 \in Legs /\ 2 \in Legs /\ Sold(2) = 0
    BY <2>1 DEF IInv, TypeOK, NotSoldShort, Legs
  <2>3. Committed(1) - Sold(1) = Committed(2) /\ \A l \in Legs : Committed(l) = Bought(l)
    BY <2>1 DEF IInv, Balanced
  <2>4. Held(1) = Bought(1) - Sold(1) /\ Held(2) = Bought(2) - Sold(2)
    BY <2>2, HeldIs
  <2>5. Bought(2) \in Int
    BY <2>2, SumsTyped
  <2> QED
    BY <2>2, <2>3, <2>4, <2>5
<1> QED
  BY <1>1, InvHolds, PTL
=============================================================================
