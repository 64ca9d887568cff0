------------------------------- MODULE Executor -------------------------------
(***************************************************************************)
(* One call of Execute in internal/execution/executor.go: a two-leg intent *)
(* carried out leg by leg against the exchange, with retries, the hedge    *)
(* drift check and the emergency unwind.  Quantities are in lots, the same *)
(* for both legs (a hedge beta of one).                                    *)
(*                                                                         *)
(* The exchange is modelled from how the code uses it: a limit order rests *)
(* until it is filled or cancelled, an IOC or market order is settled when *)
(* it is accepted, a reduce-only order never turns a position around.  What *)
(* can go wrong with it is chosen when Execute is called:                  *)
(*   "partial"    orders may be filled in part                             *)
(*   "lost"       an accepted order, or a cancel, may be answered by an error *)
(*   "late"       an order may be filled between the last poll and the cancel *)
(*   "pollsFail"  every poll of an order may fail                          *)
(***************************************************************************)
EXTENDS Integers, Sequences, Functions

CONSTANTS
  MaxRetriesPerLeg,
  HedgeDriftMax,     \* ticks
  MaxUnwindRetries,  \* three in emergencyUnwind
  Lots,              \* lots of each leg
  Parts,             \* sizes in which a resting order may be filled in part
  ExpiresAt,         \* the intent's ExpiresMs
  Faults,            \* what may go wrong with the exchange
  MaxTime            \* bound: last tick explored

ASSUME ExecutorAssumption ==
  /\ MaxRetriesPerLeg \in Nat \ {0} /\ MaxUnwindRetries \in Nat
  /\ HedgeDriftMax \in Nat
  /\ Lots \in Nat \ {0} /\ Parts \subseteq 1..(Lots - 1)
  /\ ExpiresAt \in Nat /\ MaxTime \in Nat
  /\ Faults \subseteq {"partial", "lost", "late", "pollsFail"}

VARIABLES
  faults,     \* what goes wrong with the exchange in this call
  now,
  pc,         \* what Execute is about to do
  leg,        \* 1 or 2
  attempt,    \* of the order, or of the unwind
  current,    \* the order being followed, by its place in orders
  target,     \* leg -> lots asked for
  result,     \* leg -> outcome
  events,     \* the events to be returned: <<type, leg>>, in order
  orders      \* the exchange: every order it accepted

vars == <<faults, now, pc, leg, attempt, current, target, result, events,
          orders>>

Legs == 1..2
EventTypes == {"ORDER_SENT", "ORDER_RETRY", "ORDER_FILLED", "ORDER_PARTIAL",
               "ORDER_REJECTED", "HEDGE_DRIFT", "HEDGE_FAILED"}
Order  == [leg : Legs, type : {"LIMIT", "IOC", "MARKET"}, reduceOnly : BOOLEAN,
           qty : Nat, filled : Nat, open : BOOLEAN]
Result == [filled : BOOLEAN, partial : BOOLEAN, qty : Nat, at : Nat]

TypeOK ==
  /\ faults \subseteq Faults
  /\ now \in Nat
  /\ pc \in {"leg", "send", "poll", "cancel", "failed", "unwind",
             "unwindPoll", "done"}
  /\ leg \in Legs
  /\ attempt \in 0..(MaxRetriesPerLeg + MaxUnwindRetries)
  /\ current \in 0..Len(orders)
  /\ target \in [Legs -> 0..Lots]
  /\ result \in [Legs -> Result]
  /\ events \in Seq(EventTypes \X Legs)
  /\ orders \in Seq(Order)

Init ==
  /\ faults \in SUBSET Faults
  /\ now = 0
  /\ pc = "leg" /\ leg = 1 /\ attempt = 0 /\ current = 0
  /\ target = [l \in Legs |-> 0]
  /\ result = [l \in Legs |-> [filled |-> FALSE, partial |-> FALSE,
                               qty |-> 0, at |-> 0]]
  /\ events = << >> /\ orders = << >>

Emit(type) == events' = Append(events, <<type, leg>>)

-----------------------------------------------------------------------------
(* The exchange.                                                           *)

SumOf(l, reduce) ==
  SumFunction([n \in DOMAIN orders |->
                 IF orders[n].leg = l /\ orders[n].reduceOnly = reduce
                 THEN orders[n].filled ELSE 0])

\* The lots of the leg that the account holds.
Held(l) == SumOf(l, FALSE) - SumOf(l, TRUE)

Lower(a, b) == IF a < b THEN a ELSE b

PartsBelow(most) == {k \in Parts : "partial" \in faults /\ k < most}

\* Lots an order of this type may be filled with when it is accepted.
FillsOnAcceptance(type, reduce, l, qty) ==
  LET most == IF reduce THEN Lower(qty, Held(l)) ELSE qty
  IN  CASE type = "LIMIT"  -> {0}
        [] type = "MARKET" -> {most} \cup PartsBelow(most)
        [] type = "IOC"    -> {0, most} \cup PartsBelow(most)

Accepted(type, reduce, l, qty, k) ==
  orders' = Append(orders, [leg |-> l, type |-> type, reduceOnly |-> reduce,
                            qty |-> qty, filled |-> k, open |-> type = "LIMIT"])

\* A resting order is filled, in whole or in part, at any time.
Fill(n) ==
  LET o == orders[n]
      rest == o.qty - o.filled
  IN  /\ o.open
      /\ pc = "cancel" => "late" \in faults
      /\ \E k \in {rest} \cup PartsBelow(rest) :
           orders' = [orders EXCEPT ![n].filled = @ + k,
                                    ![n].open = k < rest]
      /\ UNCHANGED <<faults, now, pc, leg, attempt, current, target, result, events>>

Tick ==
  /\ now < MaxTime
  /\ now' = now + 1
  /\ UNCHANGED <<faults, pc, leg, attempt, current, target, result, events,
                 orders>>

-----------------------------------------------------------------------------
(* A leg, before its first order.                                          *)

\* Where Execute goes when the leg cannot be completed: the leg before it,
\* if there is one, is unwound.
GiveUp ==
  /\ pc' = IF leg = 2 THEN "unwind" ELSE "done"
  /\ attempt' = 0

DriftExceeded == leg = 2 /\ now - result[1].at > HedgeDriftMax

\* The intent has expired, there is no price, or the order would be below
\* the minimum notional of the exchange.
AbandonLeg ==
  /\ pc = "leg"
  /\ now <= ExpiresAt => ~DriftExceeded
  /\ GiveUp
  /\ UNCHANGED <<faults, now, leg, current, target, result, events,
                 orders>>

AbandonOnDrift ==
  /\ pc = "leg"
  /\ now <= ExpiresAt
  /\ DriftExceeded
  /\ Emit("HEDGE_DRIFT")
  /\ GiveUp
  /\ UNCHANGED <<faults, now, leg, current, target, result, orders>>

\* The hedge leg matches what the poll saw of a partial first leg.
TargetOf(l) == IF l = 2 /\ result[1].partial THEN result[1].qty ELSE Lots

PrepareLeg ==
  /\ pc = "leg"
  /\ now <= ExpiresAt
  /\ ~DriftExceeded
  /\ target' = [target EXCEPT ![leg] = TargetOf(leg)]
  /\ attempt' = 0
  /\ pc' = "send"
  /\ UNCHANGED <<faults, now, leg, current, result, events, orders>>

-----------------------------------------------------------------------------
(* Attempts.                                                               *)

OrderType == IF attempt < MaxRetriesPerLeg THEN "LIMIT" ELSE "IOC"

SendAccepted ==
  /\ pc = "send"
  /\ \E k \in FillsOnAcceptance(OrderType, FALSE, leg, target[leg]) :
       Accepted(OrderType, FALSE, leg, target[leg], k)
  /\ current' = Len(orders) + 1
  /\ Emit("ORDER_SENT")
  /\ pc' = "poll"
  /\ UNCHANGED <<faults, now, leg, attempt, target, result>>

\* PlaceOrder returns an error.  Every attempt has a client order id of its
\* own, so the exchange cannot tell a retry from a new order.
SendFails ==
  /\ pc = "send"
  /\ \/ UNCHANGED orders
     \/ /\ "lost" \in faults
        /\ \E k \in FillsOnAcceptance(OrderType, FALSE, leg, target[leg]) :
             Accepted(OrderType, FALSE, leg, target[leg], k)
  /\ IF attempt < MaxRetriesPerLeg
     THEN /\ events' = events \o <<<<"ORDER_SENT", leg>>, <<"ORDER_RETRY", leg>>>>
          /\ attempt' = attempt + 1
          /\ UNCHANGED pc
     ELSE /\ Emit("ORDER_SENT")
          /\ pc' = "failed"
          /\ UNCHANGED attempt
  /\ UNCHANGED <<faults, now, leg, current, target, result>>

\* The status of the order is one of those the poll stops at, and counts as
\* a fill: FILLED, or PARTIALLY_FILLED while the rest is still resting.
SeenFilled(o) == o.filled = o.qty \/ (o.open /\ o.filled > 0)

PollSeesFill ==
  LET o == orders[current]
      partial == o.filled < o.qty
  IN  /\ pc = "poll"
      /\ SeenFilled(o)
      /\ result' = [result EXCEPT ![leg] = [filled |-> TRUE, partial |-> partial,
                                            qty |-> o.filled, at |-> now]]
      /\ Emit(IF partial THEN "ORDER_PARTIAL" ELSE "ORDER_FILLED")
      /\ pc' = IF leg = 1 THEN "leg" ELSE "done"
      /\ leg' = 2
      /\ UNCHANGED <<faults, now, attempt, current, target, orders>>

\* Mutant: the polls have no limit.
SettledUnfilled(o) == ~o.open /\ ~SeenFilled(o)

\* Ten polls, or fewer if the order is settled, saw no fill.
NotSeenFilled(o) == ~SeenFilled(o)

\* A resting order is still new when the polls run out, an IOC order was
\* cancelled (in part: under a status the code does not know), or no poll
\* was answered.
PollSeesNoFill ==
  /\ pc = "poll"
  /\ "pollsFail" \in faults \/ NotSeenFilled(orders[current])
  /\ pc' = "cancel"
  /\ UNCHANGED <<faults, now, leg, attempt, current, target, result, events,
                 orders>>

NextAttempt(n) == n + 1

\* Mutant: the order of the attempt before is left resting.
LeftResting(o) == o

Cancelled(o) == [o EXCEPT !.open = FALSE]

\* Only a limit order is cancelled, and an error is ignored: the order was
\* filled meanwhile, or the request was lost.
Cancel ==
  /\ pc = "cancel"
  /\ \/ "lost" \in faults /\ UNCHANGED orders
     \/ orders' = [orders EXCEPT ![current] = Cancelled(@)]
  /\ IF attempt < MaxRetriesPerLeg
     THEN pc' = "send" /\ attempt' = NextAttempt(attempt)
     ELSE pc' = "failed" /\ UNCHANGED attempt
  /\ UNCHANGED <<faults, now, leg, current, target, result, events>>

\* Mutant: the leg that was filled before is left as it is.
FailedWithoutUnwind ==
  /\ pc = "failed"
  /\ Emit("ORDER_REJECTED")
  /\ pc' = "done" /\ attempt' = 0
  /\ UNCHANGED <<faults, now, leg, current, target, result, orders>>

LegFailed ==
  /\ pc = "failed"
  /\ Emit("ORDER_REJECTED")
  /\ GiveUp
  /\ UNCHANGED <<faults, now, leg, current, target, result, orders>>

-----------------------------------------------------------------------------
(* emergencyUnwind of the first leg.                                       *)

\* Mutant: the flag is not set on the order.
MayTurnAround == FALSE

ReduceOnly == TRUE

UnwindSent(k) ==
  orders' = Append(orders, [leg |-> 1, type |-> "MARKET", reduceOnly |-> TRUE,
                            qty |-> result[1].qty, filled |-> k, open |-> FALSE])

UnwindFills == FillsOnAcceptance("MARKET", ReduceOnly, 1, result[1].qty)

UnwindAccepted ==
  /\ pc = "unwind"
  /\ \E k \in UnwindFills : UnwindSent(k)
  /\ current' = Len(orders) + 1
  /\ pc' = "unwindPoll"
  /\ UNCHANGED <<faults, now, leg, attempt, target, result, events>>

\* The next attempt, or the end of the attempts with an alarm.
UnwindAttemptFailed ==
  IF attempt < MaxUnwindRetries
  THEN /\ pc' = "unwind" /\ attempt' = NextAttempt(attempt)
       /\ UNCHANGED events
  ELSE /\ pc' = "done" /\ UNCHANGED attempt
       /\ events' = Append(events, <<"HEDGE_FAILED", 1>>)

UnwindFails ==
  /\ pc = "unwind"
  /\ \/ UNCHANGED orders
     \/ "lost" \in faults /\ \E k \in UnwindFills : UnwindSent(k)
  /\ UnwindAttemptFailed
  /\ UNCHANGED <<faults, now, leg, current, target, result>>

UnwindSeenFilled ==
  /\ pc = "unwindPoll"
  /\ orders[current].filled = orders[current].qty
  /\ events' = Append(events, <<"ORDER_FILLED", 1>>)
  /\ pc' = "done"
  /\ UNCHANGED <<faults, now, leg, attempt, current, target, result, orders>>

UnwindNotSeenFilled ==
  /\ pc = "unwindPoll"
  /\ "pollsFail" \in faults \/ orders[current].filled < orders[current].qty
  /\ UnwindAttemptFailed
  /\ UNCHANGED <<faults, now, leg, current, target, result, orders>>

-----------------------------------------------------------------------------

Step ==
  \/ AbandonLeg \/ AbandonOnDrift \/ PrepareLeg
  \/ SendAccepted \/ SendFails
  \/ PollSeesFill \/ PollSeesNoFill \/ Cancel \/ LegFailed
  \/ UnwindAccepted \/ UnwindFails \/ UnwindSeenFilled \/ UnwindNotSeenFilled

Next ==
  \/ Step
  \/ \E n \in DOMAIN orders : Fill(n)
  \/ Tick

Spec == Init /\ [][Next]_vars

\* Execute runs on the router's only goroutine and every wait in it is timed.
FairSpec == Spec /\ WF_vars(Step)

-----------------------------------------------------------------------------
(* Properties.                                                             *)

Alarmed == \E n \in DOMAIN events : events[n][1] = "HEDGE_FAILED"

\* On an exchange that answers and fills orders whole, Execute leaves the
\* pair hedged or flat, or raises the alarm.
HedgedOrAlarmed ==
  pc = "done" /\ faults = {} => Held(1) = Held(2) \/ Alarmed

\* Retries, widened or as IOC, do not add up: while no answer is lost or late,
\* a leg never gets more than it asked for, even when orders fill in part.
NeverOverfilled ==
  faults \subseteq {"partial"} => \A l \in Legs : Held(l) <= target[l]

\* However many unwind orders were sent for a fill, whose answers were lost
\* or late, the position is never turned around.
NeverReversed == \A l \in Legs : Held(l) >= 0

\* Execute returns: every attempt is counted and no wait is open-ended.
Terminates == <>(pc = "done")

\* "If leg A was partially filled, adjust leg B notional to maintain delta
\* neutrality" (executor.go:125): a first leg seen filled in part and a hedge
\* filled whole leave the account with equal legs.
NeutralAfterPartial ==
  pc = "done" /\ result[1].partial /\ result[2].filled /\ ~result[2].partial
    => Held(1) = Held(2)
=============================================================================
