------------------------------ MODULE ArbEngine ------------------------------
(***************************************************************************)
(* The arbitrage engine (internal/arb): trades the log price ratio of a    *)
(* pair against its 24 hour mean.  The rolling statistics are an input: a  *)
(* condition gives the spread's deviation from the mean in standard        *)
(* deviations, whether there are samples enough and dispersed, and whether *)
(* the deviation pays.                                                     *)
(***************************************************************************)
EXTENDS Integers

CONSTANTS
  SpreadPairs,        \* cfg.Pairs
  Conditions,         \* bound: [deviation, enough, dispersed, pays]
  EntryStdDev, ExitStdDev,
  SpreadAllocation,   \* MaxAllocationPct
  SpreadEquity,       \* what the process passes to Evaluate
  MaxHold,            \* MaxHoldDays, in ticks
  SpreadCooldown      \* CooldownS, in ticks

ASSUME ArbAssumption ==
  /\ Conditions \subseteq [deviation : Int, enough : BOOLEAN, dispersed : BOOLEAN,
                           pays : BOOLEAN]
  /\ EntryStdDev \in Nat /\ ExitStdDev \in Nat
  /\ SpreadAllocation \in Nat /\ SpreadEquity \in Nat
  /\ MaxHold \in Nat /\ SpreadCooldown \in Nat

Flat == << >>

VARIABLES
  spread,         \* pair -> Flat or <<[notional, below, age]>>
  spreadCooling   \* pair -> ticks until its cooldown is over

arbVars == <<spread, spreadCooling>>

ArbTypeOK ==
  /\ \A p \in SpreadPairs :
       spread[p] # Flat => /\ spread[p][1].notional \in Nat
                           /\ spread[p][1].below \in BOOLEAN
                           /\ spread[p][1].age \in 0..MaxHold
  /\ spreadCooling \in [SpreadPairs -> 0..SpreadCooldown]

ArbInit ==
  /\ spread = [p \in SpreadPairs |-> Flat]
  /\ spreadCooling = [p \in SpreadPairs |-> 0]

\* The window holds samples enough, of more than one value.
Measured(c) == c.enough /\ c.dispersed

Distance(c) == IF c.deviation < 0 THEN -c.deviation ELSE c.deviation

\* An equity so small that less than 10 USD would be traded is left out.
SpreadNotional == (SpreadEquity * SpreadAllocation) \div 100

SpreadEnters(p, c) ==
  /\ spread[p] = Flat
  /\ Measured(c)
  /\ spreadCooling[p] = 0
  /\ Distance(c) >= EntryStdDev
  /\ c.pays
  /\ SpreadNotional > 0

\* A spread below its mean is bought.
EntryBuys(c) == c.deviation < 0

SpreadExits(p, c) ==
  /\ spread[p] # Flat
  /\ \/ c.dispersed /\ Distance(c) <= ExitStdDev
     \/ spread[p][1].age = MaxHold

\* Mutant: the exit always buys, as that of the selector does.
AlwaysBuys(p) == TRUE

\* "Reverse of entry": the position remembers the side of the mean it was
\* entered on.
ExitBuys(p) == ~spread[p][1].below

\* The mean is the one at the time of the confirmation: the deviation of the
\* entry spread from it is what the position keeps.
ConfirmSpreadEntry(p, notional, deviation) ==
  /\ spread' = [spread EXCEPT ![p] =
       << [notional |-> notional, below |-> deviation < 0, age |-> 0] >>]
  /\ spreadCooling' = [spreadCooling EXCEPT ![p] = SpreadCooldown]

ConfirmSpreadExit(p) ==
  /\ spread' = [spread EXCEPT ![p] = Flat]
  /\ spreadCooling' = [spreadCooling EXCEPT ![p] = SpreadCooldown]

\* Positions age up to the time that forces them out.
Aged(p) ==
  IF spread[p] = Flat THEN Flat
  ELSE << [spread[p][1] EXCEPT !.age = IF @ = MaxHold THEN @ ELSE @ + 1] >>
=============================================================================
