----------------------------- MODULE IntentProofs -----------------------------
(***************************************************************************)
(* Proofs about the intents, from the process that publishes them to the   *)
(* streams that carry them.                                                *)
(*                                                                         *)
(* TradePipeline: a message is in one place only, and the pipeline         *)
(* implements AtMostOnce, for every set of intents, every size of batch    *)
(* and any number of crashes.                                              *)
(*                                                                         *)
(* StrategyEngine: for any pairs, limits and conditions, the book follows  *)
(* the account, entries keep their distance and leave the cap, and a run   *)
(* of low differentials ends in an exit.                                   *)
(***************************************************************************)
EXTENDS TradePipeline, StrategyEngine, SumTheorems, SequenceTheorems, TLAPS

-----------------------------------------------------------------------------
(* The pipeline: what its processes hold.                                  *)

\* Intents are published once; what an approver holds is what it was given
\* last, and what it has approved was given to it before.
ApproversInv ==
  /\ \A k, l \in DOMAIN tradeIntents : tradeIntents[k] = tradeIntents[l] => k = l
  /\ \A a \in Approvers :
       /\ Len(batch[a]) <= delivered[a]
       /\ \A n \in DOMAIN batch[a] :
            batch[a][n] = tradeIntents[delivered[a] - Len(batch[a]) + n]
       /\ \A m \in DOMAIN approved : approved[m].by = a =>
            \E k \in 1..(delivered[a] - Len(batch[a])) : approved[m].id = tradeIntents[k]

\* What the router holds is what it was given last, and what it has executed in
\* this life is processed.
RouterInv ==
  /\ Len(routerBatch) <= taken
  /\ \A n \in DOMAIN routerBatch :
       routerBatch[n] = approved[taken - Len(routerBatch) + n].id
  /\ \A n \in DOMAIN executed : executed[n] \in processed

IInv == TypeOK /\ ApproversInv /\ RouterInv

Approval == [id : AllIntents, by : Approvers \cup {"none"}]

-----------------------------------------------------------------------------

\* A read gives what follows in the stream, and no more than there is.
LEMMA ReadsWhatFollows ==
  ASSUME NEW S, NEW stream \in Seq(S), NEW n \in 0..Len(stream), NEW count \in Nat \ {0}
  PROVE  LET new == NewMessages(stream, n, count)
         IN  /\ new \in Seq(S)
             /\ Len(new) \in Nat /\ n + Len(new) <= Len(stream)
             /\ \A i \in 1..Len(new) : new[i] = stream[n + i]
<1> DEFINE last == IF Len(stream) < n + count THEN Len(stream) ELSE n + count
           new  == SubSeq(stream, n + 1, last)
<1>1. n \in Nat /\ Len(stream) \in Nat /\ n <= Len(stream)  OBVIOUS
<1>2. last \in Int /\ n <= last /\ last <= Len(stream)  BY <1>1
<1> HIDE DEF last
<1>3. \A i \in n + 1 .. last : stream[i] \in S  BY <1>1, <1>2
<1>4. /\ new \in Seq(S)
      /\ Len(new) = IF n + 1 <= last THEN last - (n + 1) + 1 ELSE 0
      /\ \A i \in 1 .. last - (n + 1) + 1 : new[i] = stream[n + 1 + i - 1]
  BY <1>1, <1>2, <1>3, SubSeqProperties
<1>5. Len(new) = last - n  BY <1>1, <1>2, <1>4
<1>6. \A i \in 1..Len(new) : new[i] = stream[n + i]  BY <1>1, <1>2, <1>4, <1>5
<1>7. Len(new) \in Nat /\ n + Len(new) <= Len(stream)  BY <1>1, <1>2, <1>5
<1>8. NewMessages(stream, n, count) = new  BY DEF NewMessages, last
<1> HIDE DEF new
<1> QED BY <1>4, <1>6, <1>7, <1>8

\* The tail of a sequence is the sequence one place further on.
LEMMA TailShifts ==
  ASSUME NEW S, NEW q \in Seq(S), q # << >>
  PROVE  /\ Tail(q) \in Seq(S) /\ Len(Tail(q)) = Len(q) - 1 /\ Len(q) >= 1
         /\ Head(q) = q[1] /\ Head(q) \in S
         /\ \A n \in DOMAIN Tail(q) : Tail(q)[n] = q[n + 1] /\ n + 1 \in DOMAIN q
  OBVIOUS

\* Nothing is on the streams at the start.
LEMMA InitEstablishes == Init => IInv
<1> SUFFICES ASSUME Init PROVE IInv  OBVIOUS
<1>1. TypeOK
  <2>1. /\ tradeIntents \in Seq(Intents) /\ approved \in Seq(Approval)
        /\ routerBatch \in Seq(AllIntents) /\ executed \in Seq(AllIntents)
        /\ batch \in [Approvers -> Seq(Intents)]
    BY DEF Init
  <2>2. delivered \in [Approvers -> 0..Len(tradeIntents)] /\ taken \in 0..Len(approved)
    BY DEF Init
  <2>3. crashes \in 0..MaxCrashes /\ routerCrashes \in 0..MaxRouterCrashes
    BY PipelineAssumption DEF Init
  <2> QED BY <2>1, <2>2, <2>3 DEF Init, TypeOK, Approval
<1>2. ApproversInv
  <2>1. DOMAIN tradeIntents = {} /\ DOMAIN approved = {}  BY DEF Init
  <2>2. \A a \in Approvers : batch[a] = << >> /\ delivered[a] = 0  BY DEF Init
  <2> QED BY <2>1, <2>2 DEF ApproversInv
<1>3. RouterInv  BY DEF Init, RouterInv
<1> QED BY <1>1, <1>2, <1>3 DEF IInv

\* Steps of the router and of the world leave the approvers alone.
LEMMA ApproversStay ==
  ASSUME ApproversInv, UNCHANGED <<tradeIntents, delivered, batch, approved>>
  PROVE  ApproversInv'
  BY DEF ApproversInv

\* Steps of the others leave the router alone; the stream it reads may grow.
LEMMA RouterStays ==
  ASSUME TypeOK, RouterInv, UNCHANGED <<taken, routerBatch, processed, executed>>,
         \/ approved' = approved
         \/ \E x \in Approval : approved' = Append(approved, x)
  PROVE  RouterInv'
<1>1. /\ approved \in Seq(Approval) /\ taken \in 0..Len(approved)
      /\ routerBatch \in Seq(AllIntents)
  BY DEF TypeOK, Approval
<1>2. \A n \in 1..Len(approved) : approved'[n] = approved[n]  BY <1>1
<1>3. \A n \in DOMAIN routerBatch : taken - Len(routerBatch) + n \in 1..Len(approved)
  BY <1>1 DEF RouterInv
<1> QED BY <1>1, <1>2, <1>3 DEF RouterInv

-----------------------------------------------------------------------------
(* The strategies and the approvers.                                       *)

\* A published intent keeps the invariant.
LEMMA PublishPreserves ==
  ASSUME IInv, NEW i \in Intents, PublishIntent(i) PROVE IInv'
<1> USE DEF routerVars, gateVars, crashVars
<1>1. /\ tradeIntents \in Seq(Intents) /\ tradeIntents' = Append(tradeIntents, i)
      /\ UNCHANGED <<delivered, batch, approved, taken, routerBatch, processed, executed>>
      /\ \A k \in 1..Len(tradeIntents) : tradeIntents[k] # i
  BY DEF IInv, TypeOK, PublishIntent, Contains
<1>2. /\ tradeIntents' \in Seq(Intents) /\ Len(tradeIntents') = Len(tradeIntents) + 1
      /\ \A k \in 1..Len(tradeIntents) : tradeIntents'[k] = tradeIntents[k]
      /\ tradeIntents'[Len(tradeIntents) + 1] = i
      /\ Len(tradeIntents) \in Nat
  BY <1>1, AppendProperties
<1>3. TypeOK'
  <2>1. delivered' \in [Approvers -> 0..Len(tradeIntents')]
    BY <1>1, <1>2 DEF IInv, TypeOK
  <2> QED BY <1>1, <1>2, <2>1 DEF IInv, TypeOK, PublishIntent
<1>4. ApproversInv'
  <2>1. \A k, l \in DOMAIN tradeIntents' : tradeIntents'[k] = tradeIntents'[l] => k = l
    <3>1. DOMAIN tradeIntents' = 1..Len(tradeIntents) \cup {Len(tradeIntents) + 1}
      BY <1>2
    <3> QED BY <1>1, <1>2, <3>1 DEF IInv, ApproversInv
  <2>2. ASSUME NEW a \in Approvers
        PROVE  /\ Len(batch'[a]) <= delivered'[a]
               /\ \A n \in DOMAIN batch'[a] :
                    batch'[a][n] = tradeIntents'[delivered'[a] - Len(batch'[a]) + n]
               /\ \A m \in DOMAIN approved' : approved'[m].by = a =>
                    \E k \in 1..(delivered'[a] - Len(batch'[a])) :
                      approved'[m].id = tradeIntents'[k]
    <3>1. /\ delivered[a] \in Nat /\ delivered[a] <= Len(tradeIntents)
          /\ batch[a] \in Seq(Intents) /\ Len(batch[a]) <= delivered[a]
      BY <1>2 DEF IInv, TypeOK, ApproversInv
    <3>2. \A n \in DOMAIN batch[a] : delivered[a] - Len(batch[a]) + n \in 1..Len(tradeIntents)
      BY <1>2, <3>1
    <3>3. \A k \in 1..(delivered[a] - Len(batch[a])) : k \in 1..Len(tradeIntents)
      BY <1>2, <3>1
    <3> QED BY <1>1, <1>2, <3>1, <3>2, <3>3 DEF IInv, ApproversInv
  <2> QED BY <2>1, <2>2 DEF ApproversInv
<1>5. RouterInv'  BY <1>1, RouterStays DEF IInv
<1> QED BY <1>3, <1>4, <1>5 DEF IInv

\* So does a batch that an approver reads,
LEMMA ReadIntentsPreserves ==
  ASSUME IInv, NEW a \in Approvers, ReadIntents(a) PROVE IInv'
<1> DEFINE new == NewMessages(tradeIntents, delivered[a], ApproverBatch)
<1> USE DEF routerVars, gateVars, crashVars
<1>1. /\ tradeIntents \in Seq(Intents) /\ delivered[a] \in 0..Len(tradeIntents)
      /\ delivered \in [Approvers -> 0..Len(tradeIntents)]
      /\ batch \in [Approvers -> Seq(Intents)]
  BY DEF IInv, TypeOK
<1>2. /\ new \in Seq(Intents)
      /\ Len(new) \in Nat /\ delivered[a] + Len(new) <= Len(tradeIntents)
      /\ \A n \in 1..Len(new) : new[n] = tradeIntents[delivered[a] + n]
  BY <1>1, PipelineAssumption, ReadsWhatFollows
<1>3. /\ batch' = [batch EXCEPT ![a] = new] /\ batch[a] = << >>
      /\ delivered' = [delivered EXCEPT ![a] = delivered[a] + Len(new)]
      /\ UNCHANGED <<tradeIntents, approved, taken, routerBatch, processed, executed>>
  BY DEF ReadIntents
<1> HIDE DEF new
<1>4. TypeOK'
  <2>1. batch' \in [Approvers -> Seq(Intents)]  BY <1>1, <1>2, <1>3
  <2>2. delivered' \in [Approvers -> 0..Len(tradeIntents')]
    <3>1. delivered[a] + Len(new) \in 0..Len(tradeIntents)  BY <1>1, <1>2
    <3> QED BY <1>1, <1>3, <3>1
  <2> QED BY <1>3, <2>1, <2>2 DEF IInv, TypeOK, ReadIntents
<1>5. ApproversInv'
  <2>1. ASSUME NEW b \in Approvers
        PROVE  /\ Len(batch'[b]) <= delivered'[b]
               /\ \A n \in DOMAIN batch'[b] :
                    batch'[b][n] = tradeIntents'[delivered'[b] - Len(batch'[b]) + n]
               /\ \A m \in DOMAIN approved' : approved'[m].by = b =>
                    \E k \in 1..(delivered'[b] - Len(batch'[b])) :
                      approved'[m].id = tradeIntents'[k]
    <3>1. CASE b = a
      <4>1. batch'[b] = new /\ delivered'[b] = delivered[a] + Len(new)
        BY <1>1, <1>3, <3>1
      <4>2. delivered'[b] - Len(new) = delivered[a]  BY <1>1, <1>2, <4>1
      <4>3. delivered[a] - Len(batch[a]) = delivered[a]  BY <1>1, <1>3
      <4>4. Len(new) <= delivered'[b]  BY <1>1, <1>2, <4>1
      <4>5. DOMAIN new = 1..Len(new)  BY <1>2
      <4> QED BY <1>2, <1>3, <3>1, <4>1, <4>2, <4>3, <4>4, <4>5 DEF IInv, ApproversInv
    <3>2. CASE b # a
      <4>1. batch'[b] = batch[b] /\ delivered'[b] = delivered[b]  BY <1>1, <1>3, <3>2
      <4> QED BY <1>3, <4>1 DEF IInv, ApproversInv
    <3> QED BY <3>1, <3>2
  <2> QED BY <1>3, <2>1 DEF IInv, ApproversInv
<1>6. RouterInv'  BY <1>3, RouterStays DEF IInv
<1> QED BY <1>4, <1>5, <1>6 DEF IInv

\* An approver that passes on the first message of its batch, or drops it.
LEMMA HandlesFirst ==
  ASSUME IInv, NEW a \in Approvers, batch[a] # << >>,
         batch' = [batch EXCEPT ![a] = Tail(batch[a])],
         UNCHANGED <<tradeIntents, delivered>>,
         \/ approved' = approved
         \/ approved' = Append(approved, [id |-> Head(batch[a]), by |-> a])
  PROVE  ApproversInv'
<1>1. /\ tradeIntents \in Seq(Intents) /\ delivered \in [Approvers -> 0..Len(tradeIntents)]
      /\ batch \in [Approvers -> Seq(Intents)] /\ approved \in Seq(Approval)
  BY DEF IInv, TypeOK, Approval
<1> DEFINE q == batch[a]  t == Tail(q)  d == delivered[a]
<1>2. /\ q \in Seq(Intents) /\ t \in Seq(Intents) /\ Len(t) = Len(q) - 1 /\ Len(q) >= 1
      /\ Head(q) = q[1] /\ Head(q) \in Intents
      /\ \A n \in DOMAIN t : t[n] = q[n + 1] /\ n + 1 \in DOMAIN q
  BY <1>1, TailShifts
<1>3. /\ d \in Nat /\ Len(q) \in Nat /\ Len(q) <= d
      /\ \A n \in DOMAIN q : q[n] = tradeIntents[d - Len(q) + n]
  BY <1>1 DEF IInv, ApproversInv
<1>4. batch'[a] = t /\ \A b \in Approvers \ {a} : batch'[b] = batch[b]  BY <1>1
<1>5. d - Len(t) = d - Len(q) + 1  BY <1>2, <1>3
<1>6. Head(q) = tradeIntents[d - Len(q) + 1]  BY <1>2, <1>3
<1>7. \A m \in DOMAIN approved' : \/ m \in DOMAIN approved /\ approved'[m] = approved[m]
                                  \/ approved'[m] = [id |-> Head(q), by |-> a]
  <2> DEFINE x == [id |-> Head(q), by |-> a]
  <2>1. x \in Approval  BY <1>2 DEF Approval, AllIntents
  <2>2. approved' = approved \/ approved' = Append(approved, x)  OBVIOUS
  <2> HIDE DEF x
  <2>3. \A m \in DOMAIN approved' : \/ m \in DOMAIN approved /\ approved'[m] = approved[m]
                                    \/ approved'[m] = x
    <3>1. CASE approved' = approved  BY <3>1
    <3>2. CASE approved' = Append(approved, x)
      <4>1. /\ approved \in Seq(Approval) /\ DOMAIN approved = 1..Len(approved)
            /\ approved' \in Seq(Approval) /\ Len(approved') = Len(approved) + 1
            /\ \A m \in 1..Len(approved) : approved'[m] = approved[m]
            /\ approved'[Len(approved) + 1] = x
        BY <1>1, <2>1, <3>2, AppendProperties
      <4> QED BY <4>1
    <3> QED BY <2>2, <3>1, <3>2
  <2> QED BY <2>3 DEF x
<1> HIDE DEF t
<1>8. ASSUME NEW b \in Approvers
      PROVE  /\ Len(batch'[b]) <= delivered[b]
             /\ \A n \in DOMAIN batch'[b] :
                  batch'[b][n] = tradeIntents[delivered[b] - Len(batch'[b]) + n]
             /\ \A m \in DOMAIN approved' : approved'[m].by = b =>
                  \E k \in 1..(delivered[b] - Len(batch'[b])) :
                    approved'[m].id = tradeIntents[k]
  <2>1. CASE b = a
    <3>1. Len(t) <= d  BY <1>2, <1>3
    <3>2. \A n \in DOMAIN t : t[n] = tradeIntents[d - Len(t) + n]
      <4> TAKE n \in DOMAIN t
      <4>1. n \in Nat /\ n + 1 \in DOMAIN q /\ t[n] = q[n + 1]  BY <1>2
      <4>2. q[n + 1] = tradeIntents[d - Len(q) + (n + 1)]  BY <1>3, <4>1
      <4>3. d - Len(q) + (n + 1) = d - Len(t) + n
        <5> HIDE DEF d, q
        <5> QED BY <1>3, <1>5, <4>1
      <4> QED BY <4>1, <4>2, <4>3
    <3>3. ASSUME NEW m \in DOMAIN approved', approved'[m].by = a
          PROVE  \E k \in 1..(d - Len(t)) : approved'[m].id = tradeIntents[k]
      <4>1. CASE m \in DOMAIN approved /\ approved'[m] = approved[m]
        <5>1. PICK k \in 1..(d - Len(q)) : approved[m].id = tradeIntents[k]
          BY <3>3, <4>1 DEF IInv, ApproversInv
        <5>2. k \in 1..(d - Len(t))  BY <1>2, <1>3, <1>5
        <5> QED BY <4>1, <5>1, <5>2
      <4>2. CASE approved'[m] = [id |-> Head(q), by |-> a]
        <5>1. d - Len(q) + 1 \in 1..(d - Len(t))  BY <1>2, <1>3, <1>5
        <5> QED BY <1>6, <4>2, <5>1
      <4> QED BY <1>7, <4>1, <4>2
    <3> QED BY <1>4, <2>1, <3>1, <3>2, <3>3
  <2>2. CASE b # a
    <3>1. \A m \in DOMAIN approved' : approved'[m].by = b =>
            m \in DOMAIN approved /\ approved'[m] = approved[m]
      BY <1>7, <2>2
    <3> QED BY <1>4, <2>2, <3>1 DEF IInv, ApproversInv
  <2> QED BY <2>1, <2>2
<1> QED BY <1>8 DEF IInv, ApproversInv

\* an approval,
LEMMA ApprovePreserves ==
  ASSUME IInv, NEW a \in Approvers, Approve(a) PROVE IInv'
<1> USE DEF routerVars, gateVars, crashVars
<1> DEFINE x == [id |-> Head(batch[a]), by |-> a]
<1>1. batch \in [Approvers -> Seq(Intents)] /\ batch[a] # << >>
  BY DEF IInv, TypeOK, Approve
<1>2. Tail(batch[a]) \in Seq(Intents) /\ Head(batch[a]) \in Intents
  BY <1>1, TailShifts
<1>3. x \in Approval  BY <1>2 DEF Approval, AllIntents
<1>4. /\ approved' = Append(approved, x)
      /\ batch' = [batch EXCEPT ![a] = Tail(batch[a])]
      /\ UNCHANGED <<tradeIntents, delivered, taken, routerBatch, processed, executed>>
  BY DEF Approve
<1>5. TypeOK'
  <2>1. batch' \in [Approvers -> Seq(Intents)]  BY <1>1, <1>2, <1>4
  <2>2. /\ approved' \in Seq(Approval) /\ taken' \in 0..Len(approved')
    <3>1. approved \in Seq(Approval) /\ taken \in 0..Len(approved)
      BY DEF IInv, TypeOK, Approval
    <3>2. approved' \in Seq(Approval) /\ Len(approved') = Len(approved) + 1
      BY <1>3, <1>4, <3>1, AppendProperties
    <3> QED BY <1>4, <3>1, <3>2
  <2> QED BY <1>4, <2>1, <2>2 DEF IInv, TypeOK, Approve, Approval
<1>6. ApproversInv'  BY <1>1, <1>4, HandlesFirst
<1>7. RouterInv'  BY <1>3, <1>4, RouterStays DEF IInv
<1> QED BY <1>5, <1>6, <1>7 DEF IInv

\* a rejection,
LEMMA RejectPreserves ==
  ASSUME IInv, NEW a \in Approvers, Reject(a) PROVE IInv'
<1> USE DEF routerVars, gateVars, crashVars
<1>1. batch \in [Approvers -> Seq(Intents)] /\ batch[a] # << >>
  BY DEF IInv, TypeOK, Reject
<1>2. /\ batch' = [batch EXCEPT ![a] = Tail(batch[a])]
      /\ UNCHANGED <<tradeIntents, delivered, approved, taken, routerBatch, processed,
                     executed>>
  BY DEF Reject
<1>3. TypeOK'
  <2>1. batch' \in [Approvers -> Seq(Intents)]  BY <1>1, <1>2, TailShifts
  <2> QED BY <1>2, <2>1 DEF IInv, TypeOK, Reject
<1>4. ApproversInv'  BY <1>1, <1>2, HandlesFirst
<1>5. RouterInv'  BY <1>2, RouterStays DEF IInv
<1> QED BY <1>3, <1>4, <1>5 DEF IInv

\* A safety trade is nobody's approval of an intent.
LEMMA SafetyTradePreserves ==
  ASSUME IInv, NEW i \in SafetyTrades, PublishSafetyTrade(i) PROVE IInv'
<1> USE DEF approverVars, routerVars, gateVars, crashVars
<1> DEFINE x == [id |-> i, by |-> "none"]
<1>1. x \in Approval  BY DEF Approval, AllIntents
<1>2. /\ approved' = Append(approved, x) /\ approved \in Seq(Approval)
      /\ taken \in 0..Len(approved)
      /\ UNCHANGED <<tradeIntents, delivered, batch, taken, routerBatch, processed,
                     executed>>
  BY DEF PublishSafetyTrade, IInv, TypeOK, Approval
<1>3. /\ approved' \in Seq(Approval) /\ Len(approved') = Len(approved) + 1
      /\ \A m \in DOMAIN approved' : \/ m \in DOMAIN approved /\ approved'[m] = approved[m]
                                     \/ approved'[m] = x
  BY <1>1, <1>2
<1>4. TypeOK'
  <2>1. taken' \in 0..Len(approved')  BY <1>2, <1>3
  <2> QED BY <1>2, <1>3, <2>1 DEF IInv, TypeOK, PublishSafetyTrade, Approval
<1>5. ApproversInv'
  <2>1. \A a \in Approvers : x.by # a  BY DEF Approvers
  <2> QED BY <1>2, <1>3, <2>1 DEF IInv, ApproversInv
<1>6. RouterInv'  BY <1>1, <1>2, RouterStays DEF IInv
<1> QED BY <1>4, <1>5, <1>6 DEF IInv

\* A batch that dies with its approver is passed on by nobody.
LEMMA CrashApproverPreserves ==
  ASSUME IInv, NEW a \in Approvers, CrashApprover(a) PROVE IInv'
<1> USE DEF routerVars, gateVars, crashVars
<1>1. /\ batch' = [batch EXCEPT ![a] = << >>] /\ batch \in [Approvers -> Seq(Intents)]
      /\ delivered \in [Approvers -> 0..Len(tradeIntents)]
      /\ tradeIntents \in Seq(Intents)
      /\ UNCHANGED <<tradeIntents, delivered, approved, taken, routerBatch, processed,
                     executed>>
  BY DEF CrashApprover, IInv, TypeOK
<1>2. TypeOK'
  <2>1. batch' \in [Approvers -> Seq(Intents)]  BY <1>1
  <2>2. crashes' \in 0..MaxCrashes /\ halted' \in BOOLEAN
    BY PipelineAssumption DEF CrashApprover, IInv, TypeOK
  <2> QED BY <1>1, <2>1, <2>2 DEF IInv, TypeOK, CrashApprover
<1>3. ApproversInv'
  <2>1. ASSUME NEW b \in Approvers
        PROVE  /\ Len(batch'[b]) <= delivered[b]
               /\ \A n \in DOMAIN batch'[b] :
                    batch'[b][n] = tradeIntents[delivered[b] - Len(batch'[b]) + n]
               /\ \A m \in DOMAIN approved : approved[m].by = b =>
                    \E k \in 1..(delivered[b] - Len(batch'[b])) :
                      approved[m].id = tradeIntents[k]
    <3>1. delivered[b] \in Nat /\ Len(batch[b]) \in Nat /\ Len(batch[b]) <= delivered[b]
      BY <1>1 DEF IInv, ApproversInv
    <3>2. CASE b = a
      <4>1. Len(batch'[b]) = 0 /\ DOMAIN batch'[b] = {}  BY <1>1, <3>2
      <4>2. \A k \in 1..(delivered[b] - Len(batch[b])) : k \in 1..(delivered[b] - Len(batch'[b]))
        BY <3>1, <4>1
      <4> QED BY <3>1, <4>1, <4>2 DEF IInv, ApproversInv
    <3>3. CASE b # a
      <4>1. batch'[b] = batch[b]  BY <1>1, <3>3
      <4> QED BY <4>1 DEF IInv, ApproversInv
    <3> QED BY <3>2, <3>3
  <2> QED BY <1>1, <2>1 DEF IInv, ApproversInv
<1>4. RouterInv'  BY <1>1, RouterStays DEF IInv
<1> QED BY <1>2, <1>3, <1>4 DEF IInv

-----------------------------------------------------------------------------
(* The router.                                                             *)

\* a batch that the router reads,
LEMMA ReadApprovedPreserves == IInv /\ ReadApproved => IInv'
<1> SUFFICES ASSUME IInv, ReadApproved PROVE IInv'  OBVIOUS
<1> USE DEF approverVars, gateVars, crashVars
<1> DEFINE new == NewMessages(approved, taken, BatchSize)
<1>1. approved \in Seq(Approval) /\ taken \in 0..Len(approved)
  BY DEF IInv, TypeOK, Approval
<1>2. /\ new \in Seq(Approval)
      /\ Len(new) \in Nat /\ taken + Len(new) <= Len(approved)
      /\ \A n \in 1..Len(new) : new[n] = approved[taken + n]
  BY <1>1, PipelineAssumption, ReadsWhatFollows
<1>3. /\ routerBatch' = [n \in DOMAIN new |-> new[n].id] /\ taken' = taken + Len(new)
      /\ UNCHANGED <<tradeIntents, delivered, batch, approved, processed, executed>>
  BY DEF ReadApproved
<1> HIDE DEF new
<1>4. /\ routerBatch' \in Seq(AllIntents) /\ Len(routerBatch') = Len(new)
      /\ DOMAIN routerBatch' = 1..Len(new)
      /\ \A n \in 1..Len(new) : routerBatch'[n] = new[n].id
  <2>1. DOMAIN new = 1..Len(new) /\ \A n \in 1..Len(new) : new[n].id \in AllIntents
    <3>1. DOMAIN new = 1..Len(new) /\ \A n \in 1..Len(new) : new[n] \in Approval  BY <1>2
    <3> QED BY <3>1 DEF Approval
  <2>2. routerBatch' = [n \in 1..Len(new) |-> new[n].id]  BY <1>3, <2>1
  <2>3. routerBatch' \in [1..Len(new) -> AllIntents]  BY <2>1, <2>2
  <2>4. routerBatch' \in Seq(AllIntents)  BY <1>2, <2>3
  <2>5. Len(routerBatch') = Len(new)  BY <1>2, <2>3, <2>4
  <2> QED BY <2>2, <2>4, <2>5
<1>5. TypeOK'
  <2>1. taken' \in 0..Len(approved')  BY <1>1, <1>2, <1>3
  <2> QED BY <1>3, <1>4, <2>1 DEF IInv, TypeOK, ReadApproved
<1>6. RouterInv'
  <2>1. Len(routerBatch') <= taken'  BY <1>1, <1>2, <1>3, <1>4
  <2>2. taken' - Len(routerBatch') = taken  BY <1>1, <1>2, <1>3, <1>4
  <2>3. \A n \in DOMAIN routerBatch' :
          routerBatch'[n] = approved'[taken' - Len(routerBatch') + n].id
    BY <1>2, <1>3, <1>4, <2>2
  <2> QED BY <1>3, <2>1, <2>3 DEF IInv, RouterInv
<1>7. ApproversInv'  BY <1>3, ApproversStay DEF IInv
<1> QED BY <1>5, <1>6, <1>7 DEF IInv

\* The batch without its first message, whatever becomes of that.
LEMMA BatchShifts ==
  ASSUME IInv, NextInBatch, UNCHANGED <<taken, approved>>
  PROVE  /\ routerBatch' \in Seq(AllIntents) /\ Head(routerBatch) \in AllIntents
         /\ Len(routerBatch') <= taken'
         /\ \A n \in DOMAIN routerBatch' :
              routerBatch'[n] = approved'[taken' - Len(routerBatch') + n].id
<1> DEFINE q == routerBatch  t == Tail(q)
<1>1. /\ q \in Seq(AllIntents) /\ q # << >> /\ routerBatch' = t
      /\ taken \in Nat /\ Len(q) <= taken
      /\ \A n \in DOMAIN q : q[n] = approved[taken - Len(q) + n].id
  BY DEF IInv, TypeOK, RouterInv, NextInBatch
<1>2. /\ t \in Seq(AllIntents) /\ Len(t) = Len(q) - 1 /\ Len(q) >= 1 /\ Len(q) \in Nat
      /\ Head(q) \in AllIntents
      /\ \A n \in DOMAIN t : t[n] = q[n + 1] /\ n + 1 \in DOMAIN q
  BY <1>1, TailShifts
<1> HIDE DEF t
<1>3. ASSUME NEW n \in DOMAIN t PROVE t[n] = approved[taken - Len(t) + n].id
  <2>1. n \in Nat /\ n + 1 \in DOMAIN q /\ t[n] = q[n + 1]  BY <1>2
  <2>2. q[n + 1] = approved[taken - Len(q) + (n + 1)].id  BY <1>1, <2>1
  <2>3. taken - Len(q) + (n + 1) = taken - Len(t) + n
    <3> HIDE DEF q
    <3> QED BY <1>1, <1>2, <2>1
  <2> QED BY <2>1, <2>2, <2>3
<1> QED BY <1>1, <1>2, <1>3

\* whatever it skips,
LEMMA SkipsPreserve == IInv /\ (SkipGated \/ SkipDuplicate \/ SkipExpired) => IInv'
<1> SUFFICES ASSUME IInv, SkipGated \/ SkipDuplicate \/ SkipExpired PROVE IInv'  OBVIOUS
<1> USE DEF approverVars, gateVars, crashVars
<1>1. /\ NextInBatch
      /\ UNCHANGED <<approverVars, approved, taken, executing, gateVars, expired, crashVars,
                     executed, reported>>
      /\ \/ processed' = processed
         \/ processed' = processed \cup {Head(routerBatch)}
  BY DEF SkipGated, SkipDuplicate, SkipExpired
<1>2. /\ routerBatch' \in Seq(AllIntents) /\ Head(routerBatch) \in AllIntents
      /\ Len(routerBatch') <= taken'
      /\ \A n \in DOMAIN routerBatch' :
           routerBatch'[n] = approved'[taken' - Len(routerBatch') + n].id
  BY <1>1, BatchShifts
<1>3. TypeOK'  BY <1>1, <1>2 DEF IInv, TypeOK
<1>4. RouterInv'  BY <1>1, <1>2 DEF IInv, RouterInv
<1>5. ApproversInv'  BY <1>1, ApproversStay DEF IInv
<1> QED BY <1>3, <1>4, <1>5 DEF IInv

\* the start of an execution,
LEMMA BeginPreserves == IInv /\ BeginExecution => IInv'
<1> SUFFICES ASSUME IInv, BeginExecution PROVE IInv'  OBVIOUS
<1> USE DEF approverVars, gateVars, crashVars
<1> DEFINE i == Head(routerBatch)
<1>1. /\ NextInBatch
      /\ processed' = processed \cup {i} /\ executing' = <<i>>
      /\ executed' = Append(executed, i)
      /\ UNCHANGED <<approverVars, approved, taken, gateVars, expired, crashVars, reported>>
  BY DEF BeginExecution
<1>2. /\ routerBatch' \in Seq(AllIntents) /\ i \in AllIntents
      /\ Len(routerBatch') <= taken'
      /\ \A n \in DOMAIN routerBatch' :
           routerBatch'[n] = approved'[taken' - Len(routerBatch') + n].id
  BY <1>1, BatchShifts
<1> HIDE DEF i
<1>3. executed \in Seq(AllIntents) /\ processed \subseteq AllIntents
  BY DEF IInv, TypeOK
<1>4. TypeOK'
  <2>1. executed' \in Seq(AllIntents)  BY <1>1, <1>2, <1>3
  <2>2. executing' \in {<< >>} \cup {<<j>> : j \in AllIntents}  BY <1>1, <1>2
  <2> QED BY <1>1, <1>2, <1>3, <2>1, <2>2 DEF IInv, TypeOK
<1>5. \A n \in DOMAIN executed' : executed'[n] \in processed'
  <2>1. /\ Len(executed') = Len(executed) + 1 /\ executed' \in Seq(AllIntents)
        /\ \A n \in 1..Len(executed) : executed'[n] = executed[n]
        /\ executed'[Len(executed) + 1] = i
    BY <1>1, <1>2, <1>3, AppendProperties
  <2>2. \A n \in 1..Len(executed) : executed[n] \in processed
    BY <1>3 DEF IInv, RouterInv
  <2>3. DOMAIN executed' = 1..Len(executed) \cup {Len(executed) + 1}  BY <1>3, <2>1
  <2> QED BY <1>1, <2>1, <2>2, <2>3
<1>6. RouterInv'  BY <1>2, <1>5 DEF RouterInv
<1>7. ApproversInv'  BY <1>1, ApproversStay DEF IInv
<1> QED BY <1>4, <1>6, <1>7 DEF IInv

\* its end,
LEMMA FinishPreserves == IInv /\ FinishExecution => IInv'
<1> SUFFICES ASSUME IInv, FinishExecution PROVE IInv'  OBVIOUS
<1> USE DEF approverVars, gateVars, crashVars
<1>1. executing[1] \in AllIntents  BY DEF IInv, TypeOK, FinishExecution
<1>2. TypeOK'  BY <1>1 DEF IInv, TypeOK, FinishExecution
<1>3. ApproversInv'  BY ApproversStay DEF IInv, FinishExecution
<1>4. RouterInv'  BY RouterStays DEF IInv, FinishExecution
<1> QED BY <1>2, <1>3, <1>4 DEF IInv

\* and a crash.
LEMMA CrashRouterPreserves == IInv /\ CrashRouter => IInv'
<1> SUFFICES ASSUME IInv, CrashRouter PROVE IInv'  OBVIOUS
<1> USE DEF approverVars, gateVars
<1>1. routerCrashes' \in 0..MaxRouterCrashes
  BY PipelineAssumption DEF IInv, TypeOK, CrashRouter
<1>2. << >> \in Seq(AllIntents)  OBVIOUS
<1>3. TypeOK'  BY <1>1, <1>2 DEF IInv, TypeOK, CrashRouter
<1>4. ApproversInv'  BY ApproversStay DEF IInv, CrashRouter
<1>5. RouterInv'
  <2>1. /\ routerBatch' = << >> /\ executed' = << >> /\ taken' = taken /\ taken \in Nat
    BY DEF IInv, TypeOK, CrashRouter
  <2>2. Len(routerBatch') = 0 /\ DOMAIN routerBatch' = {} /\ DOMAIN executed' = {}
    BY <2>1
  <2> QED BY <2>1, <2>2 DEF RouterInv
<1> QED BY <1>3, <1>4, <1>5 DEF IInv

\* Gates, deadlines and a breach.
LEMMA WorldPreserves ==
  ASSUME IInv,
         \/ \E i \in AllIntents : Expire(i)
         \/ \E risk, breaker \in BOOLEAN : SetGate(risk, breaker)
         \/ Breach
         \/ UNCHANGED vars
  PROVE  IInv'
<1> USE DEF approverVars, routerVars, gateVars, crashVars
<1>1. /\ UNCHANGED <<tradeIntents, delivered, batch, approved, taken, routerBatch, processed,
                     executing, crashes, routerCrashes, executed, reported>>
      /\ halted' \in BOOLEAN /\ riskBlocked' \in BOOLEAN /\ breakerOpen' \in BOOLEAN
      /\ expired' \subseteq AllIntents
  BY DEF IInv, TypeOK, Expire, SetGate, Breach, vars
<1>2. TypeOK'  BY <1>1 DEF IInv, TypeOK
<1>3. ApproversInv'  BY <1>1, ApproversStay DEF IInv
<1>4. RouterInv'  BY <1>1, RouterStays DEF IInv
<1> QED BY <1>2, <1>3, <1>4 DEF IInv

\* The steps of the pipeline together.
LEMMA NextPreserves == IInv /\ [Next]_vars => IInv'
<1> SUFFICES ASSUME IInv, [Next]_vars PROVE IInv'  OBVIOUS
<1>1. CASE \E i \in Intents : PublishIntent(i)  BY <1>1, PublishPreserves
<1>2. CASE \E i \in AllIntents : Expire(i)  BY <1>2, WorldPreserves
<1>3. CASE \E risk, breaker \in BOOLEAN : SetGate(risk, breaker)  BY <1>3, WorldPreserves
<1>4. CASE Approving
  BY <1>4, ReadIntentsPreserves, ApprovePreserves, RejectPreserves DEF Approving
<1>5. CASE \E i \in SafetyTrades : PublishSafetyTrade(i)  BY <1>5, SafetyTradePreserves
<1>6. CASE Breach  BY <1>6, WorldPreserves
<1>7. CASE \E a \in Approvers : CrashApprover(a)  BY <1>7, CrashApproverPreserves
<1>8. CASE Routing
  BY <1>8, ReadApprovedPreserves, SkipsPreserve, BeginPreserves, FinishPreserves DEF Routing
<1>9. CASE CrashRouter  BY <1>9, CrashRouterPreserves
<1>10. CASE UNCHANGED vars  BY <1>10, WorldPreserves
<1> QED BY <1>1, <1>2, <1>3, <1>4, <1>5, <1>6, <1>7, <1>8, <1>9, <1>10 DEF Next

-----------------------------------------------------------------------------

\* Every variable of the pipeline keeps its type: groups are never ahead of
\* their streams, and memories hold intents.
THEOREM TypeCorrect == Spec => []TypeOK
<1>1. IInv => TypeOK  BY DEF IInv
<1> QED BY <1>1, InitEstablishes, NextPreserves, PTL DEF Spec

\* However reads, approvals, refusals and crashes come in between, what a
\* process holds is the end of what its group was given (eventbus.go:110), and
\* an approver holds nothing that it has approved.
THEOREM OnePlaceOnly == Spec => []NothingOvertaken
<1>1. IInv => NothingOvertaken
  <2> SUFFICES ASSUME IInv PROVE NothingOvertaken  OBVIOUS
  <2>1. ASSUME NEW a \in Approvers, NEW n \in DOMAIN batch[a]
        PROVE  /\ ~\E m \in DOMAIN approved : approved[m].id = batch[a][n] /\ approved[m].by = a
               /\ batch[a][n] = tradeIntents[delivered[a] - Len(batch[a]) + n]
    <3> DEFINE p == delivered[a] - Len(batch[a])
    <3>1. /\ delivered[a] \in 0..Len(tradeIntents) /\ Len(tradeIntents) \in Nat
          /\ Len(batch[a]) \in Nat /\ Len(batch[a]) <= delivered[a]
          /\ n \in 1..Len(batch[a])
          /\ DOMAIN tradeIntents = 1..Len(tradeIntents)
      BY <2>1 DEF IInv, TypeOK, ApproversInv
    <3>2. p \in Nat /\ p + n \in DOMAIN tradeIntents /\ n > 0  BY <3>1
    <3>3. batch[a][n] = tradeIntents[p + n]  BY <2>1 DEF IInv, ApproversInv
    <3>4. \A k \in 1..p : k \in DOMAIN tradeIntents /\ k # p + n  BY <3>1, <3>2
    <3> HIDE DEF p
    <3>5. \A k \in 1..p : tradeIntents[k] # tradeIntents[p + n]
      BY <3>2, <3>4 DEF IInv, ApproversInv
    <3>6. \A m \in DOMAIN approved : approved[m].by = a =>
            \E k \in 1..p : approved[m].id = tradeIntents[k]
      BY DEF IInv, ApproversInv, p
    <3> QED BY <3>3, <3>5, <3>6 DEF p
  <2>2. taken <= Len(approved)  BY DEF IInv, TypeOK
  <2>3. \A n \in DOMAIN routerBatch :
          routerBatch[n] = approved[taken - Len(routerBatch) + n].id
    BY DEF IInv, RouterInv
  <2> QED BY <2>1, <2>2, <2>3 DEF NothingOvertaken
<1> QED BY <1>1, InitEstablishes, NextPreserves, PTL DEF Spec

\* Every step of the pipeline offers or executes an intent, starts the router
\* again, or does nothing that AtMostOnce sees.
LEMMA StepSimulation ==
  IInv /\ [Next]_vars => [Promise!Next]_<<Offered, executed>>
<1> SUFFICES ASSUME IInv, [Next]_vars PROVE [Promise!Next]_<<Offered, executed>>  OBVIOUS
<1> USE DEF approverVars, routerVars, gateVars, crashVars
<1>1. approved \in Seq(Approval)  BY DEF IInv, TypeOK, Approval
<1>2. ASSUME NEW x \in Approval, approved' = Append(approved, x), executed' = executed
      PROVE  Promise!Next
  <2>1. Offered' = Offered \cup {x.id}
    <3>1. /\ Len(approved') = Len(approved) + 1 /\ approved' \in Seq(Approval)
          /\ \A m \in 1..Len(approved) : approved'[m] = approved[m]
          /\ approved'[Len(approved) + 1] = x
      BY <1>1, <1>2, AppendProperties
    <3>2. DOMAIN approved' = DOMAIN approved \cup {Len(approved) + 1}  BY <1>1, <3>1
    <3> QED BY <1>1, <3>1, <3>2 DEF Offered
  <2>2. x.id \in AllIntents  BY DEF Approval
  <2> QED BY <1>2, <2>1, <2>2 DEF Promise!Next, Promise!Offer
<1>3. CASE UNCHANGED <<approved, executed>>  BY <1>3 DEF Offered
<1>4. CASE Approving
  <2>1. CASE \E a \in Approvers : ReadIntents(a) \/ Reject(a)
    BY <1>3, <2>1 DEF ReadIntents, Reject
  <2>2. CASE \E a \in Approvers : Approve(a)
    <3>1. PICK a \in Approvers : Approve(a)  BY <2>2
    <3>2. Head(batch[a]) \in Intents  BY <3>1, TailShifts DEF IInv, TypeOK, Approve
    <3>3. [id |-> Head(batch[a]), by |-> a] \in Approval  BY <3>2 DEF Approval, AllIntents
    <3> QED BY <1>2, <3>1, <3>3 DEF Approve
  <2> QED BY <1>4, <2>1, <2>2 DEF Approving
<1>5. CASE \E i \in SafetyTrades : PublishSafetyTrade(i)
  <2>1. PICK i \in SafetyTrades : PublishSafetyTrade(i)  BY <1>5
  <2>2. [id |-> i, by |-> "none"] \in Approval  BY DEF Approval, AllIntents
  <2> QED BY <1>2, <2>1, <2>2 DEF PublishSafetyTrade
<1>6. CASE BeginExecution
  <2> DEFINE i == Head(routerBatch)
  <2>1. i \notin processed /\ executed' = Append(executed, i) /\ approved' = approved
    BY <1>6 DEF BeginExecution, IsProcessed
  <2>2. /\ routerBatch # << >> /\ routerBatch \in Seq(AllIntents)
        /\ i = routerBatch[1] /\ 1 \in DOMAIN routerBatch /\ i \in AllIntents
    BY <1>6, TailShifts DEF BeginExecution, NextInBatch, IInv, TypeOK
  <2>3. /\ i = approved[taken - Len(routerBatch) + 1].id
        /\ taken - Len(routerBatch) + 1 \in DOMAIN approved
    <3>1. taken \in 0..Len(approved) /\ Len(routerBatch) <= taken /\ Len(routerBatch) >= 1
          /\ Len(routerBatch) \in Nat /\ Len(approved) \in Nat
      BY <1>1, <2>2, TailShifts DEF IInv, TypeOK, RouterInv
    <3>2. taken - Len(routerBatch) + 1 \in 1..Len(approved)  BY <3>1
    <3> QED BY <1>1, <2>2, <3>2 DEF IInv, RouterInv
  <2>4. i \in Offered  BY <2>3 DEF Offered
  <2>5. ~Contains(executed, i)
    <3>1. \A n \in DOMAIN executed : executed[n] # i  BY <2>1 DEF IInv, RouterInv
    <3>2. executed \in Seq(AllIntents)  BY DEF IInv, TypeOK
    <3> QED BY <3>1, <3>2 DEF Contains
  <2>6. Offered' = Offered  BY <2>1 DEF Offered
  <2> HIDE DEF i
  <2>7. Promise!Execute(i)
    BY <2>1, <2>4, <2>5, <2>6 DEF Promise!Execute, Contains, Promise!Contains
  <2> QED BY <2>2, <2>7 DEF Promise!Next
<1>7. CASE CrashRouter
  <2>1. executed' = << >> /\ Offered' = Offered  BY <1>7 DEF CrashRouter, Offered
  <2> QED BY <2>1 DEF Promise!Next, Promise!Restart
<1>8. CASE \E i \in Intents : PublishIntent(i)  BY <1>3, <1>8 DEF PublishIntent
<1>9. CASE \E i \in AllIntents : Expire(i)  BY <1>3, <1>9 DEF Expire
<1>10. CASE \E risk, breaker \in BOOLEAN : SetGate(risk, breaker)
  BY <1>3, <1>10 DEF SetGate
<1>11. CASE Breach  BY <1>3, <1>11 DEF Breach
<1>12. CASE \E a \in Approvers : CrashApprover(a)  BY <1>3, <1>12 DEF CrashApprover
<1>13. CASE Routing
  <2>1. CASE ReadApproved  BY <1>3, <2>1 DEF ReadApproved
  <2>2. CASE SkipGated \/ SkipDuplicate \/ SkipExpired
    BY <1>3, <2>2 DEF SkipGated, SkipDuplicate, SkipExpired
  <2>3. CASE FinishExecution  BY <1>3, <2>3 DEF FinishExecution
  <2> QED BY <1>6, <1>13, <2>1, <2>2, <2>3 DEF Routing
<1>14. CASE UNCHANGED vars  BY <1>3, <1>14 DEF vars
<1> QED BY <1>4, <1>5, <1>7, <1>8, <1>9, <1>10, <1>11, <1>12, <1>13, <1>14 DEF Next

\* Although two processes approve the same intent, with any delay between them,
\* and although each may crash, the pipeline implements AtMostOnce: in one life
\* of the router (cmd/execution-router/main.go:126) an intent is executed after
\* it was offered, and once at most.
THEOREM PipelineKeepsPromise == Spec => ExecutesAtMostOnce
<1>1. Init => Promise!Init
  <2>1. Init => approved = << >> /\ executed = << >>  BY DEF Init
  <2>2. approved = << >> => Offered = {}  BY DEF Offered
  <2> QED BY <2>1, <2>2 DEF Promise!Init
<1>2. IInv /\ [Next]_vars => [Promise!Next]_<<Offered, executed>>  BY StepSimulation
<1> QED BY <1>1, <1>2, InitEstablishes, NextPreserves, PTL
     DEF Spec, ExecutesAtMostOnce, Promise!Spec

-----------------------------------------------------------------------------
(* The pairs and the book.                                                 *)

\* A configured pair is configured once.
LEMMA PairsAreDistinct ==
  /\ Len(PairList) \in Nat
  /\ \A n \in 1..Len(PairList) : PairList[n] \in Pairs
  /\ \A m, n \in 1..Len(PairList) : PairList[m] = PairList[n] => m = n
  /\ IsFiniteSet(Pairs)
<1>1. PairList \in Seq(Pairs) /\ Len(PairList) = Cardinality(Pairs)
  BY SelectorAssumption DEF SelectorAssumption
<1>2. Len(PairList) \in Nat /\ PairList \in [1..Len(PairList) -> Pairs]
  BY <1>1
<1>3. \A p \in Pairs : \E n \in 1..Len(PairList) : PairList[n] = p
  BY <1>2 DEF Pairs, ToSet
<1>4. PairList \in Surjection(1..Len(PairList), Pairs)
  BY <1>2, <1>3 DEF Surjection
<1>5. IsFiniteSet(1..Len(PairList)) /\ Cardinality(1..Len(PairList)) = Len(PairList)
  BY <1>2, FS_Interval
<1>6. IsFiniteSet(Pairs) /\ (Cardinality(Pairs) = Cardinality(1..Len(PairList)) =>
                               PairList \in Injection(1..Len(PairList), Pairs))
  BY <1>4, <1>5, FS_Surjection, FS_SurjSameCardinalityImpliesInj
<1>7. PairList \in Injection(1..Len(PairList), Pairs)  BY <1>1, <1>5, <1>6
<1> QED BY <1>2, <1>6, <1>7 DEF Injection, IsInjective

\* What is allocated is a number.
LEMMA AllocatedIsInt ==
  ASSUME SelectorTypeOK
  PROVE  Allocated \in Int
<1> DEFINE f == [k \in DOMAIN positions |->
                   LET pos == positions[k]
                   IN  100 * (pos.notional + (10 * pos.notional) \div Highest(pos.beta, 1))]
<1>1. DOMAIN positions \subseteq Pairs \X {1, 2}  BY DEF SelectorTypeOK, Keys
<1>2. IsFiniteSet({1, 2})
  <2>1. {1, 2} = 1..2  OBVIOUS
  <2>2. 1 \in Int /\ 2 \in Int  OBVIOUS
  <2>3. IsFiniteSet(1..2)  BY <2>2, FS_Interval, Zenon
  <2> QED BY <2>1, <2>3
<1>3. IsFiniteSet(DOMAIN positions)
  BY <1>1, <1>2, PairsAreDistinct, FS_Product, FS_Subset
<1>4. ASSUME NEW k \in DOMAIN positions PROVE f[k] \in Int
  <2>1. positions[k].notional \in Nat /\ positions[k].beta \in Int
    BY DEF SelectorTypeOK, Position
  <2>2. Highest(positions[k].beta, 1) \in Nat \ {0}
    BY <2>1 DEF Highest
  <2> QED BY <2>1, <2>2
<1>5. DOMAIN f = DOMAIN positions  OBVIOUS
<1>6. Allocated = SumFunction(f)  BY DEF Allocated
<1> HIDE DEF f
<1>7. Summable(f)  BY <1>3, <1>4, <1>5 DEF Summable
<1> QED BY <1>6, <1>7, SumFunctionInt

-----------------------------------------------------------------------------
(* The entries of an evaluation.                                           *)

\* One pair's turn.
Considered(conds, equity, n, before) ==
  LET p == PairList[n]
  IN  IF MayEnter(p, conds[p], equity, before.allocated)
      THEN [allocated |-> before.allocated + Grant(conds[p], equity, before.allocated),
            intents |-> Append(before.intents, EntryIntent(p, conds[p]))]
      ELSE before

EntriesAfter(conds, equity) ==
  CHOOSE after : after = [n \in 0..Len(PairList) |->
    IF n = 0 THEN [allocated |-> Allocated, intents |-> << >>]
    ELSE Considered(conds, equity, n, after[n - 1])]

\* The entries are what is there after the last pair.
LEMMA EntriesChosen ==
  ASSUME NEW conds, NEW equity
  PROVE  EntriesOf(conds, equity) = EntriesAfter(conds, equity)[Len(PairList)]
BY DEF EntriesOf, EntriesAfter, Considered

Grants == [allocated : Int, intents : Seq(Intent)]

\* What is granted is a number and leaves the cap.
LEMMA GrantWithinCap ==
  ASSUME NEW c \in Condition, NEW equity \in Nat, NEW allocated \in Int
  PROVE  /\ Grant(c, equity, allocated) \in Int
         /\ allocated + Grant(c, equity, allocated) <= TotalMaxAllocationPct * equity
<1>1. TotalMaxAllocationPct \in Nat /\ MaxAllocationPct \in Nat
  BY SelectorAssumption DEF SelectorAssumption
<1>2. AllocationPct(c) \in Int
  <2> DEFINE b == PaysFunding(c)
  <2>1. b \in BOOLEAN /\ c.diff \in Int  BY DEF PaysFunding, Condition
  <2>2. (CASE ~b -> 20 [] b /\ c.diff >= 300 -> 30
           [] b /\ c.diff >= 100 /\ c.diff < 300 -> 20
           [] OTHER -> 15) \in Int
    <3> HIDE DEF b
    <3> QED BY <2>1
  <2> QED BY <1>1, <2>2 DEF AllocationPct, Lowest
<1> DEFINE t == TotalMaxAllocationPct * equity
           a == AllocationPct(c) * equity
<1>3. t \in Int /\ a \in Int  BY <1>1, <1>2
<1>4. Grant(c, equity, allocated) = Lowest(a, t - allocated)  BY DEF Grant
<1> HIDE DEF t, a
<1>5. Lowest(a, t - allocated) \in Int /\ allocated + Lowest(a, t - allocated) <= t
  BY <1>3 DEF Lowest
<1> QED BY <1>4, <1>5 DEF t

\* An intent is what its fields are.
LEMMA IntentIs ==
  ASSUME NEW p \in Pairs, NEW s \in Strategies, NEW x \in BOOLEAN, NEW b \in BOOLEAN
  PROVE  [pair |-> p, strategy |-> s, exit |-> x, buys |-> b] \in Intent
BY Zenon DEF Intent

\* A turn leaves a record of grants, and one more intent at most.
LEMMA ConsideredIsGrants ==
  ASSUME NEW conds \in [Pairs -> Condition], NEW equity \in Nat,
         NEW n \in 1..Len(PairList), NEW before \in Grants
  PROVE  Considered(conds, equity, n, before) \in Grants
<1> DEFINE p == PairList[n]
<1>1. p \in Pairs /\ conds[p] \in Condition  BY PairsAreDistinct
<1>2. before.allocated \in Int /\ before.intents \in Seq(Intent)  BY DEF Grants
<1>3. EntryIntent(p, conds[p]) \in Intent
  <2>1. PaysFunding(conds[p]) \in BOOLEAN  BY DEF PaysFunding
  <2>2. (~PaysFunding(conds[p]) /\ conds[p].z < 0) \in BOOLEAN  OBVIOUS
  <2> DEFINE b == ~PaysFunding(conds[p]) /\ conds[p].z < 0
             s == IF PaysFunding(conds[p]) THEN "FUNDING_CARRY" ELSE "BASIS_REVERSION"
  <2>3. EntryIntent(p, conds[p]) = [pair |-> p, strategy |-> s, exit |-> FALSE, buys |-> b]
    BY DEF EntryIntent
  <2>4. s \in Strategies /\ b \in BOOLEAN /\ FALSE \in BOOLEAN  BY <2>2 DEF Strategies
  <2> HIDE DEF s, b
  <2> QED BY <1>1, <2>3, <2>4, IntentIs, Zenon
<1>4. before.allocated + Grant(conds[p], equity, before.allocated) \in Int
  <2> DEFINE a == before.allocated  c == conds[p]
  <2>1. a \in Int /\ c \in Condition  BY <1>1, <1>2
  <2> HIDE DEF a, c
  <2>2. Grant(c, equity, a) \in Int  BY <2>1, GrantWithinCap
  <2>3. a + Grant(c, equity, a) \in Int  BY <2>1, <2>2
  <2> QED BY <2>3 DEF a, c
<1>5. Append(before.intents, EntryIntent(p, conds[p])) \in Seq(Intent)
  BY <1>2, <1>3, AppendProperties
<1> HIDE DEF p
<1>6. [allocated |-> before.allocated + Grant(conds[p], equity, before.allocated),
       intents |-> Append(before.intents, EntryIntent(p, conds[p]))] \in Grants
  BY <1>4, <1>5 DEF Grants
<1> QED BY <1>6 DEF Considered, p

\* The entries exist: the recursion has a solution, and it is unwound turn by
\* turn.
LEMMA EntriesUnwind ==
  ASSUME SelectorTypeOK, NEW conds \in [Pairs -> Condition], NEW equity \in Nat
  PROVE  /\ EntriesAfter(conds, equity)[0] = [allocated |-> Allocated, intents |-> << >>]
         /\ \A n \in 1..Len(PairList) :
              EntriesAfter(conds, equity)[n]
                = Considered(conds, equity, n, EntriesAfter(conds, equity)[n - 1])
<1> DEFINE N    == Len(PairList)
           base == [allocated |-> Allocated, intents |-> << >>]
           step == [x \in (1..N) \X Grants |-> Considered(conds, equity, x[1], x[2])]
           F(g) == [n \in 0..N |-> IF n = 0 THEN base ELSE Considered(conds, equity, n, g[n - 1])]
<1>1. N \in Nat  BY PairsAreDistinct
<1>2. base \in Grants  BY AllocatedIsInt DEF Grants
<1>3. \A n \in 1..N : \A v \in Grants :
        step[<<n, v>>] = Considered(conds, equity, n, v) /\ step[<<n, v>>] \in Grants
  BY ConsideredIsGrants
<1> HIDE DEF base, step, N
<1>4. PICK g \in [0..N -> Grants] : Recurs(g, N, base, step)
  BY <1>1, <1>2, <1>3, RecursionDefined
<1>5. g = F(g)
  <2>1. ASSUME NEW n \in 0..N, n # 0
        PROVE  step[<<n, g[n - 1]>>] = Considered(conds, equity, n, g[n - 1])
    <3>1. n \in 1..N /\ n - 1 \in 0..N  BY <1>1, <2>1
    <3>2. g[n - 1] \in Grants  BY <3>1
    <3> QED BY <1>3, <3>1, <3>2
  <2>2. \A n \in 0..N : (IF n = 0 THEN base ELSE step[<<n, g[n - 1]>>])
                         = IF n = 0 THEN base ELSE Considered(conds, equity, n, g[n - 1])
    BY <2>1
  <2>3. g = [n \in 0..N |-> IF n = 0 THEN base ELSE step[<<n, g[n - 1]>>]]
    BY <1>4 DEF Recurs
  <2> QED BY <2>2, <2>3
<1> DEFINE h == EntriesAfter(conds, equity)
<1>6. h = CHOOSE after : after = F(after)
  BY DEF EntriesAfter, base, N
<1>7. h = F(h)
  <2> HIDE DEF h, F
  <2> QED BY <1>5, <1>6
<1> HIDE DEF h
<1>8. h[0] = base  BY <1>1, <1>7
<1>9. \A n \in 1..N : h[n] = Considered(conds, equity, n, h[n - 1])
  BY <1>1, <1>7
<1> QED BY <1>8, <1>9 DEF h, base, N

\* What the evaluation guarantees of the entries of the first n pairs.
WithinCap(r, equity) ==
  r.intents # << >> => r.allocated <= TotalMaxAllocationPct * equity

OfFirst(q, n) ==
  \A i \in 1..Len(q) :
    /\ \E k \in 1..n : q[i].pair = PairList[k]
    /\ q[i].exit = FALSE /\ ~Open(q[i].pair) /\ cooldowns[q[i].pair] = 0

PairsOnce(q) == \A i, j \in 1..Len(q) : q[i].pair = q[j].pair => i = j

GoodEntries(r, n, equity) ==
  r \in Grants /\ WithinCap(r, equity) /\ OfFirst(r.intents, n) /\ PairsOnce(r.intents)

\* Every turn keeps it.
LEMMA ConsideredIsGood ==
  ASSUME NEW conds \in [Pairs -> Condition], NEW equity \in Nat,
         NEW n \in 1..Len(PairList), NEW before, GoodEntries(before, n - 1, equity)
  PROVE  GoodEntries(Considered(conds, equity, n, before), n, equity)
<1> DEFINE p == PairList[n]
           q == before.intents
           i == EntryIntent(p, conds[p])
           r == [allocated |-> before.allocated + Grant(conds[p], equity, before.allocated),
                 intents |-> Append(q, i)]
<1>1. /\ n \in Nat /\ Len(PairList) \in Nat /\ p \in Pairs /\ conds[p] \in Condition
      /\ before \in Grants /\ before.allocated \in Int /\ q \in Seq(Intent)
      /\ Considered(conds, equity, n, before) \in Grants
  BY PairsAreDistinct, ConsideredIsGrants DEF GoodEntries, Grants
<1>2. OfFirst(q, n)  BY <1>1 DEF OfFirst, GoodEntries
<1>3. CASE ~MayEnter(p, conds[p], equity, before.allocated)
  <2>1. Considered(conds, equity, n, before) = before  BY <1>3 DEF Considered
  <2> QED BY <1>2, <2>1 DEF GoodEntries
<1>4. CASE MayEnter(p, conds[p], equity, before.allocated)
  <2>1. Considered(conds, equity, n, before) = r  BY <1>4 DEF Considered
  <2>2. WithinCap(r, equity)
    <3>1. before.allocated + Grant(conds[p], equity, before.allocated)
            <= TotalMaxAllocationPct * equity
      BY <1>1, GrantWithinCap
    <3> QED BY <3>1 DEF WithinCap
  <2>3. i.pair = p /\ i.exit = FALSE  BY DEF EntryIntent
  <2>4. ~Open(p) /\ cooldowns[p] = 0  BY <1>4 DEF MayEnter
  <2>5. r.intents = Append(q, i)  OBVIOUS
  <2>6. /\ Len(Append(q, i)) = Len(q) + 1 /\ Len(q) \in Nat
        /\ \A k \in 1..Len(q) : Append(q, i)[k] = q[k]
        /\ Append(q, i)[Len(q) + 1] = i
    BY <1>1
  <2> DEFINE a == Append(q, i)
  <2>7. OfFirst(a, n)
    <3> SUFFICES ASSUME NEW m \in 1..Len(a)
                 PROVE  /\ \E k \in 1..n : a[m].pair = PairList[k]
                        /\ a[m].exit = FALSE /\ ~Open(a[m].pair) /\ cooldowns[a[m].pair] = 0
      BY DEF OfFirst
    <3>1. CASE m \in 1..Len(q)
      <4>1. a[m] = q[m]  BY <2>6, <3>1
      <4> HIDE DEF a, q
      <4> QED BY <1>2, <3>1, <4>1 DEF OfFirst
    <3>2. CASE m \notin 1..Len(q)
      <4>1. m = Len(q) + 1  BY <2>6, <3>2
      <4>2. a[m].pair = PairList[n] /\ n \in 1..n /\ a[m].pair = p /\ a[m].exit = FALSE
        BY <1>1, <2>3, <2>6, <4>1
      <4> HIDE DEF a, p
      <4> QED BY <2>4, <4>2
    <3> QED BY <3>1, <3>2
  <2>8. PairsOnce(a)
    <3>1. \A m \in 1..Len(q) : q[m].pair # p
      <4> SUFFICES ASSUME NEW m \in 1..Len(q), q[m].pair = p PROVE FALSE  OBVIOUS
      <4>1. PICK k \in 1..(n - 1) : q[m].pair = PairList[k]  BY DEF GoodEntries, OfFirst
      <4>2. k \in 1..Len(PairList) /\ k # n /\ PairList[k] = PairList[n]  BY <1>1, <4>1
      <4> QED BY <4>2, PairsAreDistinct
    <3>2. \A m, k \in 1..Len(q) : q[m].pair = q[k].pair => m = k
      BY DEF GoodEntries, PairsOnce
    <3>3. \A m \in 1..Len(a) : \/ m \in 1..Len(q) /\ a[m].pair = q[m].pair
                               \/ m = Len(q) + 1 /\ a[m].pair = p
      BY <2>3, <2>6
    <3> HIDE DEF a, q, p
    <3> QED BY <3>1, <3>2, <3>3 DEF PairsOnce
  <2> QED BY <1>1, <2>1, <2>2, <2>5, <2>7, <2>8 DEF GoodEntries
<1> QED BY <1>3, <1>4

\* So all the entries of an evaluation have it.
LEMMA EntriesAreGood ==
  ASSUME SelectorTypeOK, NEW conds \in [Pairs -> Condition], NEW equity \in Nat
  PROVE  GoodEntries(EntriesOf(conds, equity), Len(PairList), equity)
<1> DEFINE h == EntriesAfter(conds, equity)
           P == {n \in Nat : n <= Len(PairList) => GoodEntries(h[n], n, equity)}
<1>1. Len(PairList) \in Nat  BY PairsAreDistinct
<1>2. 0 \in P
  <2>1. h[0] = [allocated |-> Allocated, intents |-> << >>]  BY EntriesUnwind
  <2>2. Allocated \in Int  BY AllocatedIsInt
  <2>3. h[0] \in Grants /\ h[0].intents = << >>
    <3> HIDE DEF h
    <3> QED BY <2>1, <2>2 DEF Grants
  <2> HIDE DEF h
  <2>4. GoodEntries(h[0], 0, equity)
    BY <2>3 DEF GoodEntries, WithinCap, OfFirst, PairsOnce
  <2> QED BY <2>4
<1>3. ASSUME NEW n \in Nat, n \in P PROVE n + 1 \in P
  <2> SUFFICES ASSUME n + 1 <= Len(PairList) PROVE GoodEntries(h[n + 1], n + 1, equity)
    OBVIOUS
  <2>1. n + 1 \in 1..Len(PairList) /\ (n + 1) - 1 = n  BY <1>1
  <2>2. h[n + 1] = Considered(conds, equity, n + 1, h[n])
    <3>1. h[n + 1] = Considered(conds, equity, n + 1, h[(n + 1) - 1])
      BY <2>1, EntriesUnwind
    <3> HIDE DEF h
    <3> QED BY <2>1, <3>1
  <2>3. GoodEntries(h[n], n, equity)  BY <1>1, <1>3
  <2> HIDE DEF h
  <2>4. GoodEntries(h[n], (n + 1) - 1, equity)  BY <2>1, <2>3
  <2> QED BY <2>1, <2>2, <2>4, ConsideredIsGood
<1> HIDE DEF P
<1>4. Len(PairList) \in P  BY <1>1, <1>2, <1>3, NatSetInduction
<1>5. GoodEntries(h[Len(PairList)], Len(PairList), equity)  BY <1>4 DEF P
<1> QED BY <1>5, EntriesChosen

\* The entries as the process publishes them.
LEMMA EntriesAreNew ==
  ASSUME SelectorTypeOK, NEW conds \in [Pairs -> Condition], NEW equity \in Nat
  PROVE  LET q == EntriesOf(conds, equity).intents
         IN  /\ q \in Seq(Intent) /\ PairsOnce(q)
             /\ \A i \in 1..Len(q) :
                  /\ q[i].pair \in Pairs /\ q[i].exit = FALSE
                  /\ ~Open(q[i].pair) /\ cooldowns[q[i].pair] = 0
<1> DEFINE r == EntriesOf(conds, equity)
<1>1. r \in Grants /\ OfFirst(r.intents, Len(PairList)) /\ PairsOnce(r.intents)
  BY EntriesAreGood DEF GoodEntries
<1> HIDE DEF r
<1>2. r.intents \in Seq(Intent)  BY <1>1 DEF Grants
<1>3. \A i \in 1..Len(r.intents) :
        /\ r.intents[i].pair \in Pairs /\ r.intents[i].exit = FALSE
        /\ ~Open(r.intents[i].pair) /\ cooldowns[r.intents[i].pair] = 0
  <2>1. \A k \in 1..Len(PairList) : PairList[k] \in Pairs  BY PairsAreDistinct
  <2> QED BY <1>1, <2>1 DEF OfFirst
<1> QED BY <1>1, <1>2, <1>3 DEF r

-----------------------------------------------------------------------------
(* A batch of confirmations.                                               *)

Books == UNION {[D -> Position] : D \in SUBSET Keys}

Selectors == [positions : Books, cooldowns : [Pairs -> 0..Cooldown]]

\* The selector as a value has its type.
LEMMA SelectorIsTyped ==
  ASSUME SelectorTypeOK
  PROVE  Selector \in Selectors
<1>1. positions \in Books
  BY DEF SelectorTypeOK, Books
<1> QED BY <1>1 DEF SelectorTypeOK, Selector, Selectors

\* A book is a function on some keys.
LEMMA BookIsTyped ==
  ASSUME NEW b \in Books
  PROVE  DOMAIN b \subseteq Keys /\ b \in [DOMAIN b -> Position]
BY DEF Books

\* and such a function is a book.
LEMMA TypedIsBook ==
  ASSUME NEW b, NEW D, D \subseteq Keys, b \in [D -> Position]
  PROVE  b \in Books
BY DEF Books

\* A key is a symbol and the way it is taken.
LEMMA KeyIsPair ==
  ASSUME NEW k \in Keys
  PROVE  k[1] \in Pairs /\ k[2] \in {1, 2} /\ k = <<k[1], k[2]>>
BY DEF Keys

\* The cooldown of a confirmed pair starts again, no other does.
LEMMA CooldownStarts ==
  ASSUME NEW s \in Selectors, NEW k \in Keys
  PROVE  /\ CooldownStarted(s, k) \in [Pairs -> 0..Cooldown]
         /\ \A p \in Pairs : CooldownStarted(s, k)[p]
                               = IF k = <<p, 1>> THEN Cooldown ELSE s.cooldowns[p]
<1>1. s.cooldowns \in [Pairs -> 0..Cooldown]  BY DEF Selectors
<1>2. Cooldown \in Nat  BY SelectorAssumption DEF SelectorAssumption
<1>3. k[1] \in Pairs /\ k[2] \in {1, 2} /\ k = <<k[1], k[2]>>  BY KeyIsPair
<1>4. \A p \in Pairs : k = <<p, 1>> <=> k[2] = 1 /\ k[1] = p  BY <1>3
<1>5. CASE k[2] = 1
  <2>1. CooldownStarted(s, k) = [s.cooldowns EXCEPT ![k[1]] = Cooldown]
    BY <1>5 DEF CooldownStarted
  <2> QED BY <1>1, <1>2, <1>3, <1>4, <1>5, <2>1
<1>6. CASE k[2] # 1
  <2>1. CooldownStarted(s, k) = s.cooldowns
    BY <1>6 DEF CooldownStarted
  <2> QED BY <1>1, <1>4, <1>6, <2>1
<1> QED BY <1>5, <1>6

\* What is booked of a confirmed entry.
EntryBooked(k, m, c) ==
  [strategy |-> m.strategy, notional |-> m.price, beta |-> c.beta,
   entrySpread |-> IF IsSpread(k, m.strategy) THEN Sign(c.z) ELSE 0,
   age |-> 0, negativeCycles |-> 0]

\* It is a position.
LEMMA EntryIsPosition ==
  ASSUME NEW m \in Message, NEW c \in Condition, NEW k
  PROVE  EntryBooked(k, m, c) \in Position
<1>1. /\ BasisHoldingMax \in Nat /\ FundingNegativeExitCycles \in Nat
  BY SelectorAssumption DEF SelectorAssumption
<1>2. 0 \in 0..(BasisHoldingMax + 1) /\ 0 \in 0..FundingNegativeExitCycles
  BY <1>1
<1>3. m.strategy \in Strategies /\ m.price \in Nat /\ c.beta \in Int /\ c.z \in Int
  BY DEF Message, Condition
<1> DEFINE e == IF IsSpread(k, m.strategy) THEN Sign(c.z) ELSE 0
<1>4. e \in {-1, 0, 1}
  BY <1>3 DEF Sign
<1>5. EntryBooked(k, m, c) = [strategy |-> m.strategy, notional |-> m.price, beta |-> c.beta,
                              entrySpread |-> e, age |-> 0, negativeCycles |-> 0]
  BY DEF EntryBooked
<1> HIDE DEF e
<1> QED BY <1>2, <1>3, <1>4, <1>5 DEF Position

\* A confirmation leaves a selector that differs in the key of the message and
\* the cooldown of its pair.
LEMMA ConfirmChanges ==
  ASSUME NEW s \in Selectors, NEW m \in Message, NEW c \in Condition
  PROVE  LET t == Confirm(s, m, c)
         IN  /\ t \in Selectors
             /\ m.key \in DOMAIN t.positions <=> ~m.exit
             /\ \A k \in Keys : k # m.key =>
                  /\ k \in DOMAIN t.positions <=> k \in DOMAIN s.positions
                  /\ k \in DOMAIN s.positions => t.positions[k] = s.positions[k]
             /\ \A p \in Pairs :
                  t.cooldowns[p] = IF m.key = <<p, 1>> THEN Cooldown ELSE s.cooldowns[p]
<1> DEFINE t == Confirm(s, m, c)
           b == s.positions
           after == IF m.exit THEN [j \in DOMAIN b \ {m.key} |-> b[j]]
                    ELSE [j \in DOMAIN b \cup {m.key} |->
                            IF j = m.key THEN EntryBooked(m.key, m, c) ELSE b[j]]
<1>1. m.key \in Keys /\ b \in Books /\ EntryBooked(m.key, m, c) \in Position
  BY EntryIsPosition DEF Message, Selectors
<1>2. DOMAIN b \subseteq Keys /\ b \in [DOMAIN b -> Position]
  BY <1>1, BookIsTyped
<1>3. t = [positions |-> after, cooldowns |-> CooldownStarted(s, m.key)]
  BY DEF Confirm, ConfirmExit, ConfirmEntry, EntryBooked
<1>4. t.positions = after /\ t.cooldowns = CooldownStarted(s, m.key)
  <2> HIDE DEF t, after
  <2> QED BY <1>3
<1> DEFINE e == EntryBooked(m.key, m, c)
           key == m.key
           out == m.exit
<1>5. after = IF out THEN [j \in DOMAIN b \ {key} |-> b[j]]
              ELSE [j \in DOMAIN b \cup {key} |-> IF j = key THEN e ELSE b[j]]
  OBVIOUS
<1> HIDE DEF t, after, b, e, key, out
<1>6. /\ after \in Books /\ (key \in DOMAIN after <=> ~out)
      /\ \A k \in Keys : k # key =>
           /\ k \in DOMAIN after <=> k \in DOMAIN b
           /\ k \in DOMAIN b => after[k] = b[k]
  <2>1. CASE out
    <3>1. after = [j \in DOMAIN b \ {key} |-> b[j]]  BY <1>5, <2>1
    <3>2. DOMAIN after = DOMAIN b \ {key} /\ after \in [DOMAIN b \ {key} -> Position]
      BY <1>2, <3>1
    <3>3. DOMAIN b \ {key} \subseteq Keys  BY <1>2
    <3>4. after \in Books  BY <3>2, <3>3, TypedIsBook
    <3> QED BY <2>1, <3>1, <3>2, <3>4
  <2>2. CASE ~out
    <3>1. after = [j \in DOMAIN b \cup {key} |-> IF j = key THEN e ELSE b[j]]  BY <1>5, <2>2
    <3>2. DOMAIN after = DOMAIN b \cup {key} /\ after \in [DOMAIN b \cup {key} -> Position]
      BY <1>1, <1>2, <3>1 DEF e
    <3>3. DOMAIN b \cup {key} \subseteq Keys  BY <1>1, <1>2 DEF key
    <3>4. after \in Books  BY <3>2, <3>3, TypedIsBook
    <3> QED BY <2>2, <3>1, <3>2, <3>4
  <2> QED BY <2>1, <2>2
<1>7. /\ CooldownStarted(s, key) \in [Pairs -> 0..Cooldown]
      /\ \A p \in Pairs : CooldownStarted(s, key)[p]
                            = IF key = <<p, 1>> THEN Cooldown ELSE s.cooldowns[p]
  BY <1>1, CooldownStarts DEF key
<1>8. /\ t = [positions |-> after, cooldowns |-> CooldownStarted(s, key)]
      /\ t.positions = after /\ t.cooldowns = CooldownStarted(s, key)
  BY <1>3, <1>4 DEF key
<1> DEFINE cooled == CooldownStarted(s, key)
<1> HIDE DEF cooled
<1>9. t \in Selectors  BY <1>6, <1>7, <1>8 DEF Selectors, cooled
<1>10. /\ key \in DOMAIN t.positions <=> ~out
       /\ \A k \in Keys : k # key =>
            /\ k \in DOMAIN t.positions <=> k \in DOMAIN b
            /\ k \in DOMAIN b => t.positions[k] = b[k]
       /\ \A p \in Pairs :
            t.cooldowns[p] = IF key = <<p, 1>> THEN Cooldown ELSE s.cooldowns[p]
  BY <1>6, <1>7, <1>8
<1> QED BY <1>9, <1>10 DEF t, key, out, b

ConfirmedAfter(messages, c) ==
  CHOOSE after : after = [n \in 0..Len(messages) |->
    IF n = 0 THEN Selector ELSE Confirm(after[n - 1], messages[n], c)]

\* The confirmations of a batch are unwound message by message.
LEMMA ConfirmationsUnwind ==
  ASSUME SelectorTypeOK, NEW messages \in Seq(Message), NEW c \in Condition
  PROVE  /\ ConfirmAll(messages, c) = ConfirmedAfter(messages, c)[Len(messages)]
         /\ ConfirmedAfter(messages, c)[0] = Selector
         /\ \A n \in 1..Len(messages) :
              ConfirmedAfter(messages, c)[n]
                = Confirm(ConfirmedAfter(messages, c)[n - 1], messages[n], c)
<1> DEFINE N    == Len(messages)
           step == [x \in (1..N) \X Selectors |-> Confirm(x[2], messages[x[1]], c)]
           F(g) == [n \in 0..N |-> IF n = 0 THEN Selector ELSE Confirm(g[n - 1], messages[n], c)]
<1>1. N \in Nat /\ \A n \in 1..N : messages[n] \in Message  OBVIOUS
<1>2. Selector \in Selectors  BY SelectorIsTyped
<1>3. \A n \in 1..N : \A v \in Selectors :
        step[<<n, v>>] = Confirm(v, messages[n], c) /\ step[<<n, v>>] \in Selectors
  <2> TAKE n \in 1..N
  <2> TAKE v \in Selectors
  <2>1. step[<<n, v>>] = Confirm(v, messages[n], c)  OBVIOUS
  <2>2. Confirm(v, messages[n], c) \in Selectors
    <3>1. messages[n] \in Message  BY <1>1
    <3> QED BY <3>1, ConfirmChanges
  <2> QED BY <2>1, <2>2
<1> HIDE DEF step, N
<1>4. PICK g \in [0..N -> Selectors] : Recurs(g, N, Selector, step)
  BY <1>1, <1>2, <1>3, RecursionDefined
<1>5. g = F(g)
  <2>1. ASSUME NEW n \in 0..N, n # 0
        PROVE  step[<<n, g[n - 1]>>] = Confirm(g[n - 1], messages[n], c)
    <3>1. n \in 1..N /\ n - 1 \in 0..N  BY <1>1, <2>1
    <3>2. g[n - 1] \in Selectors  BY <3>1
    <3> QED BY <1>3, <3>1, <3>2
  <2>2. \A n \in 0..N : (IF n = 0 THEN Selector ELSE step[<<n, g[n - 1]>>])
                         = IF n = 0 THEN Selector ELSE Confirm(g[n - 1], messages[n], c)
    BY <2>1
  <2>3. g = [n \in 0..N |-> IF n = 0 THEN Selector ELSE step[<<n, g[n - 1]>>]]
    BY <1>4 DEF Recurs
  <2> QED BY <2>2, <2>3
<1> DEFINE h == ConfirmedAfter(messages, c)
<1>6. h = CHOOSE after : after = F(after)
  BY DEF ConfirmedAfter, N
<1>7. h = F(h)
  <2> HIDE DEF h, F
  <2> QED BY <1>5, <1>6
<1>8. ConfirmAll(messages, c) = h[N]
  BY DEF ConfirmAll, ConfirmedAfter, N
<1> HIDE DEF h
<1>9. h[0] = Selector  BY <1>1, <1>7
<1>10. \A n \in 1..N : h[n] = Confirm(h[n - 1], messages[n], c)
  BY <1>1, <1>7
<1> QED BY <1>8, <1>9, <1>10 DEF h, N

\* What a selector has of a pair once some messages are confirmed: what it had
\* when none is about the pair, and what the last of those leaves otherwise.
Untouched(r, p) ==
  /\ <<p, 1>> \in DOMAIN r.positions <=> Open(p)
  /\ Open(p) => r.positions[<<p, 1>>] = positions[<<p, 1>>]
  /\ r.cooldowns[p] = cooldowns[p]

Told(r, p, exit) ==
  /\ <<p, 1>> \in DOMAIN r.positions <=> ~exit
  /\ r.cooldowns[p] = Cooldown

Follows(r, p, messages, n) ==
  \/ /\ \A k \in 1..n : messages[k].key # <<p, 1>>
     /\ Untouched(r, p)
  \/ \E k \in 1..n : messages[k].key = <<p, 1>> /\ Told(r, p, messages[k].exit)

\* One more message.
LEMMA ConfirmFollows ==
  ASSUME NEW messages \in Seq(Message), NEW c \in Condition, NEW p \in Pairs,
         NEW n \in 1..Len(messages), NEW s \in Selectors, Follows(s, p, messages, n - 1)
  PROVE  Follows(Confirm(s, messages[n], c), p, messages, n)
<1> DEFINE t == Confirm(s, messages[n], c)
           m == messages[n]
<1>1. m \in Message /\ n \in Nat  OBVIOUS
<1>2. /\ m.key \in DOMAIN t.positions <=> ~m.exit
      /\ \A k \in Keys : k # m.key =>
           /\ k \in DOMAIN t.positions <=> k \in DOMAIN s.positions
           /\ k \in DOMAIN s.positions => t.positions[k] = s.positions[k]
      /\ t.cooldowns[p] = IF m.key = <<p, 1>> THEN Cooldown ELSE s.cooldowns[p]
  BY <1>1, ConfirmChanges
<1>3. <<p, 1>> \in Keys  BY DEF Keys
<1> HIDE DEF t
<1>4. CASE m.key = <<p, 1>>
  <2>1. Told(t, p, m.exit)  BY <1>2, <1>4 DEF Told
  <2>2. n \in 1..n  BY <1>1
  <2> QED BY <1>4, <2>1, <2>2 DEF Follows, t
<1>5. CASE m.key # <<p, 1>>
  <2>0. /\ <<p, 1>> \in DOMAIN t.positions <=> <<p, 1>> \in DOMAIN s.positions
        /\ <<p, 1>> \in DOMAIN s.positions => t.positions[<<p, 1>>] = s.positions[<<p, 1>>]
        /\ t.cooldowns[p] = s.cooldowns[p]
    BY <1>2, <1>3, <1>5
  <2>1. CASE (\A k \in 1..(n - 1) : messages[k].key # <<p, 1>>) /\ Untouched(s, p)
    <3>1. \A k \in 1..n : messages[k].key # <<p, 1>>
      <4>1. \A k \in 1..n : k \in 1..(n - 1) \/ k = n  BY <1>1
      <4> QED BY <1>5, <2>1, <4>1
    <3>2. Untouched(t, p)  BY <2>0, <2>1 DEF Untouched
    <3> QED BY <3>1, <3>2 DEF Follows, t
  <2>2. CASE \E k \in 1..(n - 1) : messages[k].key = <<p, 1>> /\ Told(s, p, messages[k].exit)
    <3>1. PICK k \in 1..(n - 1) : messages[k].key = <<p, 1>> /\ Told(s, p, messages[k].exit)
      BY <2>2
    <3>2. k \in 1..n  BY <1>1
    <3>3. Told(t, p, messages[k].exit)  BY <2>0, <3>1 DEF Told
    <3> QED BY <3>1, <3>2, <3>3 DEF Follows, t
  <2> QED BY <2>1, <2>2 DEF Follows
<1> QED BY <1>4, <1>5

\* A whole batch.
LEMMA ConfirmAllFollows ==
  ASSUME SelectorTypeOK, NEW messages \in Seq(Message), NEW c \in Condition
  PROVE  /\ ConfirmAll(messages, c) \in Selectors
         /\ \A p \in Pairs : Follows(ConfirmAll(messages, c), p, messages, Len(messages))
<1> DEFINE h == ConfirmedAfter(messages, c)
           Good(n) == h[n] \in Selectors /\ \A p \in Pairs : Follows(h[n], p, messages, n)
           P == {n \in Nat : n <= Len(messages) => Good(n)}
<1>1. Len(messages) \in Nat  OBVIOUS
<1>2. /\ ConfirmAll(messages, c) = h[Len(messages)] /\ h[0] = Selector
      /\ \A n \in 1..Len(messages) : h[n] = Confirm(h[n - 1], messages[n], c)
  BY ConfirmationsUnwind
<1> HIDE DEF h
<1>3. 0 \in P
  <2>1. Selector \in Selectors  BY SelectorIsTyped
  <2>2. ASSUME NEW p \in Pairs PROVE Follows(Selector, p, messages, 0)
    <3>1. Untouched(Selector, p)  BY DEF Untouched, Selector, Open
    <3>2. \A k \in 1..0 : messages[k].key # <<p, 1>>  OBVIOUS
    <3> QED BY <3>1, <3>2 DEF Follows
  <2>3. Good(0)  BY <1>2, <2>1, <2>2
  <2> QED BY <2>3
<1>4. ASSUME NEW n \in Nat, n \in P PROVE n + 1 \in P
  <2> SUFFICES ASSUME n + 1 <= Len(messages) PROVE Good(n + 1)  OBVIOUS
  <2>1. n + 1 \in 1..Len(messages) /\ (n + 1) - 1 = n  BY <1>1
  <2>2. h[n + 1] = Confirm(h[n], messages[n + 1], c)
    <3>1. h[n + 1] = Confirm(h[(n + 1) - 1], messages[n + 1], c)  BY <1>2, <2>1
    <3> QED BY <2>1, <3>1
  <2>3. h[n] \in Selectors /\ \A p \in Pairs : Follows(h[n], p, messages, n)
    BY <1>1, <1>4
  <2>4. messages[n + 1] \in Message  BY <2>1
  <2>5. Confirm(h[n], messages[n + 1], c) \in Selectors  BY <2>3, <2>4, ConfirmChanges
  <2>6. ASSUME NEW p \in Pairs
        PROVE  Follows(Confirm(h[n], messages[n + 1], c), p, messages, n + 1)
    <3>1. Follows(h[n], p, messages, (n + 1) - 1)  BY <2>1, <2>3
    <3> QED BY <2>1, <2>3, <3>1, ConfirmFollows
  <2> QED BY <2>2, <2>5, <2>6
<1> HIDE DEF P
<1>5. Len(messages) \in P  BY <1>1, <1>3, <1>4, NatSetInduction
<1>6. Good(Len(messages))  BY <1>5 DEF P
<1> QED BY <1>2, <1>6

-----------------------------------------------------------------------------
(* The invariant of the process.                                           *)

\* A run of low readings is counted by the position it is about.
LowCounted ==
  \A p \in Pairs : quietLow[p] > 0 =>
    /\ Open(p) /\ positions[<<p, 1>>].strategy = "FUNDING_CARRY"
    /\ quietLow[p] <= positions[<<p, 1>>].negativeCycles

\* Every exit in flight buys.
ExitsBuy == \A m \in 1..Len(intents) : intents[m].exit => intents[m].buys

\* A pair has one intent in flight at most, or the answers to one; an intent
\* in flight is an exit exactly when its pair is in the book.
OneInFlight ==
  /\ PairsOnce(intents)
  /\ \A m \in 1..Len(intents) :
       /\ intents[m].exit <=> Open(intents[m].pair)
       /\ \A n \in 1..Len(events) : events[n].key[1] # intents[m].pair

\* Unless an answer is on its way, the cooldown in memory covers what has to
\* pass since the last order.
Spaced ==
  /\ \A p \in Pairs : (\A n \in 1..Len(events) : events[n].key # <<p, 1>>) =>
       cooldowns[p] + sinceTrade[p] >= Cooldown
  /\ \A m \in 1..Len(intents) :
       ~intents[m].exit => sinceTrade[intents[m].pair] >= Cooldown

\* A book entry and the lots it is of: none left over without one.
Matched(lots, open) ==
  /\ lots <= 0 => lots = IF open THEN -1 ELSE 0
  /\ lots > 0 => open \/ lots >= 2

\* It is the same of equal answers.
LEMMA MatchedSame ==
  ASSUME NEW lots, NEW a \in BOOLEAN, NEW b \in BOOLEAN, a <=> b
  PROVE  Matched(lots, a) <=> Matched(lots, b)
<1>1. a = b  BY Zenon
<1> QED BY <1>1, Zenon

\* The account is ahead of the book by the answers on their way.
Booked ==
  \A p \in Pairs :
    /\ (\A n \in 1..Len(events) : events[n].key # <<p, 1>>) => Matched(account[p], Open(p))
    /\ \A n \in 1..Len(events) :
         events[n].key = <<p, 1>> => Matched(account[p], ~events[n].exit)

EInv ==
  /\ EngineTypeOK /\ LowCounted /\ LowDifferentialAsksExit /\ ExitsBuy
  /\ InTime => OneInFlight /\ Spaced
  /\ faults = {} => Booked

-----------------------------------------------------------------------------
(* The evaluation.                                                         *)

\* The constants are numbers.
LEMMA EngineNumbers ==
  /\ BasisHoldingMax \in Nat /\ Cooldown \in Nat
  /\ FundingNegativeExitCycles \in Nat \ {0} /\ MaxLots \in Nat \ {0} /\ FillPrice \in Nat
BY SelectorAssumption, EngineAssumption DEF SelectorAssumption, EngineAssumption

\* The scale of an evaluation is a percentage.
LEMMA ScaleIsNat ==
  ASSUME NEW conds \in [Pairs -> Condition], NEW hedge \in Regimes
  PROVE  ScaleUnder(conds, hedge) \in Nat
<1> DEFINE T == {0, 25, 75, 100}
           S == {ScaleOf(conds[p].regime) : p \in Pairs} \cup {ScaleOf(hedge)}
<1>1. \A r \in Regimes : ScaleOf(r) \in T
  BY DEF ScaleOf, Regimes
<1>2. \A p \in Pairs : conds[p].regime \in Regimes
  BY DEF Condition
<1>3. S \subseteq T /\ S # {}
  BY <1>1, <1>2
<1>4. \E x \in S : \A y \in S : x <= y
  <2> HIDE DEF S
  <2>1. \A y \in S : y = 0 \/ y = 25 \/ y = 75 \/ y = 100  BY <1>3
  <2>2. 0 \in S => \A y \in S : 0 <= y  BY <2>1
  <2>3. 0 \notin S /\ 25 \in S => \A y \in S : 25 <= y  BY <2>1
  <2>4. 0 \notin S /\ 25 \notin S /\ 75 \in S => \A y \in S : 75 <= y  BY <2>1
  <2>5. 0 \notin S /\ 25 \notin S /\ 75 \notin S => \A y \in S : 100 <= y  BY <2>1
  <2>6. 0 \in S \/ 25 \in S \/ 75 \in S \/ 100 \in S
    <3>1. PICK y \in S : TRUE  BY <1>3
    <3> QED BY <2>1, <3>1
  <2> QED BY <2>2, <2>3, <2>4, <2>5, <2>6
<1>5. Min(S) \in S
  <2> HIDE DEF S
  <2> QED BY <1>4 DEF Min
<1>6. ScaleUnder(conds, hedge) = Min(S)  BY DEF ScaleUnder
<1> HIDE DEF S
<1>7. T \subseteq Nat  OBVIOUS
<1> HIDE DEF T
<1> QED BY <1>3, <1>5, <1>6, <1>7

\* The exits of an evaluation, as they are published.
ExitsPublished(q, exits) ==
  /\ q \in Seq(Intent) /\ PairsOnce(q)
  /\ \A i \in 1..Len(q) :
       q[i].pair \in exits /\ q[i].exit = TRUE /\ q[i].buys = TRUE

\* One exit for every pair that is to be exited.
LEMMA ExitsArePublished ==
  ASSUME SelectorTypeOK, NEW conds, NEW s \in SetToSeqs(ExitsOf(conds))
  PROVE  ExitsPublished([n \in DOMAIN s |-> ExitIntent(s[n])], ExitsOf(conds))
<1> DEFINE exits == ExitsOf(conds)
           D == 1..Cardinality(exits)
           q == [n \in DOMAIN s |-> ExitIntent(s[n])]
<1>1. exits \subseteq Pairs /\ \A p \in exits : <<p, 1>> \in DOMAIN positions
  BY DEF ExitsOf
<1>2. Cardinality(exits) \in Nat
  BY <1>1, PairsAreDistinct, FS_Subset, FS_CardinalityType
<1>3. s \in [D -> exits] /\ \A i, j \in D : i # j => s[i] # s[j]
  BY DEF SetToSeqs
<1> HIDE DEF exits
<1>4. DOMAIN q = D /\ \A n \in D : q[n] = ExitIntent(s[n]) /\ s[n] \in exits
  BY <1>3
<1>5. ASSUME NEW p \in exits
      PROVE  ExitIntent(p) \in Intent /\ ExitIntent(p).pair = p
             /\ ExitIntent(p).exit = TRUE /\ ExitIntent(p).buys = TRUE
  <2>1. p \in Pairs /\ positions[<<p, 1>>].strategy \in Strategies
    BY <1>1 DEF SelectorTypeOK, Position
  <2> DEFINE g == positions[<<p, 1>>].strategy
  <2>2. ExitIntent(p) = [pair |-> p, strategy |-> g, exit |-> TRUE, buys |-> TRUE]
    BY DEF ExitIntent
  <2>3. g \in Strategies /\ TRUE \in BOOLEAN  BY <2>1
  <2> HIDE DEF g
  <2>4. ExitIntent(p) \in Intent  BY <2>1, <2>2, <2>3, IntentIs, Zenon
  <2> QED BY <2>2, <2>4
<1>6. q \in Seq(Intent) /\ Len(q) = Cardinality(exits)
  <2>1. q \in [D -> Intent]  BY <1>4, <1>5
  <2> HIDE DEF q
  <2> QED BY <1>2, <2>1
<1>7. \A i \in D : q[i].pair = s[i] /\ q[i].pair \in exits /\ q[i].exit = TRUE /\ q[i].buys = TRUE
  BY <1>4, <1>5
<1> HIDE DEF q
<1>8. PairsOnce(q)
  BY <1>3, <1>6, <1>7 DEF PairsOnce
<1>9. ExitsPublished(q, exits)
  BY <1>6, <1>7, <1>8 DEF ExitsPublished
<1> QED BY <1>9 DEF q, exits

\* What an evaluation publishes when nothing else is in flight.
Published(q) ==
  /\ q \in Seq(Intent) /\ PairsOnce(q)
  /\ \A i \in 1..Len(q) :
       /\ q[i].exit => q[i].buys
       /\ q[i].exit <=> Open(q[i].pair)
       /\ ~q[i].exit => cooldowns[q[i].pair] = 0

\* The exits with the entries behind them.
LEMMA BothArePublished ==
  ASSUME SelectorTypeOK, NEW x, NEW exits, ExitsPublished(x, exits), NEW e \in Seq(Intent),
         \A p \in exits : Open(p), PairsOnce(e),
         \A i \in 1..Len(e) : e[i].pair \in Pairs /\ e[i].exit = FALSE
                              /\ ~Open(e[i].pair) /\ cooldowns[e[i].pair] = 0
  PROVE  Published(x \o e)
<1> DEFINE q == x \o e
<1>1. x \in Seq(Intent) /\ PairsOnce(x)
      /\ \A i \in 1..Len(x) : Open(x[i].pair) /\ x[i].exit = TRUE /\ x[i].buys = TRUE
  BY DEF ExitsPublished
<1>2. /\ q \in Seq(Intent) /\ Len(q) = Len(x) + Len(e) /\ Len(x) \in Nat /\ Len(e) \in Nat
      /\ \A i \in 1..Len(q) : q[i] = IF i <= Len(x) THEN x[i] ELSE e[i - Len(x)]
  BY <1>1, ConcatProperties
<1>3. \A i \in 1..Len(q) : \/ i \in 1..Len(x) /\ q[i] = x[i]
                           \/ i - Len(x) \in 1..Len(e) /\ q[i] = e[i - Len(x)]
  BY <1>2
<1> HIDE DEF q
<1>4. PairsOnce(q)
  <2> SUFFICES ASSUME NEW i \in 1..Len(q), NEW j \in 1..Len(q), q[i].pair = q[j].pair
               PROVE  i = j
    BY DEF PairsOnce
  <2>1. CASE i \in 1..Len(x) /\ q[i] = x[i] /\ j \in 1..Len(x) /\ q[j] = x[j]
    BY <1>1, <2>1 DEF PairsOnce
  <2>2. CASE i - Len(x) \in 1..Len(e) /\ q[i] = e[i - Len(x)]
             /\ j - Len(x) \in 1..Len(e) /\ q[j] = e[j - Len(x)]
    <3>1. i - Len(x) = j - Len(x)  BY <2>2 DEF PairsOnce
    <3> QED BY <1>2, <3>1
  <2>3. CASE i \in 1..Len(x) /\ q[i] = x[i] /\ j - Len(x) \in 1..Len(e) /\ q[j] = e[j - Len(x)]
    BY <1>1, <2>3
  <2>4. CASE j \in 1..Len(x) /\ q[j] = x[j] /\ i - Len(x) \in 1..Len(e) /\ q[i] = e[i - Len(x)]
    BY <1>1, <2>4
  <2> QED BY <1>3, <2>1, <2>2, <2>3, <2>4
<1>5. ASSUME NEW i \in 1..Len(q)
      PROVE  /\ q[i].exit => q[i].buys
             /\ q[i].exit <=> Open(q[i].pair)
             /\ ~q[i].exit => cooldowns[q[i].pair] = 0
  <2>1. CASE i \in 1..Len(x) /\ q[i] = x[i]
    BY <1>1, <2>1
  <2>2. CASE i - Len(x) \in 1..Len(e) /\ q[i] = e[i - Len(x)]
    BY <2>2
  <2> QED BY <1>3, <2>1, <2>2
<1>6. Published(q)  BY <1>2, <1>4, <1>5 DEF Published
<1> QED BY <1>6 DEF q

\* The count of low readings keeps its type.
LEMMA CyclesAreCounted ==
  ASSUME NEW pos \in Position, NEW c \in Condition
  PROVE  CyclesAfter(pos, c) \in 0..FundingNegativeExitCycles
<1>1. /\ FundingNegativeExitCycles \in Nat /\ pos.negativeCycles \in 0..FundingNegativeExitCycles
  BY EngineNumbers DEF Position
<1> DEFINE n == pos.negativeCycles
<1>2. CyclesAfter(pos, c) = n \/ CyclesAfter(pos, c) = Lowest(n + 1, FundingNegativeExitCycles)
      \/ CyclesAfter(pos, c) = 0
  BY DEF CyclesAfter
<1> HIDE DEF n
<1>3. n \in 0..FundingNegativeExitCycles  BY <1>1 DEF n
<1>4. Lowest(n + 1, FundingNegativeExitCycles) \in 0..FundingNegativeExitCycles
  BY <1>1, <1>3 DEF Lowest
<1> QED BY <1>1, <1>2, <1>3, <1>4

\* Counting them changes nothing else of the book.
LEMMA CountKeepsBook ==
  ASSUME SelectorTypeOK, NEW conds \in [Pairs -> Condition], CountCycles(conds)
  PROVE  /\ DOMAIN positions' = DOMAIN positions
         /\ positions' \in [DOMAIN positions -> Position]
         /\ \A p \in Pairs : Open(p) =>
              /\ positions'[<<p, 1>>].strategy = positions[<<p, 1>>].strategy
              /\ positions'[<<p, 1>>].negativeCycles = CyclesAfter(positions[<<p, 1>>], conds[p])
<1>1. /\ DOMAIN positions \subseteq Keys /\ positions \in [DOMAIN positions -> Position]
  BY DEF SelectorTypeOK
<1>2. DOMAIN positions' = DOMAIN positions
  BY DEF CountCycles
<1>3. ASSUME NEW k \in DOMAIN positions
      PROVE  /\ positions'[k] \in Position
             /\ k[2] = 1 => /\ positions'[k].strategy = positions[k].strategy
                            /\ positions'[k].negativeCycles = CyclesAfter(positions[k], conds[k[1]])
  <2>1. k[1] \in Pairs /\ positions[k] \in Position  BY <1>1, KeyIsPair
  <2>2. conds[k[1]] \in Condition  BY <2>1
  <2>3. CyclesAfter(positions[k], conds[k[1]]) \in 0..FundingNegativeExitCycles
    BY <2>1, <2>2, CyclesAreCounted
  <2>4. positions'[k] = IF k[2] = 1
                        THEN [positions[k] EXCEPT !.negativeCycles =
                                CyclesAfter(positions[k], conds[k[1]])]
                        ELSE positions[k]
    BY DEF CountCycles
  <2> DEFINE n == CyclesAfter(positions[k], conds[k[1]])  pos == positions[k]
  <2>5. pos \in Position /\ n \in 0..FundingNegativeExitCycles  BY <2>1, <2>3
  <2>6. positions'[k] = IF k[2] = 1 THEN [pos EXCEPT !.negativeCycles = n] ELSE pos
    BY <2>4
  <2> HIDE DEF n, pos
  <2>7. [pos EXCEPT !.negativeCycles = n] \in Position
        /\ [pos EXCEPT !.negativeCycles = n].strategy = pos.strategy
        /\ [pos EXCEPT !.negativeCycles = n].negativeCycles = n
    BY <2>5 DEF Position
  <2> QED BY <2>5, <2>6, <2>7 DEF n, pos
<1>4. positions' \in [DOMAIN positions -> Position]
  <2>1. positions' = [k \in DOMAIN positions |-> positions'[k]]  BY DEF CountCycles
  <2> QED BY <1>3, <2>1
<1>5. ASSUME NEW p \in Pairs, Open(p)
      PROVE  /\ positions'[<<p, 1>>].strategy = positions[<<p, 1>>].strategy
             /\ positions'[<<p, 1>>].negativeCycles = CyclesAfter(positions[<<p, 1>>], conds[p])
  <2>1. <<p, 1>> \in DOMAIN positions /\ <<p, 1>>[1] = p /\ <<p, 1>>[2] = 1
    BY <1>5 DEF Open
  <2> QED BY <1>3, <2>1
<1> QED BY <1>2, <1>4, <1>5

\* A low reading that does not ask for an exit is counted, and is not the last.
LEMMA LowReadingCounted ==
  ASSUME NEW pos \in Position, NEW c \in Condition, pos.strategy = "FUNDING_CARRY",
         LowDifferential(c), ~ShouldExit(pos, c)
  PROVE  /\ CyclesAfter(pos, c) = pos.negativeCycles + 1
         /\ pos.negativeCycles + 1 < FundingNegativeExitCycles
<1>1. ~Uncorrelated(c) /\ ~FundingEnds(pos, c)  BY DEF ShouldExit
<1>2. ~(c.diff < 0)  BY <1>1 DEF FundingEnds
<1>3. CyclesAfter(pos, c) = Lowest(pos.negativeCycles + 1, FundingNegativeExitCycles)
  BY <1>1, <1>2 DEF CyclesAfter
<1>4. ~(CyclesAfter(pos, c) >= FundingNegativeExitCycles)
  BY <1>1 DEF FundingEnds
<1>5. pos.negativeCycles \in Nat /\ FundingNegativeExitCycles \in Nat
  BY EngineNumbers DEF Position
<1> DEFINE n == pos.negativeCycles  y == CyclesAfter(pos, c)
<1> HIDE DEF n, y
<1>6. y = Lowest(n + 1, FundingNegativeExitCycles) /\ ~(y >= FundingNegativeExitCycles)
      /\ n \in Nat /\ FundingNegativeExitCycles \in Nat
  BY <1>3, <1>4, <1>5 DEF n, y
<1>7. y = n + 1 /\ n + 1 < FundingNegativeExitCycles
  BY <1>6 DEF Lowest
<1> QED BY <1>7 DEF n, y

\* The runs of low readings after an evaluation.
LEMMA RunsAreCounted ==
  ASSUME EngineTypeOK, LowCounted, LowDifferentialAsksExit,
         NEW conds \in [Pairs -> Condition], CountCycles(conds),
         quietLow' = [p \in Pairs |->
           IF /\ <<p, 1>> \in DOMAIN positions /\ p \notin ExitsOf(conds)
              /\ positions[<<p, 1>>].strategy = "FUNDING_CARRY"
              /\ LowDifferential(conds[p])
           THEN quietLow[p] + 1 ELSE 0]
  PROVE  /\ LowCounted' /\ LowDifferentialAsksExit'
         /\ quietLow' \in [Pairs -> 0..FundingNegativeExitCycles]
<1>1. SelectorTypeOK /\ quietLow \in [Pairs -> 0..FundingNegativeExitCycles]
      /\ FundingNegativeExitCycles \in Nat \ {0}
  BY EngineNumbers DEF EngineTypeOK
<1>2. ASSUME NEW p \in Pairs
      PROVE  /\ quietLow'[p] \in 0..FundingNegativeExitCycles
             /\ quietLow'[p] < FundingNegativeExitCycles
             /\ quietLow'[p] > 0 =>
                  /\ <<p, 1>> \in DOMAIN positions'
                  /\ positions'[<<p, 1>>].strategy = "FUNDING_CARRY"
                  /\ quietLow'[p] <= positions'[<<p, 1>>].negativeCycles
  <2> DEFINE counts == /\ <<p, 1>> \in DOMAIN positions /\ p \notin ExitsOf(conds)
                       /\ positions[<<p, 1>>].strategy = "FUNDING_CARRY"
                       /\ LowDifferential(conds[p])
             pos == positions[<<p, 1>>]
  <2>1. CASE ~counts
    <3>1. quietLow'[p] = 0  BY <2>1
    <3> QED BY <1>1, <3>1
  <2>2. CASE counts
    <3>1. Open(p) /\ pos \in Position /\ conds[p] \in Condition
      BY <1>1, <2>2 DEF Open, SelectorTypeOK
    <3>2. ~ShouldExit(pos, conds[p])  BY <2>2 DEF ExitsOf
    <3>3. /\ CyclesAfter(pos, conds[p]) = pos.negativeCycles + 1
          /\ pos.negativeCycles + 1 < FundingNegativeExitCycles
      BY <2>2, <3>1, <3>2, LowReadingCounted
    <3>4. /\ DOMAIN positions' = DOMAIN positions
          /\ positions'[<<p, 1>>].strategy = pos.strategy
          /\ positions'[<<p, 1>>].negativeCycles = CyclesAfter(pos, conds[p])
      BY <1>1, <3>1, CountKeepsBook
    <3>5. quietLow[p] <= pos.negativeCycles /\ quietLow[p] \in Nat
      <4>1. quietLow[p] \in 0..FundingNegativeExitCycles /\ pos.negativeCycles \in Nat
        BY <1>1, <3>1 DEF Position
      <4>2. quietLow[p] > 0 => quietLow[p] <= pos.negativeCycles  BY DEF LowCounted
      <4> QED BY <1>1, <4>1, <4>2
    <3>6. quietLow'[p] = quietLow[p] + 1  BY <2>2
    <3>7. pos.negativeCycles \in Nat  BY <3>1 DEF Position
    <3>8. pos.strategy = "FUNDING_CARRY" /\ <<p, 1>> \in DOMAIN positions  BY <2>2
    <3> HIDE DEF pos, counts
    <3> QED BY <1>1, <3>3, <3>4, <3>5, <3>6, <3>7, <3>8
  <2> QED BY <2>1, <2>2
<1>3. quietLow' \in [Pairs -> 0..FundingNegativeExitCycles]
  <2>1. quietLow' = [p \in Pairs |-> quietLow'[p]]  OBVIOUS
  <2> QED BY <1>2, <2>1
<1> QED BY <1>2, <1>3 DEF LowCounted, LowDifferentialAsksExit, Open

\* What an evaluation publishes follows what is in flight already.
LEMMA EvaluationPublishes ==
  ASSUME EngineTypeOK, NEW conds \in [Pairs -> Condition], NEW equity \in Nat,
         Evaluate(conds, equity)
  PROVE  \E y : Published(y) /\ intents' = intents \o y
<1>1. SelectorTypeOK /\ intents \in Seq(Intent)  BY DEF EngineTypeOK
<1> DEFINE exits == ExitsOf(conds)
           e == EntriesOf(conds, equity).intents
<1>2. PICK s \in SetToSeqs(exits) :
        intents' = intents \o [n \in DOMAIN s |-> ExitIntent(s[n])] \o e
  BY DEF Evaluate
<1> DEFINE x == [n \in DOMAIN s |-> ExitIntent(s[n])]
<1>3. ExitsPublished(x, exits)  BY <1>1, ExitsArePublished
<1>4. \A p \in exits : Open(p)  BY DEF ExitsOf, Open
<1>5. /\ e \in Seq(Intent) /\ PairsOnce(e)
      /\ \A i \in 1..Len(e) : e[i].pair \in Pairs /\ e[i].exit = FALSE
                              /\ ~Open(e[i].pair) /\ cooldowns[e[i].pair] = 0
  BY <1>1, EntriesAreNew
<1>6. intents' = intents \o x \o e  BY <1>2
<1> HIDE DEF x, e, exits
<1>7. Published(x \o e)  BY <1>1, <1>3, <1>4, <1>5, BothArePublished
<1>8. x \in Seq(Intent)  BY <1>3 DEF ExitsPublished
<1>9. (intents \o x) \o e = intents \o (x \o e)  BY <1>1, <1>5, <1>8, ConcatAssociative
<1> QED BY <1>6, <1>7, <1>9

\* An evaluation keeps the invariant.
LEMMA EvaluationTickerKeeps ==
  ASSUME EInv, EvaluationTicker
  PROVE  EInv'
<1>1. /\ EngineTypeOK /\ SelectorTypeOK /\ LowCounted /\ LowDifferentialAsksExit /\ ExitsBuy
      /\ intents \in Seq(Intent)
  BY DEF EInv, EngineTypeOK
<1>2. /\ cooldowns' = cooldowns /\ faults' = faults /\ events' = events
      /\ account' = account /\ sinceTrade' = sinceTrade /\ MayEvaluate
  BY DEF EvaluationTicker
<1>3. PICK conds \in [Pairs -> Conditions], reading \in Equities, hedge \in HedgeRegimes :
        Evaluate(conds, (reading * ScaleUnder(conds, hedge)) \div 100)
  BY DEF EvaluationTicker
<1>4. conds \in [Pairs -> Condition] /\ reading \in Nat /\ hedge \in Regimes
  BY EngineAssumption DEF EngineAssumption
<1>5. (reading * ScaleUnder(conds, hedge)) \div 100 \in Nat
  <2> DEFINE k == ScaleUnder(conds, hedge)
  <2>1. k \in Nat  BY <1>4, ScaleIsNat
  <2> HIDE DEF k
  <2>2. (reading * k) \div 100 \in Nat
    <3>1. reading * k \in Nat  BY <1>4, <2>1
    <3> QED BY <3>1
  <2> QED BY <2>2 DEF k
<1>6. PICK y : Published(y) /\ intents' = intents \o y
  BY <1>1, <1>3, <1>4, <1>5, EvaluationPublishes
<1>7. CountCycles(conds) /\ Len(intents') <= MaxInFlight
      /\ quietLow' = [p \in Pairs |->
           IF /\ <<p, 1>> \in DOMAIN positions /\ p \notin ExitsOf(conds)
              /\ positions[<<p, 1>>].strategy = "FUNDING_CARRY"
              /\ LowDifferential(conds[p])
           THEN quietLow[p] + 1 ELSE 0]
  BY <1>3 DEF Evaluate
<1>8. /\ DOMAIN positions' = DOMAIN positions
      /\ positions' \in [DOMAIN positions -> Position]
  BY <1>1, <1>4, <1>7, CountKeepsBook
<1>9. /\ LowCounted' /\ LowDifferentialAsksExit'
      /\ quietLow' \in [Pairs -> 0..FundingNegativeExitCycles]
  BY <1>1, <1>4, <1>7, RunsAreCounted
<1>10. y \in Seq(Intent) /\ intents' \in Seq(Intent)
  <2>1. y \in Seq(Intent)  BY <1>6 DEF Published
  <2> QED BY <1>1, <1>6, <2>1, ConcatProperties
<1>11. EngineTypeOK'
  BY <1>1, <1>2, <1>7, <1>8, <1>9, <1>10 DEF EngineTypeOK, SelectorTypeOK
<1>12. ExitsBuy'
  <2>1. /\ Len(intents') = Len(intents) + Len(y) /\ Len(intents) \in Nat /\ Len(y) \in Nat
        /\ \A i \in 1..Len(intents') :
             intents'[i] = IF i <= Len(intents) THEN intents[i] ELSE y[i - Len(intents)]
    BY <1>1, <1>6, <1>10, ConcatProperties
  <2>2. \A i \in 1..Len(intents') :
          \/ i \in 1..Len(intents) /\ intents'[i] = intents[i]
          \/ i - Len(intents) \in 1..Len(y) /\ intents'[i] = y[i - Len(intents)]
    BY <2>1
  <2>3. \A j \in 1..Len(y) : y[j].exit => y[j].buys  BY <1>6 DEF Published
  <2>4. \A j \in 1..Len(intents) : intents[j].exit => intents[j].buys  BY <1>1 DEF ExitsBuy
  <2>5. \A i \in 1..Len(intents') : intents'[i].exit => intents'[i].buys
    BY <2>2, <2>3, <2>4
  <2> QED BY <2>5 DEF ExitsBuy
<1>13. \A p : <<p, 1>> \in DOMAIN positions' <=> Open(p)
  BY <1>8 DEF Open
<1>14. ASSUME InTime PROVE OneInFlight' /\ Spaced'
  <2>1. Drained /\ OneInFlight /\ Spaced
    BY <1>2, <1>14 DEF EInv, MayEvaluate, InTime
  <2>2. intents = << >> /\ events = << >> /\ events' = << >>
    BY <1>2, <2>1 DEF Drained
  <2>3. intents' = y  BY <1>6, <1>10, <2>2, ConcatEmptySeq
  <2>4. /\ PairsOnce(y)
        /\ \A i \in 1..Len(y) : /\ y[i].exit <=> Open(y[i].pair)
                                /\ ~y[i].exit => cooldowns[y[i].pair] = 0
    BY <1>6 DEF Published
  <2>5. Len(events') = 0 /\ Len(events) = 0  BY <2>2
  <2>6. OneInFlight'
    <3>1. PairsOnce(intents)'  BY <2>3, <2>4 DEF PairsOnce
    <3>2. ASSUME NEW m \in 1..Len(intents')
          PROVE  /\ intents'[m].exit <=> <<intents'[m].pair, 1>> \in DOMAIN positions'
                 /\ \A n \in 1..Len(events') : events'[n].key[1] # intents'[m].pair
      BY <1>13, <2>3, <2>4, <2>5, <3>2
    <3> QED BY <3>1, <3>2 DEF OneInFlight, Open
  <2>7. \A p \in Pairs : cooldowns[p] + sinceTrade[p] >= Cooldown
    BY <2>1, <2>5 DEF Spaced
  <2>8. ASSUME NEW m \in 1..Len(y), ~y[m].exit
        PROVE  sinceTrade[y[m].pair] >= Cooldown
    <3>0. y[m] \in Intent  BY <1>10, <2>8
    <3>1. y[m].pair \in Pairs  BY <3>0 DEF Intent
    <3>2. cooldowns[y[m].pair] = 0  BY <2>4, <2>8
    <3>3. sinceTrade[y[m].pair] \in Int  BY <1>1, <3>1, EngineNumbers DEF EngineTypeOK
    <3>4. cooldowns[y[m].pair] + sinceTrade[y[m].pair] >= Cooldown  BY <2>7, <3>1
    <3> QED BY <3>2, <3>3, <3>4, EngineNumbers
  <2>9. Spaced'
    BY <1>2, <2>3, <2>7, <2>8 DEF Spaced
  <2> QED BY <2>6, <2>9
<1>15. ASSUME faults = {} PROVE Booked'
  <2>1. Booked  BY <1>15 DEF EInv
  <2>2. ASSUME NEW p \in Pairs
        PROVE  Matched(account[p], Open(p))
                 => Matched(account'[p], <<p, 1>> \in DOMAIN positions')
    <3> DEFINE a == Open(p)  b == <<p, 1>> \in DOMAIN positions'
    <3>0. a \in BOOLEAN /\ b \in BOOLEAN  BY DEF Open
    <3>1. a <=> b  BY <1>13
    <3>2. account'[p] = account[p]  BY <1>2
    <3> HIDE DEF a, b
    <3>3. Matched(account[p], a) => Matched(account[p], b)  BY <3>0, <3>1, MatchedSame, Zenon
    <3>4. Matched(account[p], a) => Matched(account'[p], b)  BY <3>2, <3>3, Zenon
    <3> QED BY <3>4 DEF a, b
  <2>3. ASSUME NEW p \in Pairs
        PROVE  /\ (\A n \in 1..Len(events') : events'[n].key # <<p, 1>>) =>
                    Matched(account'[p], <<p, 1>> \in DOMAIN positions')
               /\ \A n \in 1..Len(events') :
                    events'[n].key = <<p, 1>> => Matched(account'[p], ~events'[n].exit)
    <3>1. /\ (\A n \in 1..Len(events) : events[n].key # <<p, 1>>) => Matched(account[p], Open(p))
          /\ \A n \in 1..Len(events) :
               events[n].key = <<p, 1>> => Matched(account[p], ~events[n].exit)
      BY <2>1 DEF Booked
    <3>2. events' = events /\ account' = account  BY <1>2
    <3> QED BY <2>2, <3>1, <3>2, Zenon
  <2> QED BY <2>3 DEF Booked, Open
<1>16. InTime' <=> InTime  BY <1>2 DEF InTime
<1> QED BY <1>2, <1>9, <1>11, <1>12, <1>14, <1>15, <1>16 DEF EInv

-----------------------------------------------------------------------------
(* The pipeline.                                                           *)

\* The messages a handled intent gives are about its pair.
MessagesOf(messages, i) ==
  /\ messages \in Seq(Message)
  /\ \A n \in 1..Len(messages) :
       messages[n].key[1] = i.pair /\ (messages[n].exit <=> i.exit)
  /\ messages # << >> => \E n \in 1..Len(messages) : messages[n].key = <<i.pair, 1>>

\* A message is one of its four fields.
LEMMA MessageIs ==
  ASSUME NEW k \in Keys, NEW g \in Strategies, NEW x \in BOOLEAN, NEW c \in Nat
  PROVE  [key |-> k, strategy |-> g, exit |-> x, price |-> c] \in Message
BY Zenon DEF Message

\* The message of a leg is about the leg.
LEMMA LegIsMessage ==
  ASSUME NEW i \in Intent, NEW l \in {1, 2}
  PROVE  LegMessage(i, l) \in Message /\ LegMessage(i, l).key = <<i.pair, l>>
         /\ LegMessage(i, l).key[1] = i.pair /\ LegMessage(i, l).exit = i.exit
<1>1. i.pair \in Pairs /\ i.strategy \in Strategies /\ i.exit \in BOOLEAN  BY DEF Intent
<1> DEFINE p == i.pair  g == i.strategy  x == i.exit
<1>2. LegMessage(i, l) = [key |-> <<p, l>>, strategy |-> g, exit |-> x, price |-> 0]
  BY DEF LegMessage
<1>3. p \in Pairs /\ g \in Strategies /\ x \in BOOLEAN /\ 0 \in Nat  BY <1>1
<1> HIDE DEF p, g, x
<1>4. <<p, l>> \in Keys  BY <1>3 DEF Keys
<1>5. LegMessage(i, l) \in Message  BY <1>2, <1>3, <1>4, MessageIs, Zenon
<1> QED BY <1>2, <1>5 DEF p, x

\* The summary of an execution is about the pair.
LEMMA SummaryIsMessage ==
  ASSUME NEW i \in Intent, NEW price \in Nat
  PROVE  Summary(i, price) \in Message /\ Summary(i, price).key = <<i.pair, 1>>
         /\ Summary(i, price).key[1] = i.pair /\ Summary(i, price).exit = i.exit
<1>1. i.pair \in Pairs /\ i.strategy \in Strategies /\ i.exit \in BOOLEAN  BY DEF Intent
<1> DEFINE p == i.pair  g == i.strategy  x == i.exit
<1>2. Summary(i, price) = [key |-> <<p, 1>>, strategy |-> g, exit |-> x, price |-> price]
  BY DEF Summary
<1>3. p \in Pairs /\ g \in Strategies /\ x \in BOOLEAN  BY <1>1
<1> HIDE DEF p, g, x
<1>4. <<p, 1>> \in Keys  BY <1>3 DEF Keys
<1>5. Summary(i, price) \in Message  BY <1>2, <1>3, <1>4, MessageIs, Zenon
<1> QED BY <1>2, <1>5 DEF p, x

\* A handled intent keeps the invariant.
LEMMA HandleKeeps ==
  ASSUME EInv, NEW messages, Handle(messages), MessagesOf(messages, Head(intents)),
         account' \in [Pairs -> -(MaxLots + 1)..(MaxLots + 1)],
         \A p \in Pairs : p # Head(intents).pair => account'[p] = account[p],
         faults = {} => /\ messages # << >>
                        /\ Matched(account'[Head(intents).pair], ~Head(intents).exit)
  PROVE  EInv'
<1> DEFINE i == Head(intents)
<1>1. /\ EngineTypeOK /\ LowCounted /\ LowDifferentialAsksExit /\ ExitsBuy
      /\ intents \in Seq(Intent) /\ events \in Seq(Message) /\ messages \in Seq(Message)
      /\ sinceTrade \in [Pairs -> 0..Cooldown] /\ Cooldown \in Nat
  BY EngineNumbers DEF EInv, EngineTypeOK, MessagesOf
<1>2. /\ intents # << >> /\ intents' = Tail(intents) /\ events' = events \o messages
      /\ Len(events') <= MaxEvents
      /\ sinceTrade' = [sinceTrade EXCEPT ![i.pair] =
                          IF messages = << >> \/ ~InTime THEN @ ELSE 0]
      /\ positions' = positions /\ cooldowns' = cooldowns /\ faults' = faults
      /\ quietLow' = quietLow
  BY DEF Handle
<1>3. /\ i \in Intent /\ i = intents[1] /\ 1 \in 1..Len(intents)
      /\ intents' \in Seq(Intent) /\ Len(intents') + 1 = Len(intents)
      /\ \A m \in 1..Len(intents') :
           intents'[m] = intents[m + 1] /\ m + 1 \in 1..Len(intents) /\ m + 1 # 1
  BY <1>1, <1>2, TailShifts
<1>4. i.pair \in Pairs  BY <1>3 DEF Intent
<1>5. /\ \A n \in 1..Len(messages) : messages[n].key[1] = i.pair /\ (messages[n].exit <=> i.exit)
      /\ messages # << >> => \E n \in 1..Len(messages) : messages[n].key = <<i.pair, 1>>
  BY DEF MessagesOf
<1>6. /\ \A p \in Pairs : p # i.pair => account'[p] = account[p]
      /\ faults = {} => messages # << >> /\ Matched(account'[i.pair], ~i.exit)
      /\ account' \in [Pairs -> -(MaxLots + 1)..(MaxLots + 1)]
  OBVIOUS
<1> HIDE DEF i
<1>7. /\ events' \in Seq(Message) /\ Len(events') = Len(events) + Len(messages)
      /\ Len(events) \in Nat /\ Len(messages) \in Nat
      /\ \A n \in 1..Len(events) : n \in 1..Len(events') /\ events'[n] = events[n]
      /\ \A n \in 1..Len(messages) :
           Len(events) + n \in 1..Len(events') /\ events'[Len(events) + n] = messages[n]
      /\ \A n \in 1..Len(events') : \/ n \in 1..Len(events) /\ events'[n] = events[n]
                                    \/ \E k \in 1..Len(messages) : events'[n] = messages[k]
  <2>1. /\ events' \in Seq(Message) /\ Len(events') = Len(events) + Len(messages)
        /\ \A n \in 1..(Len(events) + Len(messages)) :
             events'[n] = IF n <= Len(events) THEN events[n] ELSE messages[n - Len(events)]
    BY <1>1, <1>2, ConcatProperties
  <2>2. Len(events) \in Nat /\ Len(messages) \in Nat  BY <1>1
  <2>3. ASSUME NEW n \in 1..Len(events'), n \notin 1..Len(events)
        PROVE  n - Len(events) \in 1..Len(messages) /\ events'[n] = messages[n - Len(events)]
    BY <2>1, <2>2, <2>3
  <2>4. ASSUME NEW n \in 1..Len(messages)
        PROVE  Len(events) + n \in 1..Len(events') /\ events'[Len(events) + n] = messages[n]
    BY <2>1, <2>2, <2>4
  <2> QED BY <2>1, <2>2, <2>3, <2>4
<1>8. /\ sinceTrade' \in [Pairs -> 0..Cooldown]
      /\ \A p \in Pairs : p # i.pair \/ messages = << >> => sinceTrade'[p] = sinceTrade[p]
  <2> DEFINE c == IF messages = << >> \/ ~InTime THEN sinceTrade[i.pair] ELSE 0
  <2>1. sinceTrade' = [sinceTrade EXCEPT ![i.pair] = c]  BY <1>2
  <2>2. messages = << >> => c = sinceTrade[i.pair]  OBVIOUS
  <2>3. c = 0 \/ c = sinceTrade[i.pair]  OBVIOUS
  <2> HIDE DEF c
  <2>4. sinceTrade \in [Pairs -> 0..Cooldown] /\ Cooldown \in Nat /\ i.pair \in Pairs
    BY <1>1, <1>4
  <2> QED BY <2>1, <2>2, <2>3, <2>4
<1>9. EngineTypeOK'
  <2>1. Len(intents') <= MaxInFlight
    <3>1. Len(intents) <= MaxInFlight /\ Len(intents') \in Nat /\ MaxInFlight \in Nat
      BY <1>1, <1>3, EngineAssumption DEF EngineTypeOK, EngineAssumption
    <3> QED BY <1>3, <3>1
  <2> QED BY <1>1, <1>2, <1>3, <1>6, <1>7, <1>8, <2>1 DEF EngineTypeOK, SelectorTypeOK
<1>10. LowCounted' /\ LowDifferentialAsksExit'
  BY <1>1, <1>2 DEF LowCounted, LowDifferentialAsksExit, Open
<1>11. ExitsBuy'
  BY <1>1, <1>3 DEF ExitsBuy
<1>12. ASSUME InTime PROVE OneInFlight' /\ Spaced'
  <2>1. OneInFlight /\ Spaced  BY <1>12 DEF EInv
  <2>2. \A m \in 1..Len(intents') : intents'[m].pair # i.pair
    BY <1>3, <2>1 DEF OneInFlight, PairsOnce
  <2>3. OneInFlight'
    <3>1. ASSUME NEW m \in 1..Len(intents'), NEW k \in 1..Len(intents'),
                 intents'[m].pair = intents'[k].pair
          PROVE  m = k
      <4>1. m + 1 = k + 1  BY <1>3, <2>1, <3>1 DEF OneInFlight, PairsOnce
      <4> QED BY <4>1
    <3>2. ASSUME NEW m \in 1..Len(intents'), NEW n \in 1..Len(events')
          PROVE  events'[n].key[1] # intents'[m].pair
      <4>1. \A k \in 1..Len(events) : events[k].key[1] # intents'[m].pair
        BY <1>3, <2>1 DEF OneInFlight
      <4>2. \A k \in 1..Len(messages) : messages[k].key[1] # intents'[m].pair
        BY <1>5, <2>2
      <4>3. \/ n \in 1..Len(events) /\ events'[n] = events[n]
            \/ \E k \in 1..Len(messages) : events'[n] = messages[k]
        BY <1>7, Zenon
      <4> QED BY <4>1, <4>2, <4>3, Zenon
    <3>3. ASSUME NEW m \in 1..Len(intents')
          PROVE  intents'[m].exit <=> <<intents'[m].pair, 1>> \in DOMAIN positions'
      <4>1. intents'[m] = intents[m + 1] /\ m + 1 \in 1..Len(intents)  BY <1>3
      <4>2. intents[m + 1].exit <=> Open(intents[m + 1].pair)  BY <2>1, <4>1 DEF OneInFlight
      <4>3. positions' = positions  BY <1>2
      <4> QED BY <4>1, <4>2, <4>3 DEF Open
    <3> QED BY <3>1, <3>2, <3>3 DEF OneInFlight, PairsOnce, Open
  <2>4. ASSUME NEW p \in Pairs, \A n \in 1..Len(events') : events'[n].key # <<p, 1>>
        PROVE  cooldowns'[p] + sinceTrade'[p] >= Cooldown
    <3>1. \A n \in 1..Len(events) : events[n].key # <<p, 1>>
      BY <1>7, <2>4
    <3>2. p = i.pair => messages = << >>
      <4>1. \A n \in 1..Len(messages) :
              Len(events) + n \in 1..Len(events') /\ events'[Len(events) + n] = messages[n]
        BY <1>7, Zenon
      <4> QED BY <1>5, <2>4, <4>1, Zenon
    <3>3. sinceTrade'[p] = sinceTrade[p]
      BY <1>8, <3>2
    <3>4. cooldowns[p] + sinceTrade[p] >= Cooldown  BY <2>1, <3>1 DEF Spaced
    <3> QED BY <1>2, <3>3, <3>4
  <2>5. ASSUME NEW m \in 1..Len(intents'), ~intents'[m].exit
        PROVE  sinceTrade'[intents'[m].pair] >= Cooldown
    <3>1. intents'[m] \in Intent  BY <1>3
    <3>2. intents'[m].pair \in Pairs  BY <3>1 DEF Intent
    <3>3. sinceTrade[intents'[m].pair] >= Cooldown  BY <1>3, <2>1, <2>5 DEF Spaced
    <3> QED BY <1>8, <2>2, <3>2, <3>3
  <2>6. Spaced'  BY <2>4, <2>5 DEF Spaced
  <2> QED BY <2>3, <2>6
<1>13. ASSUME faults = {} PROVE Booked'
  <2>1. Booked /\ OneInFlight  BY <1>13 DEF EInv, InTime
  <2> SUFFICES ASSUME NEW p \in Pairs
               PROVE  /\ (\A n \in 1..Len(events') : events'[n].key # <<p, 1>>) =>
                           Matched(account'[p], Open(p))
                      /\ \A n \in 1..Len(events') :
                           events'[n].key = <<p, 1>> => Matched(account'[p], ~events'[n].exit)
    BY <1>2 DEF Booked, Open
  <2>2. /\ (\A n \in 1..Len(events) : events[n].key # <<p, 1>>) => Matched(account[p], Open(p))
        /\ \A n \in 1..Len(events) :
             events[n].key = <<p, 1>> => Matched(account[p], ~events[n].exit)
    BY <2>1 DEF Booked
  <2>3. <<p, 1>>[1] = p  OBVIOUS
  <2>4. CASE p # i.pair
    <3>1. \A k \in 1..Len(messages) : messages[k].key # <<p, 1>>  BY <1>5, <2>3, <2>4
    <3>2. account'[p] = account[p]  BY <1>6, <2>4
    <3>3. (\A n \in 1..Len(events') : events'[n].key # <<p, 1>>)
            => \A n \in 1..Len(events) : events[n].key # <<p, 1>>
      BY <1>7
    <3>4. ASSUME NEW n \in 1..Len(events'), events'[n].key = <<p, 1>>
          PROVE  n \in 1..Len(events) /\ events'[n] = events[n]
      <4>1. \/ n \in 1..Len(events) /\ events'[n] = events[n]
            \/ \E k \in 1..Len(messages) : events'[n] = messages[k]
        BY <1>7, Zenon
      <4> QED BY <3>1, <3>4, <4>1, Zenon
    <3>5. ASSUME NEW n \in 1..Len(events'), events'[n].key = <<p, 1>>
          PROVE  Matched(account'[p], ~events'[n].exit)
      <4>1. n \in 1..Len(events) /\ events'[n] = events[n]  BY <3>4, <3>5
      <4>2. Matched(account[p], ~events[n].exit)  BY <2>2, <3>5, <4>1, Zenon
      <4> QED BY <3>2, <4>1, <4>2, Zenon
    <3>6. (\A n \in 1..Len(events') : events'[n].key # <<p, 1>>) => Matched(account'[p], Open(p))
      BY <2>2, <3>2, <3>3, Zenon
    <3> QED BY <3>5, <3>6, Zenon
  <2>5. CASE p = i.pair
    <3>1. messages # << >> /\ Matched(account'[p], ~i.exit)  BY <1>6, <1>13, <2>5
    <3>2. PICK k \in 1..Len(messages) : messages[k].key = <<p, 1>>  BY <1>5, <2>5, <3>1
    <3>3. \E n \in 1..Len(events') : events'[n].key = <<p, 1>>  BY <1>7, <3>2
    <3>4. \A n \in 1..Len(events) : events[n].key # <<p, 1>>
      BY <1>3, <2>1, <2>3, <2>5 DEF OneInFlight
    <3>5. ASSUME NEW n \in 1..Len(events'), events'[n].key = <<p, 1>>
          PROVE  Matched(account'[p], ~events'[n].exit)
      <4>1. PICK j \in 1..Len(messages) : events'[n] = messages[j]
        BY <1>7, <3>4, <3>5
      <4>2. messages[j].exit <=> i.exit  BY <1>5
      <4>3. messages[j] \in Message  BY <1>1
      <4>4. messages[j].exit \in BOOLEAN /\ i.exit \in BOOLEAN
        BY <1>3, <4>3 DEF Message, Intent
      <4>5. messages[j].exit = i.exit  BY <4>2, <4>4, Zenon
      <4> QED BY <3>1, <4>1, <4>5, Zenon
    <3> QED BY <3>3, <3>5
  <2> QED BY <2>4, <2>5
<1>14. InTime' <=> InTime  BY <1>2 DEF InTime
<1> QED BY <1>2, <1>9, <1>10, <1>11, <1>12, <1>13, <1>14 DEF EInv

\* The three messages of an execution of both legs are about its pair.
LEMMA ThreeMessages ==
  ASSUME NEW i \in Intent, NEW price \in Nat
  PROVE  /\ MessagesOf(<<LegMessage(i, 1), LegMessage(i, 2), Summary(i, price)>>, i)
         /\ MessagesOf(<<LegMessage(i, 1), Summary(i, price)>>, i)
         /\ MessagesOf(<<LegMessage(i, 1)>>, i)
         /\ MessagesOf(<< >>, i)
<1> DEFINE a == LegMessage(i, 1)  b == LegMessage(i, 2)  c == Summary(i, price)
           G(m) == m \in Message /\ m.key[1] = i.pair /\ (m.exit <=> i.exit)
<1>1. G(a) /\ G(b) /\ G(c) /\ a.key = <<i.pair, 1>>
  BY LegIsMessage, SummaryIsMessage
<1> HIDE DEF a, b, c
<1>2. MessagesOf(<<a, b, c>>, i)
  <2>1. <<a, b, c>> \in Seq(Message)  BY <1>1
  <2>2. \A n \in 1..Len(<<a, b, c>>) : <<a, b, c>>[n] \in {a, b, c}  OBVIOUS
  <2>3. 1 \in 1..Len(<<a, b, c>>) /\ <<a, b, c>>[1] = a  OBVIOUS
  <2>4. \A m \in {a, b, c} : G(m)  BY <1>1, Zenon
  <2> DEFINE q == <<a, b, c>>
  <2> HIDE DEF q
  <2> QED BY <1>1, <2>1, <2>2, <2>3, <2>4, Zenon DEF MessagesOf, q
<1>3. MessagesOf(<<a, c>>, i)
  <2>1. <<a, c>> \in Seq(Message)  BY <1>1
  <2>2. \A n \in 1..Len(<<a, c>>) : <<a, c>>[n] \in {a, c}  OBVIOUS
  <2>3. 1 \in 1..Len(<<a, c>>) /\ <<a, c>>[1] = a  OBVIOUS
  <2>4. \A m \in {a, c} : G(m)  BY <1>1, Zenon
  <2> QED BY <1>1, <2>1, <2>2, <2>3, <2>4, Zenon DEF MessagesOf
<1>4. MessagesOf(<<a>>, i)
  <2>1. <<a>> \in Seq(Message)  BY <1>1
  <2>2. \A n \in 1..Len(<<a>>) : <<a>>[n] = a  OBVIOUS
  <2>3. 1 \in 1..Len(<<a>>) /\ <<a>>[1] = a  OBVIOUS
  <2> QED BY <1>1, <2>1, <2>2, <2>3, Zenon DEF MessagesOf
<1>5. MessagesOf(<< >>, i)
  <2>1. << >> \in Seq(Message) /\ \A n \in 1..Len(<< >>) : FALSE  OBVIOUS
  <2> QED BY <2>1, Zenon DEF MessagesOf
<1> QED BY <1>2, <1>3, <1>4, <1>5 DEF a, b, c

\* The account stays within the bound of its type.
LEMMA AccountIsTyped ==
  ASSUME NEW lots \in -(MaxLots + 1)..(MaxLots + 1), NEW buys \in BOOLEAN
  PROVE  AccountAfter(lots, buys) \in -(MaxLots + 1)..(MaxLots + 1)
<1>1. MaxLots \in Nat  BY EngineNumbers
<1>2. AccountAfter(lots, buys) = lots \/ (Abs(lots) <= MaxLots
        /\ (AccountAfter(lots, buys) = lots + 1 \/ AccountAfter(lots, buys) = lots - 1))
  <2> DEFINE b == Abs(lots) > MaxLots \/ faults # {}
  <2>1. CASE b
    BY <2>1 DEF AccountAfter
  <2>2. CASE ~b
    <3>1. AccountAfter(lots, buys) = IF buys THEN lots + 1 ELSE lots - 1
      BY <2>2 DEF AccountAfter
    <3>2. Abs(lots) <= MaxLots  BY <1>1, <2>2 DEF Abs
    <3> QED BY <3>1, <3>2
  <2> QED BY <2>1, <2>2
<1> DEFINE y == AccountAfter(lots, buys)
<1> HIDE DEF y
<1>3. y = lots \/ (Abs(lots) <= MaxLots /\ (y = lots + 1 \/ y = lots - 1))
  BY <1>2 DEF y
<1>4. y \in -(MaxLots + 1)..(MaxLots + 1)  BY <1>1, <1>3 DEF Abs
<1> QED BY <1>4 DEF y

\* An entry that is executed whole of a pair without a position leaves what an
\* entry in the book stands for, and an exit nothing.
LEMMA AccountFollows ==
  ASSUME faults = {}, NEW lots \in Int, NEW out \in BOOLEAN, NEW buys \in BOOLEAN,
         out => buys, Matched(lots, out)
  PROVE  Matched(AccountAfter(lots, buys), ~out)
<1>1. MaxLots \in Nat \ {0}  BY EngineNumbers
<1>2. AccountAfter(lots, buys) = IF Abs(lots) > MaxLots THEN lots
                                 ELSE IF buys THEN lots + 1 ELSE lots - 1
  BY DEF AccountAfter
<1>3. CASE out
  <2>1. (lots <= 0 => lots = -1) /\ AccountAfter(lots, buys)
          = IF Abs(lots) > MaxLots THEN lots ELSE lots + 1
    BY <1>2, <1>3 DEF Matched
  <2> DEFINE y == AccountAfter(lots, buys)
  <2> HIDE DEF y
  <2>2. (lots <= 0 => lots = -1) /\ y = IF Abs(lots) > MaxLots THEN lots ELSE lots + 1
    BY <2>1 DEF y
  <2>3. (y <= 0 => y = 0) /\ (y > 0 => y >= 2)
    BY <1>1, <2>2 DEF Abs
  <2>4. Matched(y, FALSE)  BY <2>3 DEF Matched
  <2>5. FALSE <=> ~out  BY <1>3
  <2>6. Matched(y, ~out)  BY <2>4, <2>5, MatchedSame, Zenon
  <2> QED BY <2>6 DEF y
<1>4. CASE ~out
  <2>1. (lots <= 0 => lots = 0) /\ (lots > 0 => lots >= 2)
    BY <1>4 DEF Matched
  <2> DEFINE y == AccountAfter(lots, buys)
  <2>2. (y = lots /\ Abs(lots) > MaxLots) \/ y = lots + 1 \/ y = lots - 1
    BY <1>2
  <2> HIDE DEF y
  <2>3. (y <= 0 => y = -1)
    BY <1>1, <2>1, <2>2 DEF Abs
  <2>4. Matched(y, TRUE)  BY <2>3 DEF Matched
  <2>5. TRUE <=> ~out  BY <1>4
  <2>6. Matched(y, ~out)  BY <2>4, <2>5, MatchedSame, Zenon
  <2> QED BY <2>6 DEF y
<1> QED BY <1>3, <1>4

\* An execution of both legs keeps the invariant.
LEMMA ExecuteWholeKeeps ==
  ASSUME EInv, ExecuteWhole
  PROVE  EInv'
<1> DEFINE i == Head(intents)
           messages == <<LegMessage(i, 1), LegMessage(i, 2), Summary(i, FillPrice)>>
<1>1. /\ intents # << >> /\ Handle(messages)
      /\ account' = [account EXCEPT ![i.pair] = AccountAfter(account[i.pair], i.buys)]
  BY DEF ExecuteWhole
<1>2. /\ intents \in Seq(Intent) /\ account \in [Pairs -> -(MaxLots + 1)..(MaxLots + 1)]
      /\ MaxLots \in Nat /\ FillPrice \in Nat
  BY EngineNumbers DEF EInv, EngineTypeOK
<1>3. i \in Intent /\ i = intents[1] /\ 1 \in 1..Len(intents)
  BY <1>1, <1>2
<1>4. i.pair \in Pairs /\ i.exit \in BOOLEAN /\ i.buys \in BOOLEAN  BY <1>3 DEF Intent
<1>5. MessagesOf(messages, i)  BY <1>2, <1>3, ThreeMessages
<1>6. messages # << >>  OBVIOUS
<1>7. ASSUME faults = {} PROVE Matched(AccountAfter(account[i.pair], i.buys), ~i.exit)
  <2>1. OneInFlight /\ Booked /\ ExitsBuy  BY <1>7 DEF EInv, InTime
  <2>2. /\ i.exit <=> Open(i.pair)
        /\ \A n \in 1..Len(events) : events[n].key[1] # i.pair
    BY <1>3, <2>1 DEF OneInFlight
  <2>3. \A n \in 1..Len(events) : events[n].key # <<i.pair, 1>>
    <3>1. <<i.pair, 1>>[1] = i.pair  OBVIOUS
    <3> QED BY <2>2, <3>1
  <2>4. Matched(account[i.pair], Open(i.pair))  BY <1>4, <2>1, <2>3 DEF Booked
  <2>5. i.exit => i.buys  BY <1>3, <2>1 DEF ExitsBuy
  <2> DEFINE lots == account[i.pair]  out == i.exit  buys == i.buys  a == Open(i.pair)
  <2>6. lots \in Int  BY <1>2, <1>4
  <2>7. out \in BOOLEAN /\ buys \in BOOLEAN /\ a \in BOOLEAN /\ (out => buys) /\ (a <=> out)
        /\ Matched(lots, a)
    BY <1>4, <2>2, <2>4, <2>5 DEF Open
  <2> HIDE DEF lots, out, buys, a
  <2>8. Matched(lots, out)  BY <2>7, MatchedSame, Zenon
  <2>9. Matched(AccountAfter(lots, buys), ~out)  BY <1>7, <2>6, <2>7, <2>8, AccountFollows
  <2> QED BY <2>9 DEF lots, out, buys
<1> HIDE DEF messages
<1>8. /\ account' \in [Pairs -> -(MaxLots + 1)..(MaxLots + 1)]
      /\ \A p \in Pairs : p # i.pair => account'[p] = account[p]
      /\ account'[i.pair] = AccountAfter(account[i.pair], i.buys)
  <2> DEFINE y == AccountAfter(account[i.pair], i.buys)
  <2>1. y \in -(MaxLots + 1)..(MaxLots + 1)  BY <1>2, <1>4, AccountIsTyped
  <2>2. account' = [account EXCEPT ![i.pair] = y]  BY <1>1
  <2> HIDE DEF y
  <2>3. /\ account' \in [Pairs -> -(MaxLots + 1)..(MaxLots + 1)]
        /\ \A p \in Pairs : p # i.pair => account'[p] = account[p]
        /\ account'[i.pair] = y
    BY <1>2, <1>4, <2>1, <2>2
  <2> QED BY <2>3 DEF y
<1>9. faults = {} => messages # << >> /\ Matched(account'[i.pair], ~i.exit)
  <2>1. messages # << >>  BY <1>6 DEF messages
  <2> QED BY <1>7, <1>8, <2>1, Zenon
<1> HIDE DEF i
<1> QED BY <1>1, <1>5, <1>8, <1>9, HandleKeeps DEF i

\* So does an intent that is refused, or executed in part or not at all: that
\* is of a world in which nothing is said of the account.
LEMMA FailureKeeps ==
  ASSUME EInv, ExecuteFirstLeg \/ ExecuteNothing \/ Refuse
  PROVE  EInv'
<1> DEFINE i == Head(intents)
<1>1. "fails" \in faults /\ account' = account /\ intents # << >>
  BY DEF ExecuteFirstLeg, ExecuteNothing, Refuse, Handle
<1>2. intents \in Seq(Intent) /\ account \in [Pairs -> -(MaxLots + 1)..(MaxLots + 1)]
  BY DEF EInv, EngineTypeOK
<1>3. i \in Intent  BY <1>1, <1>2
<1>4. faults # {}  BY <1>1
<1>5. PICK messages : Handle(messages) /\ MessagesOf(messages, i)
  <2>1. CASE ExecuteFirstLeg
    <3>1. \/ Handle(<<LegMessage(i, 1), LegMessage(i, 2), Summary(i, 0)>>)
          \/ Handle(<<LegMessage(i, 1), Summary(i, 0)>>)
      BY <2>1 DEF ExecuteFirstLeg
    <3> QED BY <1>3, <3>1, ThreeMessages
  <2>2. CASE ExecuteNothing
    <3>1. Handle(<<LegMessage(i, 1)>>)  BY <2>2 DEF ExecuteNothing
    <3> QED BY <1>3, <3>1, ThreeMessages
  <2>3. CASE Refuse
    <3>1. Handle(<< >>)  BY <2>3 DEF Refuse
    <3> QED BY <1>3, <3>1, ThreeMessages
  <2> QED BY <2>1, <2>2, <2>3
<1>6. account' \in [Pairs -> -(MaxLots + 1)..(MaxLots + 1)]
      /\ \A p \in Pairs : p # i.pair => account'[p] = account[p]
  BY <1>1, <1>2
<1> HIDE DEF i
<1> QED BY <1>4, <1>5, <1>6, HandleKeeps DEF i

-----------------------------------------------------------------------------
(* The execution stream, time and restarts.                                *)

\* A batch of confirmations keeps the invariant.
LEMMA ReadEventsKeeps ==
  ASSUME EInv, ReadEvents
  PROVE  EInv'
<1>1. /\ EngineTypeOK /\ SelectorTypeOK /\ LowCounted /\ LowDifferentialAsksExit /\ ExitsBuy
      /\ events \in Seq(Message) /\ quietLow \in [Pairs -> 0..FundingNegativeExitCycles]
      /\ intents \in Seq(Intent) /\ sinceTrade \in [Pairs -> 0..Cooldown]
      /\ FundingNegativeExitCycles \in Nat \ {0} /\ Cooldown \in Nat
  BY EngineNumbers DEF EInv, EngineTypeOK
<1>2. /\ events' = << >> /\ faults' = faults /\ intents' = intents /\ account' = account
      /\ sinceTrade' = sinceTrade
      /\ quietLow' = [p \in Pairs |->
           IF \E n \in DOMAIN events : events[n].key = <<p, 1>> THEN 0 ELSE quietLow[p]]
  BY DEF ReadEvents
<1>3. PICK c \in Conditions : /\ positions' = ConfirmAll(events, c).positions
                              /\ cooldowns' = ConfirmAll(events, c).cooldowns
  BY DEF ReadEvents
<1>4. c \in Condition  BY EngineAssumption DEF EngineAssumption
<1> DEFINE r == ConfirmAll(events, c)
<1>5. r \in Selectors /\ \A p \in Pairs : Follows(r, p, events, Len(events))
  BY <1>1, <1>4, ConfirmAllFollows
<1>6. positions' = r.positions /\ cooldowns' = r.cooldowns  BY <1>3
<1> HIDE DEF r
<1>7. /\ DOMAIN positions' \subseteq Keys /\ positions' \in [DOMAIN positions' -> Position]
      /\ cooldowns' \in [Pairs -> 0..Cooldown]
  <2>1. r.positions \in Books /\ r.cooldowns \in [Pairs -> 0..Cooldown]
    BY <1>5 DEF Selectors
  <2> QED BY <1>6, <2>1, BookIsTyped
<1>8. \A p \in Pairs :
        \/ /\ \A n \in 1..Len(events) : events[n].key # <<p, 1>>
           /\ <<p, 1>> \in DOMAIN positions' <=> Open(p)
           /\ Open(p) => positions'[<<p, 1>>] = positions[<<p, 1>>]
           /\ cooldowns'[p] = cooldowns[p]
        \/ /\ cooldowns'[p] = Cooldown
           /\ \E n \in 1..Len(events) :
                /\ events[n].key = <<p, 1>>
                /\ <<p, 1>> \in DOMAIN positions' <=> ~events[n].exit
  BY <1>5, <1>6, Zenon DEF Follows, Untouched, Told
<1>9. \A p \in Pairs :
        /\ quietLow'[p] \in 0..FundingNegativeExitCycles
        /\ quietLow'[p] = 0 \/ quietLow'[p] = quietLow[p]
        /\ (\E n \in 1..Len(events) : events[n].key = <<p, 1>>) => quietLow'[p] = 0
  <2>1. DOMAIN events = 1..Len(events)  BY <1>1
  <2> TAKE p \in Pairs
  <2> DEFINE told == \E n \in 1..Len(events) : events[n].key = <<p, 1>>
  <2>2. quietLow'[p] = IF told THEN 0 ELSE quietLow[p]  BY <1>2, <2>1
  <2>3. quietLow[p] \in 0..FundingNegativeExitCycles /\ FundingNegativeExitCycles \in Nat
    BY <1>1
  <2> HIDE DEF told
  <2>4. /\ quietLow'[p] \in 0..FundingNegativeExitCycles
        /\ quietLow'[p] = 0 \/ quietLow'[p] = quietLow[p]
        /\ told => quietLow'[p] = 0
    BY <2>2, <2>3
  <2> QED BY <2>4 DEF told
<1>10. quietLow' \in [Pairs -> 0..FundingNegativeExitCycles]
  <2>1. quietLow' = [p \in Pairs |-> quietLow'[p]]  BY <1>2
  <2> QED BY <1>9, <2>1
<1>11. EngineTypeOK'
  <2>1. events' \in Seq(Message) /\ Len(events') <= MaxEvents
    BY <1>2, EngineAssumption DEF EngineAssumption
  <2> QED BY <1>1, <1>2, <1>7, <1>10, <2>1 DEF EngineTypeOK, SelectorTypeOK
<1>12. LowCounted'
  <2> SUFFICES ASSUME NEW p \in Pairs, quietLow'[p] > 0
               PROVE  /\ <<p, 1>> \in DOMAIN positions'
                      /\ positions'[<<p, 1>>].strategy = "FUNDING_CARRY"
                      /\ quietLow'[p] <= positions'[<<p, 1>>].negativeCycles
    BY DEF LowCounted, Open
  <2>1. quietLow'[p] = quietLow[p] /\ ~(quietLow'[p] = 0)  BY <1>9
  <2>2. /\ <<p, 1>> \in DOMAIN positions' <=> Open(p)
        /\ Open(p) => positions'[<<p, 1>>] = positions[<<p, 1>>]
    BY <1>8, <1>9, <2>1, Zenon
  <2>3. /\ Open(p) /\ positions[<<p, 1>>].strategy = "FUNDING_CARRY"
        /\ quietLow[p] <= positions[<<p, 1>>].negativeCycles
    BY <1>1, <2>1 DEF LowCounted
  <2> QED BY <2>1, <2>2, <2>3
<1>13. LowDifferentialAsksExit'
  <2>1. \A p \in Pairs : quietLow[p] < FundingNegativeExitCycles
    BY <1>1 DEF LowDifferentialAsksExit
  <2>2. \A p \in Pairs : quietLow'[p] = 0 \/ quietLow'[p] = quietLow[p]
    BY <1>9
  <2>3. 0 < FundingNegativeExitCycles  BY <1>1
  <2>4. \A p \in Pairs : quietLow'[p] < FundingNegativeExitCycles
    BY <2>1, <2>2, <2>3, Zenon
  <2> QED BY <2>4 DEF LowDifferentialAsksExit
<1>14. ExitsBuy'
  BY <1>1, <1>2 DEF ExitsBuy
<1>15. Len(events') = 0  BY <1>2
<1>16. ASSUME InTime PROVE OneInFlight' /\ Spaced'
  <2>1. OneInFlight /\ Spaced  BY <1>16 DEF EInv
  <2>2. OneInFlight'
    <3>1. PairsOnce(intents')  BY <1>2, <2>1 DEF OneInFlight
    <3>2. ASSUME NEW m \in 1..Len(intents)
          PROVE  intents[m].exit <=> <<intents[m].pair, 1>> \in DOMAIN positions'
      <4>0. intents[m] \in Intent  BY <1>1
      <4>1. intents[m].pair \in Pairs  BY <4>0 DEF Intent
      <4>2. /\ intents[m].exit <=> Open(intents[m].pair)
            /\ \A n \in 1..Len(events) : events[n].key[1] # intents[m].pair
        BY <2>1 DEF OneInFlight
      <4>3. <<intents[m].pair, 1>>[1] = intents[m].pair  OBVIOUS
      <4>4. \A n \in 1..Len(events) : events[n].key # <<intents[m].pair, 1>>
        BY <4>2, <4>3, Zenon
      <4>5. <<intents[m].pair, 1>> \in DOMAIN positions' <=> Open(intents[m].pair)
        BY <1>8, <4>1, <4>4, Zenon
      <4> QED BY <4>2, <4>5, Zenon
    <3> QED BY <1>2, <1>15, <3>1, <3>2 DEF OneInFlight, Open, PairsOnce
  <2>3. ASSUME NEW p \in Pairs PROVE cooldowns'[p] + sinceTrade'[p] >= Cooldown
    <3>1. CASE cooldowns'[p] = Cooldown
      <4>1. sinceTrade'[p] \in Nat  BY <1>1, <1>2
      <4> QED BY <1>1, <3>1, <4>1
    <3>2. CASE cooldowns'[p] # Cooldown
      <4>1. cooldowns'[p] = cooldowns[p] /\ \A n \in 1..Len(events) : events[n].key # <<p, 1>>
        BY <1>8, <3>2, Zenon
      <4> QED BY <1>2, <2>1, <4>1 DEF Spaced
    <3> QED BY <3>1, <3>2
  <2>4. \A m \in 1..Len(intents') :
          ~intents'[m].exit => sinceTrade'[intents'[m].pair] >= Cooldown
    BY <1>2, <2>1 DEF Spaced
  <2> QED BY <2>2, <2>3, <2>4 DEF Spaced
<1>17. ASSUME faults = {} PROVE Booked'
  <2>1. Booked  BY <1>17 DEF EInv
  <2>2. ASSUME NEW p \in Pairs PROVE Matched(account[p], <<p, 1>> \in DOMAIN positions')
    <3> DEFINE b == <<p, 1>> \in DOMAIN positions'
    <3>1. CASE (\A n \in 1..Len(events) : events[n].key # <<p, 1>>) /\ (b <=> Open(p))
      <4> DEFINE a == Open(p)
      <4>1. Matched(account[p], a)  BY <2>1, <3>1 DEF Booked
      <4>2. a \in BOOLEAN /\ b \in BOOLEAN  BY DEF Open
      <4>3. a <=> b  BY <3>1
      <4> HIDE DEF a, b
      <4>4. Matched(account[p], b)  BY <4>1, <4>2, <4>3, MatchedSame, Zenon
      <4> QED BY <4>4 DEF b
    <3>2. CASE \E n \in 1..Len(events) : events[n].key = <<p, 1>> /\ (b <=> ~events[n].exit)
      <4>0. PICK n \in 1..Len(events) : events[n].key = <<p, 1>> /\ (b <=> ~events[n].exit)
        BY <3>2
      <4> DEFINE a == ~events[n].exit
      <4>1. Matched(account[p], a)  BY <2>1, <4>0 DEF Booked
      <4>2. a \in BOOLEAN /\ b \in BOOLEAN  OBVIOUS
      <4>3. a <=> b  BY <4>0
      <4> HIDE DEF a, b
      <4>4. Matched(account[p], b)  BY <4>1, <4>2, <4>3, MatchedSame, Zenon
      <4> QED BY <4>4 DEF b
    <3> QED BY <1>8, <3>1, <3>2, Zenon
  <2>3. ASSUME NEW p \in Pairs
        PROVE  /\ (\A n \in 1..Len(events') : events'[n].key # <<p, 1>>) =>
                    Matched(account'[p], <<p, 1>> \in DOMAIN positions')
               /\ \A n \in 1..Len(events') :
                    events'[n].key = <<p, 1>> => Matched(account'[p], ~events'[n].exit)
    <3>1. Matched(account'[p], <<p, 1>> \in DOMAIN positions')
      BY <1>2, <2>2, Zenon
    <3>2. \A n \in 1..Len(events') : FALSE  BY <1>15
    <3> QED BY <3>1, <3>2, Zenon
  <2> QED BY <2>3 DEF Booked, Open
<1>18. InTime' <=> InTime  BY <1>2 DEF InTime
<1> QED BY <1>2, <1>11, <1>12, <1>13, <1>14, <1>16, <1>17, <1>18 DEF EInv

\* What the passage of a tick leaves of the book.
LEMMA ElapseKeepsBook ==
  ASSUME SelectorTypeOK, Elapse
  PROVE  /\ SelectorTypeOK' /\ DOMAIN positions' = DOMAIN positions
         /\ \A p \in Pairs : Open(p) =>
              /\ positions'[<<p, 1>>].strategy = positions[<<p, 1>>].strategy
              /\ positions'[<<p, 1>>].negativeCycles = positions[<<p, 1>>].negativeCycles
<1>1. /\ DOMAIN positions \subseteq Keys /\ positions \in [DOMAIN positions -> Position]
      /\ cooldowns \in [Pairs -> 0..Cooldown] /\ Cooldown \in Nat /\ BasisHoldingMax \in Nat
  BY EngineNumbers DEF SelectorTypeOK
<1>2. /\ DOMAIN positions' = DOMAIN positions
      /\ cooldowns' = [p \in Pairs |-> Highest(cooldowns[p] - 1, 0)]
      /\ positions' = [k \in DOMAIN positions |-> positions'[k]]
  BY DEF Elapse
<1>3. ASSUME NEW k \in DOMAIN positions
      PROVE  /\ positions'[k] \in Position
             /\ positions'[k].strategy = positions[k].strategy
             /\ positions'[k].negativeCycles = positions[k].negativeCycles
  <2> DEFINE pos == positions[k]  a == Lowest(pos.age + 1, BasisHoldingMax + 1)
  <2>1. pos \in Position  BY <1>1
  <2>2. positions'[k] = pos \/ positions'[k] = [pos EXCEPT !.age = a]
    BY DEF Elapse
  <2>3. pos.age \in 0..(BasisHoldingMax + 1)  BY <2>1 DEF Position
  <2>4. a \in 0..(BasisHoldingMax + 1)  BY <1>1, <2>3 DEF Lowest
  <2> HIDE DEF pos, a
  <2>5. [pos EXCEPT !.age = a] \in Position
        /\ [pos EXCEPT !.age = a].strategy = pos.strategy
        /\ [pos EXCEPT !.age = a].negativeCycles = pos.negativeCycles
    BY <2>1, <2>4 DEF Position
  <2>6. positions'[k] \in Position /\ positions'[k].strategy = pos.strategy
        /\ positions'[k].negativeCycles = pos.negativeCycles
    BY <2>1, <2>2, <2>5
  <2> QED BY <2>6 DEF pos
<1>4. positions' \in [DOMAIN positions -> Position]  BY <1>2, <1>3
<1>5. cooldowns' \in [Pairs -> 0..Cooldown]
  <2>1. \A p \in Pairs : Highest(cooldowns[p] - 1, 0) \in 0..Cooldown
    BY <1>1 DEF Highest
  <2> QED BY <1>2, <2>1
<1> QED BY <1>1, <1>2, <1>3, <1>4, <1>5 DEF SelectorTypeOK, Open

\* A tick keeps the invariant.
LEMMA TickKeeps ==
  ASSUME EInv, Tick
  PROVE  EInv'
<1>1. /\ EngineTypeOK /\ SelectorTypeOK /\ LowCounted /\ LowDifferentialAsksExit /\ ExitsBuy
      /\ cooldowns \in [Pairs -> 0..Cooldown] /\ sinceTrade \in [Pairs -> 0..Cooldown]
      /\ Cooldown \in Nat
  BY EngineNumbers DEF EInv, EngineTypeOK, SelectorTypeOK
<1>2. /\ MayEvaluate /\ Elapse /\ faults' = faults /\ intents' = intents /\ events' = events
      /\ account' = account /\ quietLow' = quietLow
      /\ sinceTrade' = [p \in Pairs |-> Lowest(sinceTrade[p] + 1, Cooldown)]
  BY DEF Tick
<1>3. /\ SelectorTypeOK' /\ DOMAIN positions' = DOMAIN positions
      /\ \A p \in Pairs : Open(p) =>
           /\ positions'[<<p, 1>>].strategy = positions[<<p, 1>>].strategy
           /\ positions'[<<p, 1>>].negativeCycles = positions[<<p, 1>>].negativeCycles
  BY <1>1, <1>2, ElapseKeepsBook
<1>4. ASSUME NEW p \in Pairs
      PROVE  /\ sinceTrade'[p] \in 0..Cooldown
             /\ cooldowns[p] + sinceTrade[p] >= Cooldown
                  => cooldowns'[p] + sinceTrade'[p] >= Cooldown
  <2> DEFINE s == sinceTrade[p]  d == cooldowns[p]
  <2>1. s \in 0..Cooldown /\ d \in 0..Cooldown  BY <1>1
  <2>2. sinceTrade'[p] = Lowest(s + 1, Cooldown) /\ cooldowns'[p] = Highest(d - 1, 0)
    BY <1>2 DEF Elapse
  <2> HIDE DEF s, d
  <2>3. Lowest(s + 1, Cooldown) \in 0..Cooldown
        /\ (d + s >= Cooldown => Highest(d - 1, 0) + Lowest(s + 1, Cooldown) >= Cooldown)
    BY <1>1, <2>1 DEF Lowest, Highest
  <2> QED BY <2>2, <2>3 DEF s, d
<1>5. sinceTrade' \in [Pairs -> 0..Cooldown]
  <2>1. sinceTrade' = [p \in Pairs |-> sinceTrade'[p]]  BY <1>2
  <2> QED BY <1>4, <2>1
<1>6. EngineTypeOK'
  BY <1>1, <1>2, <1>3, <1>5 DEF EngineTypeOK
<1>7. LowCounted'
  BY <1>1, <1>2, <1>3 DEF LowCounted, Open
<1>8. LowDifferentialAsksExit' /\ ExitsBuy'
  BY <1>1, <1>2 DEF LowDifferentialAsksExit, ExitsBuy
<1>9. ASSUME InTime PROVE OneInFlight' /\ Spaced'
  <2>1. Spaced /\ Drained  BY <1>2, <1>9 DEF EInv, MayEvaluate, InTime
  <2>2. Len(events') = 0 /\ Len(intents') = 0 /\ Len(events) = 0
    BY <1>2, <2>1 DEF Drained
  <2>3. OneInFlight'  BY <2>2 DEF OneInFlight, PairsOnce
  <2>4. \A p \in Pairs : cooldowns[p] + sinceTrade[p] >= Cooldown
    BY <2>1, <2>2 DEF Spaced
  <2>5. \A p \in Pairs : cooldowns'[p] + sinceTrade'[p] >= Cooldown
    BY <1>4, <2>4
  <2> QED BY <2>2, <2>3, <2>5 DEF Spaced
<1>10. ASSUME faults = {} PROVE Booked'
  <2>1. Booked  BY <1>10 DEF EInv
  <2> QED BY <1>2, <1>3, <2>1, Zenon DEF Booked, Open
<1>11. InTime' <=> InTime  BY <1>2 DEF InTime
<1> QED BY <1>2, <1>6, <1>7, <1>8, <1>9, <1>10, <1>11 DEF EInv

\* So does a restart: that is of a world in which nothing is in time.
LEMMA RestartEngineKeeps ==
  ASSUME EInv, RestartEngine
  PROVE  EInv'
<1>1. EngineTypeOK /\ ExitsBuy /\ events \in Seq(Message) /\ Len(events) <= MaxEvents
  BY DEF EInv, EngineTypeOK
<1>2. /\ "restart" \in faults /\ positions' = << >> /\ cooldowns' = [p \in Pairs |-> 0]
      /\ quietLow' = [p \in Pairs |-> 0] /\ (events' = events \/ events' = << >>)
      /\ faults' = faults /\ intents' = intents /\ account' = account
      /\ sinceTrade' = sinceTrade
  BY DEF RestartEngine
<1>3. ~InTime /\ ~InTime' /\ faults # {}
  <2>1. "restart" # "fails"  OBVIOUS
  <2> QED BY <1>2, <2>1 DEF InTime
<1>4. SelectorTypeOK'
  <2>1. DOMAIN positions' = {} /\ positions' \in [DOMAIN positions' -> Position]
    BY <1>2
  <2>2. cooldowns' \in [Pairs -> 0..Cooldown]  BY <1>2, EngineNumbers
  <2> QED BY <2>1, <2>2 DEF SelectorTypeOK
<1>5. EngineTypeOK'
  <2>1. events' \in Seq(Message) /\ Len(events') <= MaxEvents
    <3>1. << >> \in Seq(Message) /\ Len(<< >>) = 0  OBVIOUS
    <3>2. MaxEvents \in Nat  BY EngineAssumption DEF EngineAssumption
    <3>3. Len(<< >>) <= MaxEvents  BY <3>1, <3>2
    <3> QED BY <1>1, <1>2, <3>1, <3>3
  <2>2. quietLow' \in [Pairs -> 0..FundingNegativeExitCycles]
    BY <1>2, EngineNumbers
  <2> QED BY <1>1, <1>2, <1>4, <2>1, <2>2 DEF EngineTypeOK
<1>6. LowCounted' /\ LowDifferentialAsksExit'
  BY <1>2, EngineNumbers DEF LowCounted, LowDifferentialAsksExit
<1>7. ExitsBuy'  BY <1>1, <1>2 DEF ExitsBuy
<1> QED BY <1>2, <1>3, <1>5, <1>6, <1>7 DEF EInv

-----------------------------------------------------------------------------
(* The theorems.                                                           *)

\* The invariant holds at the start.
LEMMA EngineInitially ==
  ASSUME EngineInit
  PROVE  EInv
<1>1. /\ positions = << >> /\ cooldowns = [p \in Pairs |-> 0] /\ faults \in Worlds
      /\ intents = << >> /\ events = << >> /\ account = [p \in Pairs |-> 0]
      /\ sinceTrade = [p \in Pairs |-> Cooldown] /\ quietLow = [p \in Pairs |-> 0]
  BY DEF EngineInit, SelectorInit
<1>2. Len(intents) = 0 /\ Len(events) = 0  BY <1>1
<1>3. \A p \in Pairs : ~Open(p)
  <2>1. DOMAIN positions = {}  BY <1>1
  <2> QED BY <2>1 DEF Open
<1>4. EngineTypeOK
  <2>1. SelectorTypeOK
    <3>1. DOMAIN positions = {} /\ positions \in [DOMAIN positions -> Position]  BY <1>1
    <3>2. cooldowns \in [Pairs -> 0..Cooldown]  BY <1>1, EngineNumbers
    <3> QED BY <3>1, <3>2 DEF SelectorTypeOK
  <2>2. intents \in Seq(Intent) /\ events \in Seq(Message)  BY <1>1
  <2>3. account \in [Pairs -> -(MaxLots + 1)..(MaxLots + 1)]
    <3>1. 0 \in -(MaxLots + 1)..(MaxLots + 1)  BY EngineNumbers
    <3> QED BY <1>1, <3>1
  <2>4. sinceTrade \in [Pairs -> 0..Cooldown]
        /\ quietLow \in [Pairs -> 0..FundingNegativeExitCycles]
    BY <1>1, EngineNumbers
  <2>5. 0 <= MaxInFlight /\ 0 <= MaxEvents  BY EngineAssumption DEF EngineAssumption
  <2> QED BY <1>1, <1>2, <2>1, <2>2, <2>3, <2>4, <2>5 DEF EngineTypeOK
<1>5. LowCounted /\ LowDifferentialAsksExit
  BY <1>1, EngineNumbers DEF LowCounted, LowDifferentialAsksExit
<1>6. ExitsBuy /\ OneInFlight
  BY <1>2 DEF ExitsBuy, OneInFlight, PairsOnce
<1>7. Spaced
  <2>1. \A p \in Pairs : cooldowns[p] + sinceTrade[p] >= Cooldown  BY <1>1, EngineNumbers
  <2> QED BY <1>2, <2>1 DEF Spaced
<1>8. Booked
  <2>1. Matched(0, FALSE)  BY DEF Matched
  <2>2. ASSUME NEW p \in Pairs PROVE Matched(account[p], Open(p))
    <3> DEFINE a == Open(p)
    <3>1. a \in BOOLEAN /\ (FALSE <=> a) /\ account[p] = 0  BY <1>1, <1>3 DEF Open
    <3> HIDE DEF a
    <3>2. Matched(account[p], a)  BY <2>1, <3>1, MatchedSame, Zenon
    <3> QED BY <3>2 DEF a
  <2> QED BY <1>2, <2>2 DEF Booked
<1> QED BY <1>4, <1>5, <1>6, <1>7, <1>8 DEF EInv

\* Every step keeps it.
LEMMA EngineStepKeeps ==
  ASSUME EInv, [EngineNext]_engineVars
  PROVE  EInv'
<1>1. CASE EvaluationTicker  BY <1>1, EvaluationTickerKeeps
<1>2. CASE ExecuteWhole  BY <1>2, ExecuteWholeKeeps
<1>3. CASE ExecuteFirstLeg \/ ExecuteNothing \/ Refuse  BY <1>3, FailureKeeps
<1>4. CASE ReadEvents  BY <1>4, ReadEventsKeeps
<1>5. CASE Tick  BY <1>5, TickKeeps
<1>6. CASE RestartEngine  BY <1>6, RestartEngineKeeps
<1>7. CASE UNCHANGED engineVars
  <2>1. /\ positions' = positions /\ cooldowns' = cooldowns /\ faults' = faults
        /\ intents' = intents /\ events' = events /\ account' = account
        /\ sinceTrade' = sinceTrade /\ quietLow' = quietLow
    BY <1>7 DEF engineVars
  <2> QED BY <2>1, Zenon DEF EInv, EngineTypeOK, SelectorTypeOK, LowCounted,
                      LowDifferentialAsksExit, ExitsBuy, OneInFlight, Spaced, Booked, Open,
                      InTime, PairsOnce
<1> QED BY <1>1, <1>2, <1>3, <1>4, <1>5, <1>6, <1>7 DEF EngineNext

\* The invariant holds in every state of every behaviour of the process.
THEOREM EngineInvariant ==
  EngineSpec => []EInv
<1>1. EngineInit => EInv  BY EngineInitially
<1>2. EInv /\ [EngineNext]_engineVars => EInv'  BY EngineStepKeeps
<1> QED BY <1>1, <1>2, PTL DEF EngineSpec

\* The state of the process and of what it has in flight keeps its types.
THEOREM EngineTypeCorrect ==
  EngineSpec => []EngineTypeOK
<1>1. EInv => EngineTypeOK  BY DEF EInv
<1> QED BY <1>1, EngineInvariant, PTL

\* While every answer is in before the next evaluation and every intent is
\* executed whole, the book is the account (the confirmations of
\* cmd/strategy-engine/main.go against what the executor did).
THEOREM BookFollowsAccount ==
  EngineSpec => []InStep
<1>1. EInv => InStep
  <2> SUFFICES ASSUME EInv, faults = {}, Drained, NEW p \in Pairs, account[p] <= 0
               PROVE  account[p] = IF Open(p) THEN -1 ELSE 0
    BY DEF InStep
  <2>1. Booked /\ Len(events) = 0  BY DEF EInv, Drained
  <2>2. Matched(account[p], Open(p))  BY <2>1 DEF Booked
  <2> QED BY <2>2 DEF Matched
<1> QED BY <1>1, EngineInvariant, PTL

\* Every run of low differentials ends in an exit that is asked for (shouldExit
\* and its count of cycles in internal/strategy/selector.go).
THEOREM LowRunsEnd ==
  EngineSpec => []LowDifferentialAsksExit
<1>1. EInv => LowDifferentialAsksExit  BY DEF EInv
<1> QED BY <1>1, EngineInvariant, PTL

\* An evaluation never takes the book and what it asks for beyond the cap
\* (Evaluate in internal/strategy/selector.go, with its running sum).
THEOREM EntriesLeaveTheCap ==
  EngineSpec => []EntriesWithinAllocation
<1>1. EInv => EntriesWithinAllocation
  <2> SUFFICES ASSUME EInv, NEW conds \in [Pairs -> Conditions], NEW equity \in Equities,
                      EntriesOf(conds, equity).intents # << >>
               PROVE  EntriesOf(conds, equity).allocated <= TotalMaxAllocationPct * equity
    BY DEF EntriesWithinAllocation
  <2>1. SelectorTypeOK  BY DEF EInv, EngineTypeOK
  <2>2. conds \in [Pairs -> Condition] /\ equity \in Nat
    BY EngineAssumption DEF EngineAssumption
  <2>3. GoodEntries(EntriesOf(conds, equity), Len(PairList), equity)
    BY <2>1, <2>2, EntriesAreGood
  <2> QED BY <2>3 DEF GoodEntries, WithinCap
<1> QED BY <1>1, EngineInvariant, PTL

\* No order of an entry is sent before the cooldown has passed since the last
\* order of the pair (the cooldowns of internal/strategy/selector.go).
THEOREM EntriesKeepTheirDistance ==
  EngineSpec => EntriesSpaced
<1>1. EInv /\ [EngineNext]_engineVars =>
        [\A p \in Pairs :
           /\ InTime /\ intents # << >> /\ intents' = Tail(intents)
           /\ Head(intents).pair = p /\ ~Head(intents).exit
           /\ Len(events') > Len(events)
           => sinceTrade[p] >= Cooldown]_engineVars
  <2> SUFFICES ASSUME EInv, NEW p \in Pairs, InTime, intents # << >>,
                      Head(intents).pair = p, ~Head(intents).exit
               PROVE  sinceTrade[p] >= Cooldown
    OBVIOUS
  <2>1. Spaced /\ intents \in Seq(Intent)  BY DEF EInv, EngineTypeOK
  <2>2. Head(intents) = intents[1] /\ 1 \in 1..Len(intents)  BY <2>1
  <2> QED BY <2>1, <2>2 DEF Spaced
<1> QED BY <1>1, EngineInvariant, PTL DEF EngineSpec, EntriesSpaced
=============================================================================
