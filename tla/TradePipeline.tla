---------------------------- MODULE TradePipeline ----------------------------
(***************************************************************************)
(* The way of a trade intent through the processes: the strategies publish *)
(* it on trade:intents; the challenge-daemon and the capital-allocator,    *)
(* two consumer groups of that stream, each publish what they approve on   *)
(* trade:approved; the execution-router executes what it reads there,      *)
(* behind the risk mode and the circuit breaker.                           *)
(*                                                                         *)
(* A group reads each message once: eventbus.Read asks for new messages    *)
(* only and acknowledges them before they are handled, so a batch in the   *)
(* memory of a process that dies is never read again.                      *)
(***************************************************************************)
EXTENDS Integers, Sequences, SequencesExt

CONSTANTS
  Intents,         \* intents the strategies publish, once each
  SafetyTrades,    \* intents the challenge-daemon publishes by itself
  BatchSize,       \* messages the router reads at a time
  ApproverBatch,   \* messages an approver reads at a time
  MaxCrashes,      \* bound: crashes of an approver
  MaxRouterCrashes \* bound: crashes of the router

ASSUME PipelineAssumption ==
  /\ Intents \cap SafetyTrades = {}
  /\ BatchSize \in Nat \ {0} /\ ApproverBatch \in Nat \ {0}
  /\ MaxCrashes \in Nat /\ MaxRouterCrashes \in Nat

Approvers  == {"challenge", "allocator"}
AllIntents == Intents \cup SafetyTrades

VARIABLES
  tradeIntents,   \* the stream trade:intents
  delivered,      \* approver -> messages its group has been given
  batch,          \* approver -> messages in its memory
  halted,         \* the challenge-daemon has seen a breach
  approved,       \* the stream trade:approved: [id, by]
  taken,          \* messages the router's group has been given
  routerBatch,    \* messages in the router's memory
  processed,      \* processedIntents, in the router's memory
  executing,      \* <<id>> while Execute runs
  riskBlocked,    \* risk:mode is HALTED or FLATTEN
  breakerOpen,    \* circuit_breaker:open is "true"
  expired,        \* intents past their ExpiresMs
  crashes, routerCrashes

(* History.                                                                *)
VARIABLES
  executed,       \* executions begun since the router started, in order
  reported        \* intents whose events reached execution:events

approverVars == <<tradeIntents, delivered, batch, halted>>
routerVars   == <<taken, routerBatch, processed, executing>>
gateVars     == <<riskBlocked, breakerOpen>>
crashVars    == <<crashes, routerCrashes>>
vars == <<approverVars, approved, routerVars, gateVars, expired, crashVars,
          executed, reported>>

TypeOK ==
  /\ tradeIntents \in Seq(Intents)
  /\ delivered \in [Approvers -> 0..Len(tradeIntents)]
  /\ batch \in [Approvers -> Seq(Intents)]
  /\ halted \in BOOLEAN
  /\ approved \in Seq([id : AllIntents, by : Approvers \cup {"none"}])
  /\ taken \in 0..Len(approved)
  /\ routerBatch \in Seq(AllIntents)
  /\ processed \subseteq AllIntents
  /\ executing \in {<< >>} \cup {<<i>> : i \in AllIntents}
  /\ riskBlocked \in BOOLEAN /\ breakerOpen \in BOOLEAN
  /\ expired \subseteq AllIntents
  /\ crashes \in 0..MaxCrashes /\ routerCrashes \in 0..MaxRouterCrashes
  /\ executed \in Seq(AllIntents)
  /\ reported \subseteq AllIntents

Init ==
  /\ tradeIntents = << >> /\ approved = << >>
  /\ delivered = [a \in Approvers |-> 0]
  /\ batch = [a \in Approvers |-> << >>]
  /\ halted = FALSE
  /\ taken = 0 /\ routerBatch = << >>
  /\ processed = {} /\ executing = << >>
  /\ riskBlocked = FALSE /\ breakerOpen = FALSE
  /\ expired = {} /\ crashes = 0 /\ routerCrashes = 0
  /\ executed = << >> /\ reported = {}

-----------------------------------------------------------------------------
(* Strategies, and the world.                                              *)

PublishIntent(i) ==
  /\ ~Contains(tradeIntents, i)
  /\ tradeIntents' = Append(tradeIntents, i)
  /\ UNCHANGED <<delivered, batch, halted, approved, routerVars, gateVars,
                 expired, crashVars, executed, reported>>

Expire(i) ==
  /\ i \notin expired
  /\ expired' = expired \cup {i}
  /\ UNCHANGED <<approverVars, approved, routerVars, gateVars, crashVars,
                 executed, reported>>

\* The risk daemon rewrites its keys, or they expire: a missing key blocks
\* nothing.
SetGate(risk, breaker) ==
  /\ riskBlocked' = risk /\ breakerOpen' = breaker
  /\ UNCHANGED <<approverVars, approved, routerVars, expired, crashVars,
                 executed, reported>>

-----------------------------------------------------------------------------
(* Approvers.                                                              *)

\* Mutant: a read begins at the last message that was given.
RereadsLast(stream, n, count) ==
  SubSeq(stream, IF n = 0 THEN 1 ELSE n,
         IF Len(stream) < n + count THEN Len(stream) ELSE n + count)

\* The messages a read of up to count gives to a group that has been given
\* the first n of a stream.
NewMessages(stream, n, count) ==
  SubSeq(stream, n + 1, IF Len(stream) < n + count THEN Len(stream) ELSE n + count)

\* Only the challenge-daemon looks at the breaker, and nobody at the mode.
ReadIntents(a) ==
  /\ batch[a] = << >>
  /\ delivered[a] < Len(tradeIntents)
  /\ a = "challenge" => ~breakerOpen
  /\ LET new == NewMessages(tradeIntents, delivered[a], ApproverBatch)
     IN  /\ batch' = [batch EXCEPT ![a] = new]
         /\ delivered' = [delivered EXCEPT ![a] = @ + Len(new)]
  /\ UNCHANGED <<tradeIntents, halted, approved, routerVars, gateVars,
                 expired, crashVars, executed, reported>>

\* The checks of the rules and of the allocation are left open here; see
\* ChallengeDaemon.
Approve(a) ==
  /\ batch[a] # << >>
  /\ a = "challenge" => ~halted
  /\ approved' = Append(approved, [id |-> Head(batch[a]), by |-> a])
  /\ batch' = [batch EXCEPT ![a] = Tail(@)]
  /\ UNCHANGED <<tradeIntents, delivered, halted, routerVars, gateVars,
                 expired, crashVars, executed, reported>>

Reject(a) ==
  /\ batch[a] # << >>
  /\ batch' = [batch EXCEPT ![a] = Tail(@)]
  /\ UNCHANGED <<tradeIntents, delivered, halted, approved, routerVars,
                 gateVars, expired, crashVars, executed, reported>>

\* safetyTicker: straight to trade:approved, between two batches.
PublishSafetyTrade(i) ==
  /\ batch["challenge"] = << >>
  /\ \A n \in DOMAIN approved : approved[n].id # i
  /\ approved' = Append(approved, [id |-> i, by |-> "none"])
  /\ UNCHANGED <<approverVars, routerVars, gateVars, expired, crashVars,
                 executed, reported>>

\* UpdateEquity finds a breach, between two batches.
Breach ==
  /\ ~halted /\ batch["challenge"] = << >>
  /\ halted' = TRUE
  /\ UNCHANGED <<tradeIntents, delivered, batch, approved, routerVars,
                 gateVars, expired, crashVars, executed, reported>>

CrashApprover(a) ==
  /\ crashes < MaxCrashes
  /\ crashes' = crashes + 1
  /\ batch' = [batch EXCEPT ![a] = << >>]
  /\ halted' = (halted /\ a # "challenge")
  /\ UNCHANGED <<tradeIntents, delivered, approved, routerVars, gateVars,
                 expired, routerCrashes, executed, reported>>

-----------------------------------------------------------------------------
(* The execution router.                                                   *)

GateOpen == ~riskBlocked /\ ~breakerOpen

\* Mutant: a read waits for a whole batch.
BatchWaiting == Len(approved) - taken >= BatchSize

MessageWaiting == taken < Len(approved)

\* Nothing is consumed while a gate is closed: it stays in the stream.
ReadApproved ==
  /\ GateOpen
  /\ routerBatch = << >> /\ executing = << >>
  /\ MessageWaiting
  /\ LET new == NewMessages(approved, taken, BatchSize)
     IN  /\ routerBatch' = [n \in DOMAIN new |-> new[n].id]
         /\ taken' = taken + Len(new)
  /\ UNCHANGED <<approverVars, approved, processed, executing, gateVars,
                 expired, crashVars, executed, reported>>

NextInBatch ==
  /\ executing = << >> /\ routerBatch # << >>
  /\ routerBatch' = Tail(routerBatch)

\* A gate that closed since the batch was read discards the intent.
SkipGated ==
  /\ ~GateOpen
  /\ NextInBatch
  /\ UNCHANGED <<approverVars, approved, taken, processed, executing,
                 gateVars, expired, crashVars, executed, reported>>

\* Mutant: nothing is remembered of what was processed.
ForgetsProcessed(i) == FALSE

IsProcessed(i) == i \in processed

SkipDuplicate ==
  /\ GateOpen
  /\ NextInBatch
  /\ IsProcessed(Head(routerBatch))
  /\ UNCHANGED <<approverVars, approved, taken, processed, executing,
                 gateVars, expired, crashVars, executed, reported>>

\* An expired intent counts as processed, and nothing is sent or reported.
SkipExpired ==
  /\ GateOpen
  /\ NextInBatch
  /\ ~IsProcessed(Head(routerBatch))
  /\ Head(routerBatch) \in expired
  /\ processed' = processed \cup {Head(routerBatch)}
  /\ UNCHANGED <<approverVars, approved, taken, executing, gateVars, expired,
                 crashVars, executed, reported>>

BeginExecution ==
  /\ GateOpen
  /\ NextInBatch
  /\ ~IsProcessed(Head(routerBatch))
  /\ Head(routerBatch) \notin expired
  /\ processed' = processed \cup {Head(routerBatch)}
  /\ executing' = <<Head(routerBatch)>>
  /\ executed' = Append(executed, Head(routerBatch))
  /\ UNCHANGED <<approverVars, approved, taken, gateVars, expired, crashVars,
                 reported>>

\* Execute has returned; its events and fill are published.
FinishExecution ==
  /\ executing # << >>
  /\ reported' = reported \cup {executing[1]}
  /\ executing' = << >>
  /\ UNCHANGED <<approverVars, approved, taken, routerBatch, processed,
                 gateVars, expired, crashVars, executed>>

CrashRouter ==
  /\ routerCrashes < MaxRouterCrashes
  /\ routerCrashes' = routerCrashes + 1
  /\ routerBatch' = << >> /\ processed' = {} /\ executing' = << >>
  /\ executed' = << >>
  /\ UNCHANGED <<approverVars, approved, taken, gateVars, expired, crashes,
                 reported>>

Approving == \E a \in Approvers : ReadIntents(a) \/ Approve(a) \/ Reject(a)

Routing ==
  \/ ReadApproved
  \/ SkipGated
  \/ SkipDuplicate
  \/ SkipExpired
  \/ BeginExecution
  \/ FinishExecution

Next ==
  \/ \E i \in Intents : PublishIntent(i)
  \/ \E i \in AllIntents : Expire(i)
  \/ \E risk, breaker \in BOOLEAN : SetGate(risk, breaker)
  \/ Approving
  \/ \E i \in SafetyTrades : PublishSafetyTrade(i)
  \/ Breach
  \/ \E a \in Approvers : CrashApprover(a)
  \/ Routing
  \/ CrashRouter

Spec == Init /\ [][Next]_vars

\* The router polls twice a second, and Execute returns: every call of the
\* exchange client ends, and retries are counted.
FairSpec == Spec /\ WF_vars(Routing)

-----------------------------------------------------------------------------
(* Properties.                                                             *)

\* Both approvers may approve the same intent, so it may come up twice, in
\* one batch or in two.  From one start of the router to the next the pipeline
\* still implements AtMostOnce (processedIntents is lost with the process).
Offered ==
  {approved[n].id : n \in DOMAIN approved}

Promise == INSTANCE AtMostOnce WITH offered <- Offered, Intents <- AllIntents
ExecutesAtMostOnce == Promise!Spec

\* Once the gates stay open and the strategies are done, every approved
\* intent is dealt with and every execution begun is reported.
Settled ==
  /\ taken = Len(approved) /\ routerBatch = << >> /\ executing = << >>
  /\ \A n \in DOMAIN executed : executed[n] \in reported

GateReopeningSettles == <>[]GateOpen => <>[]Settled

\* A message is in one place only.  What a group has been given is not given
\* again: what an approver holds is what it was given last and has not passed
\* on, what the router holds is what it was given last, and neither is ahead
\* of its stream.
NothingOvertaken ==
  /\ \A a \in Approvers :
       \A n \in DOMAIN batch[a] :
         /\ ~\E m \in DOMAIN approved :
               approved[m].id = batch[a][n] /\ approved[m].by = a
         /\ batch[a][n] = tradeIntents[delivered[a] - Len(batch[a]) + n]
  /\ taken <= Len(approved)
  /\ \A n \in DOMAIN routerBatch :
       routerBatch[n] = approved[taken - Len(routerBatch) + n].id
=============================================================================
