-------------------------- MODULE AgentTurnsProofs --------------------------
(* Theorems about the turns of a task, for every limit and size of batches. *)
EXTENDS AgentTurns, FiniteSetTheorems, SequenceTheorems, TLAPS

InTurn == loop.at \in {"turn", "loaded", "model"}
InBatch == loop.at \in {"calling", "started", "tool", "unknown"}

(* Only a running task has a loop. *)
LoopInv == loop.at # "gone" => status = "running"

(* The counters of the loop are those of the rows. *)
CountInv ==
    /\ reactCalls <= MaxIterations
    /\ loop.at \in {"turn", "loaded"} => reactCalls = loop.modelCalls
    /\ loop.at = "loaded" => loop.modelCalls < MaxIterations
    /\ InBatch \/ loop.at \in {"model", "overspent"} => reactCalls = loop.modelCalls + 1
    /\ InTurn \/ InBatch => Len(calls) = loop.toolCalls
    /\ loop.at = "overspent" => Len(calls) > MaxToolCalls
    /\ status = "waiting" => Len(calls) <= MaxToolCalls

(* Where the loop is in its batch. *)
PlaceInv ==
    /\ loop.at = "calling" => loop.next \in 1..(Len(calls) + 1)
    /\ loop.at \in {"started", "tool", "unknown", "overspent"} =>
        loop.next \in 1..Len(calls)

(* Calls are settled in their order. *)
StatusInv ==
    /\ InTurn => \A i \in DOMAIN calls : calls[i].status = "done"
    /\ status = "waiting" => \A i \in DOMAIN calls : calls[i].status \in {"done", "asked"}
    /\ InBatch \/ loop.at = "overspent" => \A i \in DOMAIN calls :
        /\ i < loop.next => calls[i].status \in {"done", "asked"}
        /\ i > loop.next => calls[i].status = "pending"
    /\ loop.at \in {"calling", "overspent"} => \A i \in DOMAIN calls :
        i = loop.next => calls[i].status = "pending"
    /\ loop.at \in {"started", "tool"} => calls[loop.next].status = "executing"

(* Tools are invoked in the order of their calls, within the budget. *)
InvokedInv ==
    /\ invoked \subseteq 1..MaxToolCalls
    /\ loop.at \in {"calling", "started", "overspent"} => \A i \in invoked : i < loop.next
    /\ loop.at \in {"tool", "unknown"} => \A i \in invoked : i <= loop.next

(* A batch is the output of the newest call of the model. *)
OutputInv ==
    /\ \A i \in DOMAIN calls : calls[i].output <= reactCalls
    /\ loop.at = "model" => \A i \in DOMAIN calls : calls[i].output < reactCalls
    /\ loop.at = "overspent" => \A i \in DOMAIN calls :
        IF i < loop.next THEN calls[i].output < reactCalls ELSE calls[i].output = reactCalls

(* What a call's output was made from: all calls before its batch, which   *)
(* the rules for batches accepted.                                         *)
ChoiceInv ==
    /\ loop.at \in {"loaded", "model"} => loop.input = DOMAIN calls
    /\ \A i \in DOMAIN calls : \A j \in 1..(i - 1) :
        \/ j \in calls[i].input
        \/ /\ calls[i].output = calls[j].output /\ calls[i].kind # "exclusive"
           /\ calls[i].kind = "write" => calls[j].kind = "write"

StopInv ==
    /\ afterStop # 0 => stop # {}
    /\ loop.at = "started" => afterStop = 0
    /\ StopsInTime

EndInv ==
    /\ end = "max_iterations" => reactCalls = MaxIterations
    /\ end = "max_tool_calls" =>
        /\ Len(calls) > MaxToolCalls
        /\ \A i \in invoked : calls[i].output < calls[Len(calls)].output

Inv ==
    /\ TypeOK /\ LoopInv /\ CountInv /\ PlaceInv /\ StatusInv
    /\ InvokedInv /\ OutputInv /\ ChoiceInv /\ StopInv /\ EndInv /\ UnknownIsLast

-----------------------------------------------------------------------------
(* What a step does to the calls, so that the steps need not look into it. *)

LEMMA CallsAreTyped ==
    ASSUME NEW n \in Nat, NEW f \in [1..n -> Call]
    PROVE  f \in Seq(Call) /\ Len(f) = n /\ DOMAIN f = 1..n
OBVIOUS

SameChoice(i) ==
    /\ calls'[i].kind = calls[i].kind
    /\ calls'[i].output = calls[i].output
    /\ calls'[i].input = calls[i].input

LEMMA BecomesEffect ==
    ASSUME TypeOK, Current \in DOMAIN calls, NEW s \in Open \cup Settled, Becomes(s)
    PROVE  /\ calls' \in Seq(Call) /\ Len(calls') = Len(calls)
           /\ DOMAIN calls' = DOMAIN calls /\ DOMAIN calls = 1..Len(calls)
           /\ \A i \in DOMAIN calls : SameChoice(i)
           /\ \A i \in DOMAIN calls :
                calls'[i].status = IF i = Current THEN s ELSE calls[i].status
<1>1. calls \in Seq(Call) /\ DOMAIN calls = 1..Len(calls) /\ Len(calls) \in Nat
  BY DEF TypeOK
<1>2. calls' = [calls EXCEPT ![Current] = [calls[Current] EXCEPT !.status = s]]
  BY DEF Becomes
<1>3. calls[Current] \in Call
  BY <1>1
<1>4. [calls[Current] EXCEPT !.status = s] \in Call
  BY <1>3 DEF Call
<1>5. calls' \in [1..Len(calls) -> Call]
  BY <1>1, <1>2, <1>4
<1>6. \A i \in DOMAIN calls :
        calls'[i] = IF i = Current THEN [calls[Current] EXCEPT !.status = s] ELSE calls[i]
  BY <1>1, <1>2
<1>7. \A i \in DOMAIN calls : SameChoice(i)
  BY <1>3, <1>6 DEF SameChoice, Call
<1>8. \A i \in DOMAIN calls : calls'[i].status = IF i = Current THEN s ELSE calls[i].status
  BY <1>3, <1>6 DEF Call
<1> QED
  BY <1>1, <1>5, <1>7, <1>8, CallsAreTyped

LEMMA EndTaskEffect ==
    ASSUME TypeOK, NEW reason, EndTask(reason)
    PROVE  /\ calls' \in Seq(Call) /\ Len(calls') = Len(calls)
           /\ DOMAIN calls' = DOMAIN calls /\ DOMAIN calls = 1..Len(calls)
           /\ \A i \in DOMAIN calls : SameChoice(i)
           /\ \A i \in DOMAIN calls : calls'[i].status = "unknown" => calls[i].status = "unknown"
<1>1. calls \in Seq(Call) /\ DOMAIN calls = 1..Len(calls) /\ Len(calls) \in Nat
  BY DEF TypeOK
<1>2. \A i \in DOMAIN calls : calls[i] \in Call
  BY <1>1
<1>3. \A i \in DOMAIN calls : [calls[i] EXCEPT !.status = "cancelled"] \in Call
  BY <1>2 DEF Call, Settled
<1>4. /\ calls' \in [1..Len(calls) -> Call]
      /\ \A i \in DOMAIN calls :
            calls'[i] = IF calls[i].status \in Open
                        THEN [calls[i] EXCEPT !.status = "cancelled"] ELSE calls[i]
  BY <1>1, <1>2, <1>3 DEF EndTask
<1>5. \A i \in DOMAIN calls :
        SameChoice(i) /\ (calls'[i].status = "unknown" => calls[i].status = "unknown")
  BY <1>2, <1>4 DEF SameChoice, Call
<1> QED
  BY <1>1, <1>4, <1>5, CallsAreTyped

-----------------------------------------------------------------------------
(* One lemma per step, and under it one step per part of Inv.              *)

LEMMA LoadMessagesStep ==
    ASSUME Inv, LoadMessages
    PROVE  Inv'
<1>1. TypeOK'
  <2>1. DOMAIN calls \subseteq Nat
    BY DEF Inv, TypeOK
  <2> QED
    BY <2>1 DEF Inv, TypeOK, Stage, LoadMessages, At
<1>2. LoopInv'
  BY DEF Inv, LoopInv, LoadMessages, At, Preflight
<1>3. CountInv'
  BY DEF Inv, CountInv, LoadMessages, At, Preflight, InTurn, InBatch
<1>4. PlaceInv'
  BY DEF Inv, PlaceInv, LoadMessages, Preflight
<1>5. StatusInv'
  BY DEF Inv, StatusInv, LoadMessages, At, Preflight, InTurn, InBatch
<1>6. InvokedInv'
  BY DEF Inv, InvokedInv, LoadMessages, Preflight
<1>7. OutputInv'
  BY DEF Inv, OutputInv, LoadMessages, Preflight
<1>8. ChoiceInv'
  <2>1. loop.at = "turn" /\ calls' = calls
    BY DEF LoadMessages, At
  <2>2. \A i \in DOMAIN calls : calls[i].status = "done"
    BY <2>1 DEF Inv, StatusInv, InTurn
  <2>3. loop'.input = DOMAIN calls
    BY <2>2 DEF Inv, TypeOK, LoadMessages
  <2> QED
    BY <2>1, <2>3 DEF Inv, ChoiceInv
<1>9. StopInv'
  BY DEF Inv, StopInv, LoadMessages, Preflight, StopsInTime
<1>10. EndInv'
  BY DEF Inv, EndInv, LoadMessages, Preflight
<1>11. UnknownIsLast'
  BY DEF Inv, UnknownIsLast, LoadMessages, Preflight
<1> QED
  BY <1>1, <1>2, <1>3, <1>4, <1>5, <1>6, <1>7, <1>8, <1>9, <1>10, <1>11 DEF Inv

LEMMA CallModelStep ==
    ASSUME Inv, CallModel
    PROVE  Inv'
<1>1. TypeOK'
  BY LimitsAssumption
     DEF Inv, TypeOK, CallModel, At, Preflight, Saturated, Stage, LoopInv, PlaceInv
<1>2. LoopInv'
  BY DEF Inv, LoopInv, CallModel, At, Preflight
<1>3. CountInv'
  BY LimitsAssumption
     DEF Inv, TypeOK, CountInv, CallModel, At, Preflight, Saturated, InTurn, InBatch
<1>4. PlaceInv'
  BY DEF Inv, PlaceInv, CallModel, Preflight
<1>5. StatusInv'
  BY DEF Inv, StatusInv, CallModel, At, Preflight, InTurn, InBatch
<1>6. InvokedInv'
  BY DEF Inv, InvokedInv, CallModel, Preflight
<1>7. OutputInv'
  <2>1. reactCalls' = reactCalls + 1
    BY LimitsAssumption DEF Inv, TypeOK, CountInv, CallModel, Saturated
  <2>2. calls' = calls /\ loop'.at = "model" /\ loop.at = "loaded"
    BY DEF Inv, CallModel, At
  <2>3. \A i \in DOMAIN calls : calls[i].output \in Nat
    <3>1. \A i \in DOMAIN calls : calls[i] \in Call
      BY DEF Inv, TypeOK
    <3> QED
      BY <3>1 DEF Call
  <2> QED
    BY <2>1, <2>2, <2>3 DEF Inv, TypeOK, OutputInv
<1>8. ChoiceInv'
  BY DEF Inv, ChoiceInv, CallModel, At, Preflight
<1>9. StopInv'
  BY DEF Inv, StopInv, CallModel, Preflight, StopsInTime
<1>10. EndInv'
  BY DEF Inv, TypeOK, EndInv, CallModel, At, Preflight
<1>11. UnknownIsLast'
  BY DEF Inv, UnknownIsLast, CallModel, Preflight
<1> QED
  BY <1>1, <1>2, <1>3, <1>4, <1>5, <1>6, <1>7, <1>8, <1>9, <1>10, <1>11 DEF Inv

LEMMA RejectBatchStep ==
    ASSUME Inv, RejectBatch
    PROVE  Inv'
<1>1. TypeOK'
  <2>1. loop.modelCalls + 1 \in 0..MaxIterations
    BY DEF Inv, TypeOK, CountInv, RejectBatch, At
  <2> QED
    BY <2>1 DEF Inv, TypeOK, Stage, RejectBatch, At, NextTurn
<1>2. LoopInv'
  BY DEF Inv, LoopInv, RejectBatch, At, NextTurn
<1>3. CountInv'
  BY DEF Inv, CountInv, RejectBatch, At, NextTurn, InTurn, InBatch
<1>4. PlaceInv'
  BY DEF Inv, PlaceInv, RejectBatch, NextTurn
<1>5. StatusInv'
  BY DEF Inv, StatusInv, RejectBatch, At, NextTurn, InTurn, InBatch
<1>6. InvokedInv'
  BY DEF Inv, InvokedInv, RejectBatch, NextTurn
<1>7. OutputInv'
  BY DEF Inv, OutputInv, RejectBatch, NextTurn
<1>8. ChoiceInv'
  BY DEF Inv, ChoiceInv, RejectBatch, NextTurn
<1>9. StopInv'
  BY DEF Inv, StopInv, RejectBatch, NextTurn, StopsInTime
<1>10. EndInv'
  BY DEF Inv, EndInv, RejectBatch, NextTurn
<1>11. UnknownIsLast'
  BY DEF Inv, UnknownIsLast, RejectBatch, NextTurn
<1> QED
  BY <1>1, <1>2, <1>3, <1>4, <1>5, <1>6, <1>7, <1>8, <1>9, <1>10, <1>11 DEF Inv

LEMMA EndTurnStep ==
    ASSUME Inv, EndTurn
    PROVE  Inv'
<1>1. TypeOK'
  <2>1. loop.modelCalls + 1 \in 0..MaxIterations
    BY DEF Inv, TypeOK, CountInv, InBatch, EndTurn, At, BatchDone
  <2> QED
    BY <2>1 DEF Inv, TypeOK, Stage, EndTurn, BatchDone, At, NextTurn
<1>2. LoopInv'
  BY DEF Inv, LoopInv, EndTurn, BatchDone, At, NextTurn, Asked
<1>3. CountInv'
  BY DEF Inv, CountInv, EndTurn, BatchDone, At, NextTurn, Asked, InTurn, InBatch
<1>4. PlaceInv'
  BY DEF Inv, PlaceInv, EndTurn, BatchDone, NextTurn, Asked
<1>5. StatusInv'
  BY
     DEF Inv, StatusInv, EndTurn, BatchDone, Current, At, NextTurn, Asked, InTurn,
         InBatch, PlaceInv, LoopInv
<1>6. InvokedInv'
  BY DEF Inv, InvokedInv, EndTurn, BatchDone, NextTurn, Asked
<1>7. OutputInv'
  BY DEF Inv, OutputInv, EndTurn, BatchDone, NextTurn, Asked
<1>8. ChoiceInv'
  BY DEF Inv, ChoiceInv, EndTurn, BatchDone, NextTurn, Asked
<1>9. StopInv'
  BY DEF Inv, StopInv, EndTurn, BatchDone, NextTurn, Asked, StopsInTime
<1>10. EndInv'
  BY DEF Inv, EndInv, EndTurn, BatchDone, NextTurn, Asked
<1>11. UnknownIsLast'
  BY DEF Inv, UnknownIsLast, EndTurn, BatchDone, NextTurn, Asked
<1> QED
  BY <1>1, <1>2, <1>3, <1>4, <1>5, <1>6, <1>7, <1>8, <1>9, <1>10, <1>11 DEF Inv

LEMMA WaitForUserInputStep ==
    ASSUME Inv, WaitForUserInput
    PROVE  Inv'
<1>1. TypeOK'
  BY DEF Inv, TypeOK, WaitForUserInput, BatchDone, At, Asked, Stage
<1>2. LoopInv'
  BY DEF Inv, LoopInv, WaitForUserInput, BatchDone, Asked
<1>3. CountInv'
  BY DEF Inv, TypeOK, CountInv, WaitForUserInput, BatchDone, At, Asked, InTurn, InBatch
<1>4. PlaceInv'
  BY DEF Inv, PlaceInv, WaitForUserInput, BatchDone, Asked
<1>5. StatusInv'
  BY
     DEF Inv, TypeOK, StatusInv, WaitForUserInput, BatchDone, Current, At, Asked,
         InTurn, InBatch
<1>6. InvokedInv'
  BY DEF Inv, InvokedInv, WaitForUserInput, BatchDone, Asked
<1>7. OutputInv'
  BY DEF Inv, OutputInv, WaitForUserInput, BatchDone, Asked
<1>8. ChoiceInv'
  BY DEF Inv, ChoiceInv, WaitForUserInput, BatchDone, Asked
<1>9. StopInv'
  BY DEF Inv, StopInv, WaitForUserInput, BatchDone, Asked, StopsInTime
<1>10. EndInv'
  BY DEF Inv, EndInv, WaitForUserInput, BatchDone, Asked
<1>11. UnknownIsLast'
  BY DEF Inv, UnknownIsLast, WaitForUserInput, BatchDone, Asked
<1> QED
  BY <1>1, <1>2, <1>3, <1>4, <1>5, <1>6, <1>7, <1>8, <1>9, <1>10, <1>11 DEF Inv

LEMMA InvokeToolStep ==
    ASSUME Inv, InvokeTool
    PROVE  Inv'
<1>1. TypeOK'
  BY DEF Inv, TypeOK, InvokeTool, At, Current, Saturated, Stage, LoopInv, PlaceInv
<1>2. LoopInv'
  BY DEF Inv, LoopInv, InvokeTool, At
<1>3. CountInv'
  BY DEF Inv, CountInv, InvokeTool, At, InTurn, InBatch
<1>4. PlaceInv'
  BY DEF Inv, PlaceInv, InvokeTool, At
<1>5. StatusInv'
  BY DEF Inv, StatusInv, InvokeTool, At, InTurn, InBatch
<1>6. InvokedInv'
  BY LimitsAssumption
     DEF Inv, TypeOK, InvokedInv, InvokeTool, At, Current, Saturated, CountInv,
         PlaceInv, InTurn, InBatch
<1>7. OutputInv'
  BY DEF Inv, OutputInv, InvokeTool
<1>8. ChoiceInv'
  BY DEF Inv, ChoiceInv, InvokeTool
<1>9. StopInv'
  BY DEF Inv, StopInv, InvokeTool, At, Current, Saturated, StopsInTime
<1>10. EndInv'
  BY DEF Inv, TypeOK, EndInv, InvokeTool, At
<1>11. UnknownIsLast'
  BY LimitsAssumption
     DEF Inv, UnknownIsLast, InvokeTool, At, Current, Saturated, StatusInv, InTurn,
         InBatch, InvokedInv, PlaceInv, LoopInv
<1> QED
  BY <1>1, <1>2, <1>3, <1>4, <1>5, <1>6, <1>7, <1>8, <1>9, <1>10, <1>11 DEF Inv

LEMMA AbandonStep ==
    ASSUME Inv, status = "running", Abandon
    PROVE  Inv'
<1>1. TypeOK'
  BY DEF Inv, TypeOK, Abandon, Stage
<1>2. LoopInv'
  BY DEF Inv, LoopInv, Abandon
<1>3. CountInv'
  BY DEF Inv, CountInv, Abandon, InTurn, InBatch
<1>4. PlaceInv'
  BY DEF Inv, PlaceInv, Abandon
<1>5. StatusInv'
  BY DEF Inv, StatusInv, Abandon, InTurn, InBatch
<1>6. InvokedInv'
  BY DEF Inv, InvokedInv, Abandon
<1>7. OutputInv'
  BY DEF Inv, OutputInv, Abandon
<1>8. ChoiceInv'
  BY DEF Inv, ChoiceInv, Abandon
<1>9. StopInv'
  BY DEF Inv, StopInv, Abandon, StopsInTime
<1>10. EndInv'
  BY DEF Inv, EndInv, Abandon
<1>11. UnknownIsLast'
  BY DEF Inv, UnknownIsLast, Abandon
<1> QED
  BY <1>1, <1>2, <1>3, <1>4, <1>5, <1>6, <1>7, <1>8, <1>9, <1>10, <1>11 DEF Inv

LEMMA StopStep ==
    ASSUME Inv, NEW reason \in {"deadline", "signal"}, Stop(reason)
    PROVE  Inv'
<1>1. TypeOK'
  BY DEF Inv, TypeOK, Stop
<1>2. LoopInv'
  BY DEF Inv, LoopInv, Stop
<1>3. CountInv'
  BY DEF Inv, CountInv, Stop, InTurn, InBatch
<1>4. PlaceInv'
  BY DEF Inv, PlaceInv, Stop
<1>5. StatusInv'
  BY DEF Inv, StatusInv, Stop, InTurn, InBatch
<1>6. InvokedInv'
  BY DEF Inv, InvokedInv, Stop
<1>7. OutputInv'
  BY DEF Inv, OutputInv, Stop
<1>8. ChoiceInv'
  BY DEF Inv, ChoiceInv, Stop
<1>9. StopInv'
  BY DEF Inv, StopInv, Stop, StopsInTime
<1>10. EndInv'
  BY DEF Inv, EndInv, Stop
<1>11. UnknownIsLast'
  BY DEF Inv, UnknownIsLast, Stop
<1> QED
  BY <1>1, <1>2, <1>3, <1>4, <1>5, <1>6, <1>7, <1>8, <1>9, <1>10, <1>11 DEF Inv

LEMMA StartToolStep ==
    ASSUME Inv, StartTool
    PROVE  Inv'
<1>c. Current \in DOMAIN calls /\ "executing" \in Open \cup Settled
  BY DEF StartTool, Calling, Open, Settled
<1>0. /\ calls' \in Seq(Call) /\ Len(calls') = Len(calls)
      /\ DOMAIN calls' = DOMAIN calls /\ DOMAIN calls = 1..Len(calls)
      /\ \A i \in DOMAIN calls : SameChoice(i)
      /\ \A i \in DOMAIN calls :
            calls'[i].status = IF i = Current THEN "executing" ELSE calls[i].status
  BY <1>c, BecomesEffect DEF Inv, StartTool
<1>1. TypeOK'
  BY <1>0 DEF Inv, TypeOK, StartTool, Calling, At, Preflight, Stage
<1>2. LoopInv'
  BY <1>0 DEF Inv, LoopInv, StartTool, Calling, At, Preflight
<1>3. CountInv'
  BY <1>0 DEF Inv, CountInv, StartTool, Calling, At, Preflight, InTurn, InBatch
<1>4. PlaceInv'
  BY <1>0 DEF Inv, PlaceInv, StartTool, Calling, Current, Preflight, SameChoice
<1>5. StatusInv'
  BY <1>0
     DEF Inv, StatusInv, StartTool, Calling, At, Current, Preflight, SameChoice,
         InTurn, InBatch
<1>6. InvokedInv'
  BY <1>0 DEF Inv, InvokedInv, StartTool, Calling, At, Preflight
<1>7. OutputInv'
  BY <1>0 DEF Inv, OutputInv, StartTool, Calling, Current, Preflight, SameChoice
<1>8. ChoiceInv'
  BY <1>0, LimitsAssumption
     DEF Inv, ChoiceInv, StartTool, Calling, At, Current, Preflight, SameChoice,
         StatusInv, InTurn
<1>9. StopInv'
  BY <1>0 DEF Inv, StopInv, StartTool, Calling, Preflight, StopsInTime
<1>10. EndInv'
  BY <1>0 DEF Inv, TypeOK, EndInv, StartTool, Calling, At, Preflight
<1>11. UnknownIsLast'
  BY <1>0 DEF Inv, UnknownIsLast, StartTool, Calling, Preflight
<1> QED
  BY <1>1, <1>2, <1>3, <1>4, <1>5, <1>6, <1>7, <1>8, <1>9, <1>10, <1>11 DEF Inv

LEMMA RefuseToolStep ==
    ASSUME Inv, RefuseTool
    PROVE  Inv'
<1>c. Current \in DOMAIN calls /\ "done" \in Open \cup Settled
  BY DEF Inv, PlaceInv, RefuseTool, At, Current, Open, Settled
<1>0. /\ calls' \in Seq(Call) /\ Len(calls') = Len(calls)
      /\ DOMAIN calls' = DOMAIN calls /\ DOMAIN calls = 1..Len(calls)
      /\ \A i \in DOMAIN calls : SameChoice(i)
      /\ \A i \in DOMAIN calls :
            calls'[i].status = IF i = Current THEN "done" ELSE calls[i].status
  BY <1>c, BecomesEffect DEF Inv, RefuseTool
<1>1. TypeOK'
  <2>1. loop' \in [at : Stage, modelCalls : 0..MaxIterations,
                  toolCalls : 0..MaxToolCalls, input : SUBSET Nat, next : Nat]
    <3>1. loop \in [at : Stage, modelCalls : 0..MaxIterations,
                    toolCalls : 0..MaxToolCalls, input : SUBSET Nat, next : Nat]
      BY DEF Inv, TypeOK
    <3>2. loop' = [at |-> "calling", modelCalls |-> loop.modelCalls,
                   toolCalls |-> loop.toolCalls, input |-> loop.input,
                   next |-> loop.next + 1]
      BY <3>1 DEF RefuseTool, Proceeds
    <3>3. loop.next + 1 \in Nat
      BY <3>1
    <3> QED
      BY <3>1, <3>2, <3>3 DEF Stage
  <2> QED
    BY <1>0, <2>1 DEF Inv, TypeOK, RefuseTool
<1>2. LoopInv'
  BY <1>0 DEF Inv, LoopInv, RefuseTool, At, Proceeds
<1>3. CountInv'
  BY <1>0 DEF Inv, CountInv, RefuseTool, At, Proceeds, InTurn, InBatch
<1>4. PlaceInv'
  BY <1>0 DEF Inv, PlaceInv, RefuseTool, At, Proceeds
<1>5. StatusInv'
  <2>1. loop'.at = "calling" /\ loop'.next = loop.next + 1 /\ status' = status
    BY DEF Inv, RefuseTool, Proceeds
  <2>2. status = "running" /\ loop.at \in {"started", "tool"} /\ loop.next \in 1..Len(calls)
    BY DEF Inv, PlaceInv, RefuseTool, At
  <2>3. \A i \in DOMAIN calls :
            /\ i < loop.next => calls[i].status \in {"done", "asked"}
            /\ i > loop.next => calls[i].status = "pending"
    BY <2>2 DEF Inv, StatusInv, InBatch
  <2>4. \A i \in DOMAIN calls :
            /\ i < loop.next + 1 => calls'[i].status \in {"done", "asked"}
            /\ i >= loop.next + 1 => calls'[i].status = "pending"
    BY <1>0, <2>2, <2>3 DEF Current
  <2> QED
    BY <1>0, <2>1, <2>2, <2>4 DEF StatusInv, InTurn, InBatch
<1>6. InvokedInv'
  BY <1>0 DEF Inv, TypeOK, InvokedInv, RefuseTool, At, Proceeds
<1>7. OutputInv'
  BY <1>0 DEF Inv, OutputInv, RefuseTool, Proceeds, Current, SameChoice
<1>8. ChoiceInv'
  <2>1. loop'.at = "calling"
    BY DEF Inv, RefuseTool, Proceeds
  <2>2. \A i \in DOMAIN calls : \A j \in 1..(i - 1) : j \in DOMAIN calls
    BY <1>0 DEF Inv
  <2> QED
    BY <1>0, <2>1, <2>2 DEF Inv, ChoiceInv, SameChoice
<1>9. StopInv'
  BY <1>0 DEF Inv, StopInv, RefuseTool, Proceeds, StopsInTime
<1>10. EndInv'
  BY <1>0 DEF Inv, TypeOK, EndInv, RefuseTool, At, Proceeds
<1>11. UnknownIsLast'
  BY <1>0 DEF Inv, UnknownIsLast, RefuseTool, Proceeds
<1> QED
  BY <1>1, <1>2, <1>3, <1>4, <1>5, <1>6, <1>7, <1>8, <1>9, <1>10, <1>11 DEF Inv

LEMMA ToolReturnsStep ==
    ASSUME Inv, ToolReturns
    PROVE  Inv'
<1>c. Current \in DOMAIN calls /\ "done" \in Open \cup Settled
  BY DEF Inv, PlaceInv, ToolReturns, At, Current, Open, Settled
<1>0. /\ calls' \in Seq(Call) /\ Len(calls') = Len(calls)
      /\ DOMAIN calls' = DOMAIN calls /\ DOMAIN calls = 1..Len(calls)
      /\ \A i \in DOMAIN calls : SameChoice(i)
      /\ \A i \in DOMAIN calls :
            calls'[i].status = IF i = Current THEN "done" ELSE calls[i].status
  BY <1>c, BecomesEffect DEF Inv, ToolReturns
<1>1. TypeOK'
  <2>1. loop' \in [at : Stage, modelCalls : 0..MaxIterations,
                  toolCalls : 0..MaxToolCalls, input : SUBSET Nat, next : Nat]
    <3>1. loop \in [at : Stage, modelCalls : 0..MaxIterations,
                    toolCalls : 0..MaxToolCalls, input : SUBSET Nat, next : Nat]
      BY DEF Inv, TypeOK
    <3>2. loop' = [at |-> "calling", modelCalls |-> loop.modelCalls,
                   toolCalls |-> loop.toolCalls, input |-> loop.input,
                   next |-> loop.next + 1]
      BY <3>1 DEF ToolReturns, Proceeds
    <3>3. loop.next + 1 \in Nat
      BY <3>1
    <3> QED
      BY <3>1, <3>2, <3>3 DEF Stage
  <2> QED
    BY <1>0, <2>1 DEF Inv, TypeOK, ToolReturns
<1>2. LoopInv'
  BY <1>0 DEF Inv, LoopInv, ToolReturns, At, Proceeds
<1>3. CountInv'
  BY <1>0 DEF Inv, CountInv, ToolReturns, At, Proceeds, InTurn, InBatch
<1>4. PlaceInv'
  BY <1>0 DEF Inv, PlaceInv, ToolReturns, At, Proceeds
<1>5. StatusInv'
  <2>1. loop'.at = "calling" /\ loop'.next = loop.next + 1 /\ status' = status
    BY DEF Inv, ToolReturns, Proceeds
  <2>2. status = "running" /\ loop.at \in {"started", "tool"} /\ loop.next \in 1..Len(calls)
    BY DEF Inv, PlaceInv, ToolReturns, At
  <2>3. \A i \in DOMAIN calls :
            /\ i < loop.next => calls[i].status \in {"done", "asked"}
            /\ i > loop.next => calls[i].status = "pending"
    BY <2>2 DEF Inv, StatusInv, InBatch
  <2>4. \A i \in DOMAIN calls :
            /\ i < loop.next + 1 => calls'[i].status \in {"done", "asked"}
            /\ i >= loop.next + 1 => calls'[i].status = "pending"
    BY <1>0, <2>2, <2>3 DEF Current
  <2> QED
    BY <1>0, <2>1, <2>2, <2>4 DEF StatusInv, InTurn, InBatch
<1>6. InvokedInv'
  BY <1>0 DEF Inv, TypeOK, InvokedInv, ToolReturns, At, Proceeds
<1>7. OutputInv'
  BY <1>0 DEF Inv, OutputInv, ToolReturns, Proceeds, Current, SameChoice
<1>8. ChoiceInv'
  <2>1. loop'.at = "calling"
    BY DEF Inv, ToolReturns, Proceeds
  <2>2. \A i \in DOMAIN calls : \A j \in 1..(i - 1) : j \in DOMAIN calls
    BY <1>0 DEF Inv
  <2> QED
    BY <1>0, <2>1, <2>2 DEF Inv, ChoiceInv, SameChoice
<1>9. StopInv'
  BY <1>0 DEF Inv, StopInv, ToolReturns, Proceeds, StopsInTime
<1>10. EndInv'
  BY <1>0 DEF Inv, TypeOK, EndInv, ToolReturns, At, Proceeds
<1>11. UnknownIsLast'
  BY <1>0 DEF Inv, UnknownIsLast, ToolReturns, Proceeds
<1> QED
  BY <1>1, <1>2, <1>3, <1>4, <1>5, <1>6, <1>7, <1>8, <1>9, <1>10, <1>11 DEF Inv

LEMMA LoseOutcomeStep ==
    ASSUME Inv, LoseOutcome
    PROVE  Inv'
<1>c. Current \in DOMAIN calls /\ "unknown" \in Open \cup Settled
  BY DEF Inv, PlaceInv, LoseOutcome, At, Current, Open, Settled
<1>0. /\ calls' \in Seq(Call) /\ Len(calls') = Len(calls)
      /\ DOMAIN calls' = DOMAIN calls /\ DOMAIN calls = 1..Len(calls)
      /\ \A i \in DOMAIN calls : SameChoice(i)
      /\ \A i \in DOMAIN calls :
            calls'[i].status = IF i = Current THEN "unknown" ELSE calls[i].status
  BY <1>c, BecomesEffect DEF Inv, ToolLosesOutcome, LoseOutcome
<1>1. TypeOK'
  BY <1>0 DEF Inv, TypeOK, LoseOutcome, At, ToolLosesOutcome, Stage
<1>2. LoopInv'
  BY <1>0 DEF Inv, LoopInv, LoseOutcome, At, ToolLosesOutcome
<1>3. CountInv'
  BY <1>0 DEF Inv, CountInv, LoseOutcome, At, ToolLosesOutcome, InTurn, InBatch
<1>4. PlaceInv'
  BY <1>0 DEF Inv, PlaceInv, LoseOutcome, At, ToolLosesOutcome
<1>5. StatusInv'
  BY <1>0
     DEF Inv, StatusInv, LoseOutcome, At, ToolLosesOutcome, Current, SameChoice,
         InTurn, InBatch
<1>6. InvokedInv'
  BY <1>0 DEF Inv, InvokedInv, LoseOutcome, At, ToolLosesOutcome
<1>7. OutputInv'
  BY <1>0 DEF Inv, OutputInv, LoseOutcome, ToolLosesOutcome, Current, SameChoice
<1>8. ChoiceInv'
  BY <1>0
     DEF Inv, ChoiceInv, LoseOutcome, At, ToolLosesOutcome, Current, SameChoice,
         StatusInv
<1>9. StopInv'
  BY <1>0 DEF Inv, StopInv, LoseOutcome, ToolLosesOutcome, StopsInTime
<1>10. EndInv'
  BY <1>0 DEF Inv, TypeOK, EndInv, LoseOutcome, At, ToolLosesOutcome
<1>11. UnknownIsLast'
  BY <1>0
     DEF Inv, UnknownIsLast, LoseOutcome, At, ToolLosesOutcome, Current, SameChoice,
         StatusInv, InvokedInv
<1> QED
  BY <1>1, <1>2, <1>3, <1>4, <1>5, <1>6, <1>7, <1>8, <1>9, <1>10, <1>11 DEF Inv

LEMMA ToolAsksStep ==
    ASSUME Inv, ToolAsks
    PROVE  Inv'
<1>c. Current \in DOMAIN calls /\ "asked" \in Open \cup Settled
  BY DEF Inv, PlaceInv, ToolAsks, At, Current, Open, Settled
<1>0. /\ calls' \in Seq(Call) /\ Len(calls') = Len(calls)
      /\ DOMAIN calls' = DOMAIN calls /\ DOMAIN calls = 1..Len(calls)
      /\ \A i \in DOMAIN calls : SameChoice(i)
      /\ \A i \in DOMAIN calls :
            calls'[i].status = IF i = Current THEN "asked" ELSE calls[i].status
  BY <1>c, BecomesEffect DEF Inv, ToolAsks
<1>1. TypeOK'
  <2>1. loop' \in [at : Stage, modelCalls : 0..MaxIterations,
                  toolCalls : 0..MaxToolCalls, input : SUBSET Nat, next : Nat]
    <3>1. loop \in [at : Stage, modelCalls : 0..MaxIterations,
                    toolCalls : 0..MaxToolCalls, input : SUBSET Nat, next : Nat]
      BY DEF Inv, TypeOK
    <3>2. loop' = [at |-> "calling", modelCalls |-> loop.modelCalls,
                   toolCalls |-> loop.toolCalls, input |-> loop.input,
                   next |-> loop.next + 1]
      BY <3>1 DEF ToolAsks, Proceeds
    <3>3. loop.next + 1 \in Nat
      BY <3>1
    <3> QED
      BY <3>1, <3>2, <3>3 DEF Stage
  <2> QED
    BY <1>0, <2>1 DEF Inv, TypeOK, ToolAsks
<1>2. LoopInv'
  BY <1>0 DEF Inv, LoopInv, ToolAsks, At, Proceeds
<1>3. CountInv'
  BY <1>0 DEF Inv, CountInv, ToolAsks, At, Proceeds, InTurn, InBatch
<1>4. PlaceInv'
  BY <1>0 DEF Inv, PlaceInv, ToolAsks, At, Proceeds
<1>5. StatusInv'
  <2>1. loop'.at = "calling" /\ loop'.next = loop.next + 1 /\ status' = status
    BY DEF Inv, ToolAsks, Proceeds
  <2>2. status = "running" /\ loop.at \in {"started", "tool"} /\ loop.next \in 1..Len(calls)
    BY DEF Inv, PlaceInv, ToolAsks, At
  <2>3. \A i \in DOMAIN calls :
            /\ i < loop.next => calls[i].status \in {"done", "asked"}
            /\ i > loop.next => calls[i].status = "pending"
    BY <2>2 DEF Inv, StatusInv, InBatch
  <2>4. \A i \in DOMAIN calls :
            /\ i < loop.next + 1 => calls'[i].status \in {"done", "asked"}
            /\ i >= loop.next + 1 => calls'[i].status = "pending"
    BY <1>0, <2>2, <2>3 DEF Current
  <2> QED
    BY <1>0, <2>1, <2>2, <2>4 DEF StatusInv, InTurn, InBatch
<1>6. InvokedInv'
  BY <1>0 DEF Inv, TypeOK, InvokedInv, ToolAsks, At, Proceeds
<1>7. OutputInv'
  BY <1>0 DEF Inv, OutputInv, ToolAsks, Proceeds, Current, SameChoice
<1>8. ChoiceInv'
  <2>1. loop'.at = "calling"
    BY DEF Inv, ToolAsks, Proceeds
  <2>2. \A i \in DOMAIN calls : \A j \in 1..(i - 1) : j \in DOMAIN calls
    BY <1>0 DEF Inv
  <2> QED
    BY <1>0, <2>1, <2>2 DEF Inv, ChoiceInv, SameChoice
<1>9. StopInv'
  BY <1>0 DEF Inv, StopInv, ToolAsks, Proceeds, StopsInTime
<1>10. EndInv'
  BY <1>0 DEF Inv, TypeOK, EndInv, ToolAsks, At, Proceeds
<1>11. UnknownIsLast'
  BY <1>0 DEF Inv, UnknownIsLast, ToolAsks, Proceeds
<1> QED
  BY <1>1, <1>2, <1>3, <1>4, <1>5, <1>6, <1>7, <1>8, <1>9, <1>10, <1>11 DEF Inv

LEMMA EndTaskStep ==
    ASSUME Inv, status = "running", NEW reason \in Reason, EndTask(reason),
           reason = "max_iterations" => reactCalls = MaxIterations,
           reason = "max_tool_calls" => loop.at = "overspent"
    PROVE  Inv'
<1>0. /\ calls' \in Seq(Call) /\ Len(calls') = Len(calls)
      /\ DOMAIN calls' = DOMAIN calls /\ DOMAIN calls = 1..Len(calls)
      /\ \A i \in DOMAIN calls : SameChoice(i)
      /\ \A i \in DOMAIN calls : calls'[i].status = "unknown" => calls[i].status = "unknown"
  BY EndTaskEffect DEF Inv
<1>c. /\ status' = "over" /\ end' = reason /\ loop' = [loop EXCEPT !.at = "gone"]
      /\ UNCHANGED <<reactCalls, compacting, stop, invoked, afterStop>>
  BY DEF EndTask
<1>g. loop'.at = "gone"
  BY <1>c DEF Inv, TypeOK
<1>1. TypeOK'
  BY <1>0, <1>c DEF Inv, TypeOK, Stage, Reason
<1>2. LoopInv'
  BY <1>g DEF LoopInv
<1>3. CountInv'
  BY <1>c, <1>g DEF Inv, CountInv, InTurn, InBatch
<1>4. PlaceInv'
  BY <1>g DEF PlaceInv
<1>5. StatusInv'
  BY <1>c, <1>g DEF StatusInv, InTurn, InBatch
<1>6. InvokedInv'
  BY <1>c, <1>g DEF Inv, InvokedInv
<1>7. OutputInv'
  BY <1>0, <1>c, <1>g DEF Inv, OutputInv, SameChoice
<1>8. ChoiceInv'
  <2>1. \A i \in DOMAIN calls : \A j \in 1..(i - 1) : j \in DOMAIN calls
    BY <1>0 DEF Inv, TypeOK
  <2> QED
    BY <1>0, <1>g, <2>1 DEF Inv, ChoiceInv, SameChoice
<1>9. StopInv'
  BY <1>c, <1>g DEF Inv, StopInv, StopsInTime
<1>10. EndInv'
  <2>1. CASE reason # "max_tool_calls"
    BY <1>c, <2>1 DEF EndInv
  <2>2. CASE reason = "max_tool_calls"
    <3>1. /\ loop.at = "overspent" /\ loop.next \in 1..Len(calls)
          /\ Len(calls) > MaxToolCalls /\ Len(calls) \in Nat
          /\ \A i \in invoked : i < loop.next /\ i \in DOMAIN calls
      BY <2>2 DEF Inv, TypeOK, PlaceInv, CountInv, InvokedInv
    <3>2. \A i \in invoked : calls[i].output < calls[Len(calls)].output
      BY <1>0, <3>1 DEF Inv, OutputInv
    <3>3. Len(calls) \in DOMAIN calls
      BY <1>0, <3>1
    <3> QED
      BY <1>0, <1>c, <2>2, <3>1, <3>2, <3>3 DEF EndInv, SameChoice
  <2> QED
    BY <2>1, <2>2
<1>11. UnknownIsLast'
  BY <1>0, <1>c DEF Inv, UnknownIsLast
<1> QED
  BY <1>1, <1>2, <1>3, <1>4, <1>5, <1>6, <1>7, <1>8, <1>9, <1>10, <1>11 DEF Inv

(* A run that is stopped before its task is done. *)
LEMMA StoppedStep ==
    ASSUME Inv, status = "running", Stopped
    PROVE  Inv'
<1>1. CASE "signal" \in stop
  BY <1>1, AbandonStep DEF Stopped
<1>2. CASE "signal" \notin stop
  BY <1>2, EndTaskStep DEF Stopped, Reason
<1> QED
  BY <1>1, <1>2

(* The calls of an accepted batch, behind those there are. *)
NewCalls(batch) ==
    [i \in DOMAIN batch |-> [kind |-> batch[i], output |-> reactCalls,
                             input |-> loop.input, status |-> "pending"]]

LEMMA BatchesAreSequences ==
    ASSUME NEW batch \in Batches
    PROVE  /\ batch \in Seq(Kind) /\ Len(batch) \in Nat \ {0}
           /\ DOMAIN batch = 1..Len(batch)
<1>1. PICK m \in 0..MaxBatch : batch \in [1..m -> Kind]
  BY DEF Batches, SeqOf
<1>2. m \in Nat /\ batch \in Seq(Kind) /\ Len(batch) = m /\ DOMAIN batch = 1..m
  BY <1>1, LimitsAssumption
<1>3. batch # <<>>
  BY DEF Batches
<1> QED
  BY <1>2, <1>3

LEMMA SaveBatchEffect ==
    ASSUME TypeOK, NEW batch \in Batches, calls' = calls \o NewCalls(batch)
    PROVE  /\ calls' \in Seq(Call) /\ Len(calls') = Len(calls) + Len(batch)
           /\ DOMAIN calls = 1..Len(calls) /\ DOMAIN calls' = 1..(Len(calls) + Len(batch))
           /\ \A i \in 1..Len(calls) : calls'[i] = calls[i]
           /\ \A i \in (Len(calls) + 1)..(Len(calls) + Len(batch)) :
                /\ i - Len(calls) \in DOMAIN batch
                /\ calls'[i].kind = batch[i - Len(calls)]
                /\ calls'[i].output = reactCalls
                /\ calls'[i].input = loop.input
                /\ calls'[i].status = "pending"
<1>1. /\ calls \in Seq(Call) /\ Len(calls) \in Nat /\ DOMAIN calls = 1..Len(calls)
      /\ reactCalls \in Nat /\ loop.input \in SUBSET Nat
  BY DEF TypeOK
<1>2. batch \in Seq(Kind) /\ Len(batch) \in Nat /\ DOMAIN batch = 1..Len(batch)
  BY BatchesAreSequences
<1>3. NewCalls(batch) \in [1..Len(batch) -> Call]
  <2>1. \A i \in 1..Len(batch) : batch[i] \in Kind
    BY <1>2
  <2> QED
    BY <1>1, <1>2, <2>1 DEF NewCalls, Call, Open
<1>4. NewCalls(batch) \in Seq(Call) /\ Len(NewCalls(batch)) = Len(batch)
  BY <1>2, <1>3, CallsAreTyped
<1>5. /\ calls' \in Seq(Call) /\ Len(calls') = Len(calls) + Len(batch)
      /\ \A i \in 1..Len(calls) : calls'[i] = calls[i]
      /\ \A i \in (Len(calls) + 1)..(Len(calls) + Len(batch)) :
            calls'[i] = NewCalls(batch)[i - Len(calls)]
  <2>1. /\ calls' \in Seq(Call) /\ Len(calls') = Len(calls) + Len(NewCalls(batch))
        /\ \A i \in 1..(Len(calls) + Len(NewCalls(batch))) :
             calls'[i] = IF i <= Len(calls) THEN calls[i] ELSE NewCalls(batch)[i - Len(calls)]
    BY <1>1, <1>4, ConcatProperties
  <2> QED
    BY <1>1, <1>2, <1>4, <2>1
<1>6. \A i \in (Len(calls) + 1)..(Len(calls) + Len(batch)) : i - Len(calls) \in DOMAIN batch
  BY <1>1, <1>2
<1> QED
  BY <1>1, <1>2, <1>5, <1>6 DEF NewCalls

LEMMA SaveBatchStep ==
    ASSUME Inv, SaveBatch
    PROVE  Inv'
<1>1. PICK batch \in Batches :
        /\ Accepts(batch)
        /\ calls' = calls \o NewCalls(batch)
        /\ loop' = [loop EXCEPT
               !.at = IF Exceeds(batch) THEN "overspent" ELSE "calling",
               !.toolCalls = IF Exceeds(batch) THEN @ ELSE @ + Len(batch),
               !.next = Len(calls) + 1]
  BY DEF SaveBatch, NewCalls
<1>2. /\ status = "running" /\ loop.at = "model"
      /\ UNCHANGED <<status, reactCalls, compacting, stop, end, invoked, afterStop>>
  BY DEF SaveBatch, At
<1>3. /\ calls' \in Seq(Call) /\ Len(calls') = Len(calls) + Len(batch)
      /\ DOMAIN calls = 1..Len(calls) /\ DOMAIN calls' = 1..(Len(calls) + Len(batch))
      /\ \A i \in 1..Len(calls) : calls'[i] = calls[i]
      /\ \A i \in (Len(calls) + 1)..(Len(calls) + Len(batch)) :
            /\ i - Len(calls) \in DOMAIN batch
            /\ calls'[i].kind = batch[i - Len(calls)]
            /\ calls'[i].output = reactCalls
            /\ calls'[i].input = loop.input
            /\ calls'[i].status = "pending"
  BY <1>1, SaveBatchEffect DEF Inv
<1>4. /\ batch \in Seq(Kind) /\ Len(batch) \in Nat \ {0} /\ DOMAIN batch = 1..Len(batch)
      /\ Len(calls) \in Nat
  BY BatchesAreSequences DEF Inv, TypeOK
<1>5. /\ reactCalls = loop.modelCalls + 1 /\ Len(calls) = loop.toolCalls
      /\ \A i \in DOMAIN calls : calls[i].status = "done" /\ calls[i].output < reactCalls
      /\ loop.input = DOMAIN calls
      /\ invoked \subseteq DOMAIN calls /\ end = "none"
  BY <1>2 DEF Inv, TypeOK, CountInv, StatusInv, OutputInv, ChoiceInv, InTurn, InBatch
<1>6. /\ loop'.at \in {"overspent", "calling"} /\ loop'.next = Len(calls) + 1
      /\ loop'.modelCalls = loop.modelCalls
      /\ loop'.at = "overspent" => Len(calls') > MaxToolCalls
      /\ loop'.at = "calling" => loop'.toolCalls = Len(calls')
      /\ loop' \in [at : Stage, modelCalls : 0..MaxIterations, toolCalls : 0..MaxToolCalls,
                    input : SUBSET Nat, next : Nat]
  <2>1. loop \in [at : Stage, modelCalls : 0..MaxIterations, toolCalls : 0..MaxToolCalls,
                  input : SUBSET Nat, next : Nat]
    BY DEF Inv, TypeOK
  <2>2. CASE Exceeds(batch)
    <3>1. loop' = [at |-> "overspent", modelCalls |-> loop.modelCalls,
                   toolCalls |-> loop.toolCalls, input |-> loop.input,
                   next |-> Len(calls) + 1]
      BY <1>1, <2>1, <2>2
    <3> QED
      BY <1>3, <1>4, <1>5, <2>1, <2>2, <3>1, LimitsAssumption DEF Exceeds, Stage
  <2>3. CASE ~Exceeds(batch)
    <3>1. loop' = [at |-> "calling", modelCalls |-> loop.modelCalls,
                   toolCalls |-> loop.toolCalls + Len(batch), input |-> loop.input,
                   next |-> Len(calls) + 1]
      BY <1>1, <2>1, <2>3
    <3>2. loop.toolCalls + Len(batch) \in 0..MaxToolCalls
      BY <1>4, <2>1, <2>3, LimitsAssumption DEF Exceeds
    <3> QED
      BY <1>3, <1>4, <1>5, <2>1, <3>1, <3>2 DEF Stage
  <2> QED
    BY <2>2, <2>3
<1>7. TypeOK'
  BY <1>2, <1>3, <1>4, <1>5, <1>6 DEF Inv, TypeOK
<1>8. LoopInv'
  BY <1>2 DEF LoopInv
<1>9. CountInv'
  BY <1>2, <1>5, <1>6 DEF Inv, CountInv, InTurn, InBatch
<1>10. PlaceInv'
  BY <1>3, <1>4, <1>6 DEF PlaceInv
<1>11. StatusInv'
  <2>1. \A i \in DOMAIN calls' :
            /\ i < Len(calls) + 1 => calls'[i].status = "done"
            /\ i >= Len(calls) + 1 => calls'[i].status = "pending"
    BY <1>3, <1>4, <1>5
  <2> QED
    BY <1>2, <1>3, <1>4, <1>6, <2>1 DEF StatusInv, InTurn, InBatch
<1>12. InvokedInv'
  BY <1>2, <1>3, <1>4, <1>5, <1>6 DEF Inv, InvokedInv
<1>13. OutputInv'
  <2>1. \A i \in DOMAIN calls' :
            IF i < Len(calls) + 1 THEN calls'[i].output < reactCalls
                                  ELSE calls'[i].output = reactCalls
    BY <1>3, <1>4, <1>5
  <2>2. \A i \in DOMAIN calls' : calls'[i].output \in Nat
    <3>1. \A i \in DOMAIN calls' : calls'[i] \in Call
      BY <1>3
    <3> QED
      BY <3>1 DEF Call
  <2> QED
    BY <1>2, <1>6, <2>1, <2>2 DEF Inv, TypeOK, OutputInv
<1>14. ChoiceInv'
  <2>1. SUFFICES ASSUME NEW i \in DOMAIN calls', NEW j \in 1..(i - 1)
                 PROVE  \/ j \in calls'[i].input
                        \/ /\ calls'[i].output = calls'[j].output
                           /\ calls'[i].kind # "exclusive"
                           /\ calls'[i].kind = "write" => calls'[j].kind = "write"
    BY <1>6 DEF ChoiceInv
  <2>2. i \in Nat /\ j \in Nat /\ 1 <= j /\ j < i /\ i <= Len(calls) + Len(batch)
    BY <1>3, <1>4
  <2>3. CASE i <= Len(calls)
    <3>1. i \in DOMAIN calls /\ calls'[i] = calls[i] /\ calls'[j] = calls[j]
      BY <1>3, <1>4, <2>2, <2>3
    <3> QED
      BY <3>1 DEF Inv, ChoiceInv
  <2>4. CASE j <= Len(calls) /\ i > Len(calls)
    <3>1. calls'[i].input = DOMAIN calls /\ j \in DOMAIN calls
      BY <1>3, <1>4, <1>5, <2>2, <2>4
    <3> QED
      BY <3>1
  <2>5. CASE j > Len(calls)
    <3>1. /\ i - Len(calls) \in DOMAIN batch /\ j - Len(calls) \in DOMAIN batch
          /\ calls'[i].kind = batch[i - Len(calls)] /\ calls'[i].output = reactCalls
          /\ calls'[j].kind = batch[j - Len(calls)] /\ calls'[j].output = reactCalls
          /\ Len(batch) # 1
      BY <1>3, <1>4, <2>2, <2>5
    <3>2. calls'[i].kind \in ToSet(batch) /\ calls'[j].kind \in ToSet(batch)
      BY <3>1 DEF ToSet
    <3> QED
      BY <1>1, <3>1, <3>2 DEF Accepts
  <2> QED
    BY <1>4, <2>2, <2>3, <2>4, <2>5
<1>15. StopInv'
  BY <1>2, <1>6 DEF Inv, StopInv, StopsInTime
<1>16. EndInv'
  BY <1>2, <1>5 DEF EndInv
<1>17. UnknownIsLast'
  BY <1>3, <1>4, <1>5 DEF UnknownIsLast
<1> QED
  BY <1>7, <1>8, <1>9, <1>10, <1>11, <1>12, <1>13, <1>14, <1>15, <1>16, <1>17 DEF Inv

LEMMA AnswerUserInputStep ==
    ASSUME Inv, AnswerUserInput
    PROVE  Inv'
<1>1. /\ calls \in Seq(Call) /\ DOMAIN calls = 1..Len(calls) /\ Len(calls) \in 0..MaxToolCalls
      /\ reactCalls \in 0..MaxIterations /\ end = "none"
      /\ \A i \in DOMAIN calls : calls[i].status \in {"done", "asked"}
  BY LimitsAssumption DEF Inv, TypeOK, CountInv, StatusInv, AnswerUserInput
<1>2. \A i \in DOMAIN calls : calls[i] \in Call
  BY <1>1
<1>3. \A i \in DOMAIN calls : [calls[i] EXCEPT !.status = "done"] \in Call
  BY <1>2 DEF Call, Settled
<1>4. /\ calls' \in [1..Len(calls) -> Call]
      /\ \A i \in DOMAIN calls :
            calls'[i] = IF i \in Asked THEN [calls[i] EXCEPT !.status = "done"] ELSE calls[i]
  BY <1>1, <1>2, <1>3 DEF AnswerUserInput
<1>5. calls' \in Seq(Call) /\ Len(calls') = Len(calls) /\ DOMAIN calls' = 1..Len(calls)
  BY <1>1, <1>4, CallsAreTyped
<1>6. \A i \in DOMAIN calls : SameChoice(i) /\ calls'[i].status = "done"
  BY <1>1, <1>2, <1>4 DEF SameChoice, Call, Asked
<1>7. /\ status' = "running" /\ stop' = {} /\ afterStop' = 0
      /\ UNCHANGED <<reactCalls, compacting, end, invoked>>
      /\ loop' = [at |-> "turn", modelCalls |-> reactCalls, toolCalls |-> Len(calls),
                  input |-> {}, next |-> 0]
  BY DEF AnswerUserInput, NewLoop, Progress
<1>8. TypeOK'
  BY <1>1, <1>5, <1>7 DEF Inv, TypeOK, Stage
<1>9. LoopInv'
  BY <1>7 DEF LoopInv
<1>10. CountInv'
  BY <1>1, <1>5, <1>7 DEF CountInv, InTurn, InBatch
<1>11. PlaceInv'
  BY <1>7 DEF PlaceInv
<1>12. StatusInv'
  BY <1>1, <1>5, <1>6, <1>7 DEF StatusInv, InTurn, InBatch
<1>13. InvokedInv'
  BY <1>7 DEF Inv, InvokedInv
<1>14. OutputInv'
  BY <1>1, <1>5, <1>6, <1>7 DEF Inv, OutputInv, SameChoice
<1>15. ChoiceInv'
  <2>1. \A i \in DOMAIN calls : \A j \in 1..(i - 1) : j \in DOMAIN calls
    BY <1>1
  <2> QED
    BY <1>1, <1>5, <1>6, <1>7, <2>1 DEF Inv, ChoiceInv, SameChoice
<1>16. StopInv'
  BY <1>7 DEF StopInv, StopsInTime
<1>17. EndInv'
  BY <1>1, <1>7 DEF EndInv
<1>18. UnknownIsLast'
  BY <1>1, <1>5, <1>6 DEF UnknownIsLast
<1> QED
  BY <1>8, <1>9, <1>10, <1>11, <1>12, <1>13, <1>14, <1>15, <1>16, <1>17, <1>18 DEF Inv

-----------------------------------------------------------------------------
LEMMA InitInv == ASSUME Init PROVE Inv
<1>1. TypeOK
  BY LimitsAssumption DEF Init, TypeOK, Stage
<1>2. LoopInv /\ CountInv /\ PlaceInv /\ StatusInv
  BY LimitsAssumption DEF Init, LoopInv, CountInv, PlaceInv, StatusInv, InTurn, InBatch
<1>3. InvokedInv /\ OutputInv /\ ChoiceInv
  BY DEF Init, InvokedInv, OutputInv, ChoiceInv
<1>4. StopInv /\ EndInv /\ UnknownIsLast
  BY DEF Init, StopInv, StopsInTime, EndInv, UnknownIsLast
<1> QED
  BY <1>1, <1>2, <1>3, <1>4 DEF Inv

(* The steps that end the task or the run. *)
LEMMA EndingStep ==
    ASSUME Inv,
           \/ OutOfTurns \/ LoadFails \/ ModelFails \/ FinalAnswer \/ StopsInTurn
           \/ Overspent \/ StopsBeforeTool \/ StopTask \/ ToolAborts
    PROVE  Inv'
<1>1. CASE OutOfTurns
  <2>1. reactCalls = MaxIterations
    BY <1>1, LimitsAssumption DEF OutOfTurns, At, Inv, TypeOK, CountInv
  <2> QED
    BY <1>1, <2>1, EndTaskStep DEF OutOfTurns, At, Reason
<1>2. CASE LoadFails
  BY <1>2, EndTaskStep DEF LoadFails, At, Reason
<1>3. CASE ModelFails
  BY <1>3, EndTaskStep DEF ModelFails, At, Reason
<1>4. CASE FinalAnswer
  BY <1>4, EndTaskStep DEF FinalAnswer, At, Reason
<1>5. CASE StopsInTurn
  BY <1>5, StoppedStep DEF StopsInTurn, At
<1>6. CASE Overspent
  BY <1>6, EndTaskStep DEF Overspent, At, Reason
<1>7. CASE StopsBeforeTool
  BY <1>7, StoppedStep DEF StopsBeforeTool, Calling, At
<1>8. CASE StopTask
  BY <1>8, EndTaskStep DEF StopTask, At, Reason
<1>9. CASE ToolAborts
  BY <1>9, AbandonStep DEF ToolAborts, At
<1> QED
  BY <1>1, <1>2, <1>3, <1>4, <1>5, <1>6, <1>7, <1>8, <1>9

LEMMA NextInv == Inv /\ [Next]_vars => Inv'
<1> SUFFICES ASSUME Inv, [Next]_vars PROVE Inv'
  OBVIOUS
<1>1. CASE \/ OutOfTurns \/ LoadFails \/ ModelFails \/ FinalAnswer \/ StopsInTurn
           \/ Overspent \/ StopsBeforeTool \/ StopTask \/ ToolAborts
  BY <1>1, EndingStep
<1>2. CASE LoadMessages \/ CallModel \/ RejectBatch \/ SaveBatch
  BY <1>2, LoadMessagesStep, CallModelStep, RejectBatchStep, SaveBatchStep
<1>3. CASE StartTool \/ RefuseTool \/ InvokeTool \/ ToolReturns \/ LoseOutcome \/ ToolAsks
  BY <1>3, StartToolStep, RefuseToolStep, InvokeToolStep, ToolReturnsStep,
     LoseOutcomeStep, ToolAsksStep
<1>4. CASE EndTurn \/ WaitForUserInput \/ AnswerUserInput
  BY <1>4, EndTurnStep, WaitForUserInputStep, AnswerUserInputStep
<1>5. CASE \E reason \in {"deadline", "signal"} : Stop(reason)
  BY <1>5, StopStep
<1>6. CASE UNCHANGED vars
  BY <1>6 DEF vars, Inv, TypeOK, LoopInv, CountInv, PlaceInv, StatusInv, InvokedInv,
     OutputInv, ChoiceInv, StopInv, StopsInTime, EndInv, UnknownIsLast, InTurn, InBatch
<1> QED
  BY <1>1, <1>2, <1>3, <1>4, <1>5, <1>6 DEF Next, Loop

(* The inductive invariant of a task over all its runs. *)
THEOREM TurnsInvariance == Spec => []Inv
<1>1. Init => Inv
  BY InitInv
<1> QED
  BY <1>1, NextInv, PTL DEF Spec

(* The rows, the loop and the calls keep to their types. *)
THEOREM TurnsTypeCorrect == Spec => []TypeOK
<1>1. Inv => TypeOK
  BY DEF Inv
<1> QED
  BY <1>1, TurnsInvariance, PTL

(* Whatever the limits are, they hold over all runs of the task, and a     *)
(* task fails for a limit only when it has used it up.                     *)
THEOREM BudgetsHold == Spec => []BudgetsAreKept
<1>1. Inv => BudgetsAreKept
  <2> SUFFICES ASSUME Inv PROVE BudgetsAreKept
    OBVIOUS
  <2>1. IsFiniteSet(1..MaxToolCalls) /\ Cardinality(1..MaxToolCalls) = MaxToolCalls
    BY FS_Interval, LimitsAssumption
  <2>2. Cardinality(invoked) <= MaxToolCalls
    BY <2>1, FS_Subset DEF Inv, InvokedInv
  <2> QED
    BY <2>2 DEF Inv, CountInv, EndInv, BudgetsAreKept
<1> QED
  BY <1>1, TurnsInvariance, PTL

(* No tool that writes, or is exclusive, is invoked for a call the model   *)
(* made without the results of the calls before it.                        *)
THEOREM ChoicesKnowTheirResults == Spec => []ChoicesAreInformed
<1>1. Inv => ChoicesAreInformed
  BY DEF Inv, TypeOK, ChoiceInv, ChoicesAreInformed
<1> QED
  BY <1>1, TurnsInvariance, PTL

(* After its deadline or its signal a run invokes at most one tool. *)
THEOREM RunsStopInTime == Spec => []StopsInTime
<1>1. Inv => StopsInTime
  BY DEF Inv, StopInv
<1> QED
  BY <1>1, TurnsInvariance, PTL

(* Nothing is invoked after a side effect whose outcome is unknown. *)
THEOREM NothingFollowsUnknown == Spec => []UnknownIsLast
<1>1. Inv => UnknownIsLast
  BY DEF Inv
<1> QED
  BY <1>1, TurnsInvariance, PTL
=============================================================================
