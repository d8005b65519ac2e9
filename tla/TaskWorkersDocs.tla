--------------------------- MODULE TaskWorkersDocs ---------------------------
(***************************************************************************)
(* What a test of the loop says of malformed calls, against the process    *)
(* and the store together.                                                 *)
(***************************************************************************)
EXTENDS TaskWorkers

(* A call whose arguments do not parse is answered with a failure and the  *)
(* loop goes on (tests/agent-loop.test.ts:374): no execution comes to its  *)
(* end with such a call left as it was stored, and with its run still its  *)
(* own.                                                                    *)
MalformedCallsAreAnswered ==
    \A c \in Malformed :
        /\ callStatus[c] = "pending"
        /\ runStatus[callRun[c]] = "running"
        /\ runExpiry[callRun[c]] > now
        => ~At(callRun[c], "ended")
==============================================================================
