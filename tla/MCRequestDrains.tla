-------------------------- MODULE MCRequestDrains --------------------------
(***************************************************************************)
(* RequestDependency with a host that makes a few calls and then falls     *)
(* silent.  The loop of SyncReleaseEraseReq needs a long history: a write  *)
(* that waits for its buffer, a flush whose collection erases behind it    *)
(* and, before that erase is released, a read of the same block.  Script   *)
(* is the order of the calls; buffers, pages, collections and everything   *)
(* the hardware does stay free.                                            *)
(***************************************************************************)
EXTENDS RequestDependency

CONSTANT Script         \* for each call of the host what it may be
VARIABLE sent           \* calls made so far

scriptVars == <<vars, sent>>

\* A command of k slices, or a flush.
Write(k) == <<"rx", k>>
Read(k)  == <<"tx", k>>
Flush    == <<"flush", 0>>

WaitingScript ==
    <<{Write(1), Write(2)}, {Write(1), Read(1)}, {Flush}, {Write(1), Read(1)}, {Write(1), Read(1)}>>

ScriptedHost ==
    /\ sent < Len(Script)
    /\ sent' = sent + 1
    /\ \E call \in Script[sent'] :
          IF call = Flush THEN StartFlush ELSE StartCommand(call[2])

ScriptedTransform ==
    /\ sent > 0
    /\ \E b \in Bufs, call \in Script[sent] \ {Flush} :
          BufferHit(b, call[1]) \/ BufferMiss(b, call[1])

\* Free entries are interchangeable: taking the lowest loses nothing.
TakesLowest ==
    \A s, t \in Slots : queue[s] = "free" /\ queue[t] = "free" /\ queue'[s] # "free" => s <= t

ScriptedNext ==
    \/ ScriptedHost
    \/ /\ \/ Split \/ ScriptedTransform \/ FlushDataBuf \/ Create \/ Select
          \/ Scheduler \/ Engine \/ \E d \in Dies : NandDone(d)
       /\ TakesLowest
       /\ UNCHANGED sent

ScriptedSpec == Init /\ sent = 0 /\ [][ScriptedNext]_scriptVars /\ Fairness
=============================================================================
