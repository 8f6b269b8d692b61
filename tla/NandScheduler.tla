--------------------------- MODULE NandScheduler ---------------------------
(***************************************************************************)
(* The scheduler of one flash channel.  SchedulingNandReqPerCh passes over *)
(* the ways (dies) of its channel: it takes idle ways that have a request, *)
(* polls the ways whose command is under way, and issues commands in the   *)
(* order of their priority until the controller's command queue is full.   *)
(* A way is always on one of seven lists; the list says what it waits for. *)
(*                                                                         *)
(* A step of the CPU reads the hardware at most once.  The controller and  *)
(* the flash dies move between any two steps.  Of a request only its code  *)
(* matters here; RESET and SET_FEATURE, issued during start-up only, and   *)
(* the marking of bad blocks after a failure are left out.                 *)
(***************************************************************************)
EXTENDS LinkedLists

CONSTANTS
    USER_WAYS,      \* dies of the channel
    RETRY_LIMIT,    \* repetitions of a failed read
    QUEUE_DEPTH,    \* commands the controller holds
    Codes,          \* codes of new requests: "read", "write", "erase"
    MaxQueued       \* requests on the queue of one die (the request pool)

ASSUME SizeAssumption ==
    /\ USER_WAYS \in Nat \ {0} /\ QUEUE_DEPTH \in Nat \ {0} /\ MaxQueued \in Nat \ {0}
    /\ RETRY_LIMIT \in Nat
    /\ Codes \subseteq {"read", "write", "erase"}

Ways == 0 .. USER_WAYS - 1
NONE == USER_WAYS       \* WAY_NONE

\* The lists of WAY_PRIORITY_ENTRY that part 3 of a pass serves, by priority.
Priorities == <<"statusCheck", "readTrigger", "erase", "write", "readTransfer">>
Lists == {Priorities[i] : i \in 1 .. Len(Priorities)} \cup {"idle", "statusReport"}

VARIABLES
    nandReqQ,           \* the codes of the requests on each die's queue
    dieState,           \* "idle" or "exe"
    reqStatusCheckOpt,  \* "none", "check", "report" or "flag"
    completeFlag,       \* of the transfer, with its ECC result; "none": not complete
    statusReport,       \* the controller's answer to a status check; "none": not done
    retryLimit,
    way,                \* way[n]: the ways on list n
    at, wayNo,          \* where the pass is, and the way its loop looks at
    readyBusy,          \* the ways that were ready when part 2 began
    waitWayCnt,
    commands,           \* the controller's queue: <<way, operation>>
    flash,              \* what each die is busy with, or "ready"
    result,             \* how its last operation ended
    loaded,             \* history: the page register holds the page the request reads
    failures            \* history: failed attempts of the request at the head

tables   == <<dieState, reqStatusCheckOpt, retryLimit>>
pass     == <<at, wayNo, readyBusy, waitWayCnt>>
reports  == <<completeFlag, statusReport>>
hardware == <<commands, flash, result, loaded>>
vars     == <<nandReqQ, tables, reports, way, pass, hardware, failures>>

\* InitReqScheduler: every way idle, in ascending order.
Init ==
    /\ nandReqQ = [w \in Ways |-> <<>>]
    /\ dieState = [w \in Ways |-> "idle"]
    /\ reqStatusCheckOpt = [w \in Ways |-> "none"]
    /\ completeFlag = [w \in Ways |-> "none"]
    /\ statusReport = [w \in Ways |-> "none"]
    /\ retryLimit = [w \in Ways |-> RETRY_LIMIT]
    /\ way = [n \in Lists |-> IF n = "idle" THEN [i \in 1 .. USER_WAYS |-> i - 1] ELSE <<>>]
    /\ at = "out"
    /\ wayNo = NONE
    /\ readyBusy = {}
    /\ waitWayCnt = 0
    /\ commands = <<>>
    /\ flash = [w \in Ways |-> "ready"]
    /\ result = [w \in Ways |-> "pass"]
    /\ loaded = [w \in Ways |-> FALSE]
    /\ failures = [w \in Ways |-> 0]

-----------------------------------------------------------------------------
(* The way lists.                                                          *)

First(q) == IF q = <<>> THEN NONE ELSE Head(q)
\* nextWay of a way of list q, read before the way is moved.  Wrong: after it,
\* when the way is the tail of another list.
NextWayAfterMove(q, w) == NONE
NextWay(q, w) ==
    LET i == CHOOSE j \in 1 .. Len(q) : q[j] = w
    IN  IF i = Len(q) THEN NONE ELSE q[i + 1]

\* SelectiveGetFromNand*List and PutToNand*List.
SelectiveGetFrom(l, n, w) == [l EXCEPT ![n] = Unlink(@, w)]
PutTo(l, n, w) == [l EXCEPT ![n] = Append(@, w)]
Moved(w, m, n) == PutTo(SelectiveGetFrom(way, m, w), n, w)

\* PutToNandWayPriorityTable: the list for a request of that code.
ListFor(code) ==
    CASE code = "read"     -> "readTrigger"
      [] code = "transfer" -> "readTransfer"
      [] code = "write"    -> "write"
      [] code = "erase"    -> "erase"

\* The first list of lower priority than list p that is not empty in lists l.
Following(p, l) ==
    LET left == {i \in 1 .. Len(Priorities) :
                    /\ l[Priorities[i]] # <<>>
                    /\ p # "begin" => \E j \in 1 .. i - 1 : Priorities[j] = p}
    IN  IF left = {} THEN "out" ELSE Priorities[CHOOSE i \in left : \A j \in left : i <= j]

\* Part 3 goes on with it.  Wrong: one command per pass.
AfterFirst(p, l) == IF p = "begin" THEN Following(p, l) ELSE "out"
After(p, l) == Following(p, l)

-----------------------------------------------------------------------------
(* Requests reach a die's queue from the CPU between two passes, and inside *)
(* a pass from ReleaseBlockedByRowAddrDepReq, which may release requests of *)
(* the die, and ReleaseBlockedByBufDepReq, which may release a request of   *)
(* any die.  At most one request arrives at a time.                         *)

Arrived(q, dies) ==
    {q} \cup {[q EXCEPT ![w] = Append(@, c)] : c \in Codes, w \in {v \in dies : Len(q[v]) < MaxQueued}}

\* PutToNandReqQ, while the CPU creates requests.
PutToNandReqQ ==
    /\ at = "out"
    /\ nandReqQ' \in Arrived(nandReqQ, Ways)
    /\ UNCHANGED <<tables, reports, way, pass, hardware, failures>>

\* ReleaseBlockedByRowAddrDepReq is called for a die without requests.
Released(q, w) == IF q[w] = <<>> THEN Arrived(q, {w}) ELSE {q}

-----------------------------------------------------------------------------
(* Part 1 of a pass: idle ways that have a request.                        *)

StartPass ==
    /\ at = "out"
    /\ at' = IF way["idle"] = <<>> THEN "beginReport" ELSE "idle"
    /\ wayNo' = First(way["idle"])
    /\ waitWayCnt' = 0
    /\ UNCHANGED <<nandReqQ, tables, reports, way, readyBusy, hardware, failures>>

\* The loop of part p goes on with way w, or the next part begins.
GoOn(p, w, next) ==
    /\ wayNo' = w
    /\ at' = IF w = NONE THEN next ELSE p

TakeIdleWay ==
    /\ at = "idle"
    /\ nandReqQ' \in Released(nandReqQ, wayNo)
    /\ GoOn("idle", NextWay(way["idle"], wayNo), "beginReport")
    /\ IF nandReqQ'[wayNo] = <<>>
       THEN waitWayCnt' = waitWayCnt + 1 /\ UNCHANGED way
       ELSE way' = Moved(wayNo, "idle", ListFor(Head(nandReqQ'[wayNo]))) /\ UNCHANGED waitWayCnt
    /\ UNCHANGED <<tables, reports, readyBusy, hardware, failures>>

-----------------------------------------------------------------------------
(* CheckReqStatus and ExecuteNandReq for a command under way.              *)

\* CheckReqStatus of a way on the status report list.  Wrong: V2FRequestFail or
\* V2FRequestComplete is not looked at.
ReqStatusWithoutFail(w) ==
    LET answer == IF reqStatusCheckOpt[w] = "flag" THEN completeFlag[w] ELSE statusReport[w]
    IN  IF answer \in {"none", "busy"} THEN "running" ELSE "done"
ReqStatusWithoutComplete(w) ==
    LET answer == IF reqStatusCheckOpt[w] = "flag" THEN completeFlag[w] ELSE statusReport[w]
    IN  CASE answer = "none" -> "running" [] answer = "fail" -> "fail"
          [] answer = "warning" -> "warning" [] answer \in {"busy", "pass"} -> "done"
ReqStatus(w) ==
    LET answer == IF reqStatusCheckOpt[w] = "flag" THEN completeFlag[w] ELSE statusReport[w]
    IN  CASE answer \in {"none", "busy"} -> "running" [] answer = "fail" -> "fail"
          [] answer = "warning" -> "warning" [] answer = "pass" -> "done"

\* ... and what it leaves in reqStatusCheckOpt: the die has to be asked again
\* when it was busy.
CheckedOpt(w) ==
    CASE reqStatusCheckOpt[w] = "report" /\ statusReport[w] = "busy" -> "check"
      [] reqStatusCheckOpt[w] = "report" /\ statusReport[w] = "pass" -> "none"
      [] OTHER -> reqStatusCheckOpt[w]

Code(w) == Head(nandReqQ[w])
\* Wrong: the limit is not looked at.
RetriesForEver(w) == ReqStatus(w) = "fail" /\ Code(w) \in {"read", "transfer"}
Retries(w) == ReqStatus(w) = "fail" /\ Code(w) \in {"read", "transfer"} /\ retryLimit[w] > 0

RetryLimitReset(w) == [retryLimit EXCEPT ![w] = RETRY_LIMIT]

\* The trigger of a read is done: the same request becomes the transfer.
TriggerDone(w) ==
    /\ ReqStatus(w) = "done" /\ Code(w) = "read"
    /\ nandReqQ' = [nandReqQ EXCEPT ![w][1] = "transfer"]
    /\ UNCHANGED <<retryLimit, failures, loaded>>

\* A failed read starts again with the trigger.
RetryRead(w) ==
    /\ Retries(w)
    /\ nandReqQ' = [nandReqQ EXCEPT ![w][1] = "read"]
    /\ retryLimit' = [retryLimit EXCEPT ![w] = @ - 1]
    /\ failures' = [failures EXCEPT ![w] = @ + 1]
    /\ UNCHANGED loaded

\* GetFromNandReqQ: done, done with a warning, or given up.  The request's
\* buffer may release another request, then the die's blocked requests are tried.
RequestDone(w) ==
    /\ ReqStatus(w) \in {"done", "warning", "fail"}
    /\ ~(ReqStatus(w) = "done" /\ Code(w) = "read") /\ ~Retries(w)
    /\ \E q \in Arrived([nandReqQ EXCEPT ![w] = Tail(@)], Ways) : nandReqQ' \in Released(q, w)
    /\ retryLimit' = RetryLimitReset(w)
    /\ failures' = [failures EXCEPT ![w] = 0]
    /\ loaded' = [loaded EXCEPT ![w] = FALSE]

-----------------------------------------------------------------------------
(* Part 2: ways whose status was asked for, or whose page is transferred.  *)

Ready == {w \in Ways : flash[w] = "ready"}

StartReports ==
    /\ at = "beginReport"
    /\ GoOn("report", First(way["statusReport"]), "beginIssue")
    /\ readyBusy' = IF way["statusReport"] = <<>> THEN {} ELSE Ready
    /\ UNCHANGED <<nandReqQ, tables, reports, way, waitWayCnt, hardware, failures>>

NextReport == GoOn("report", NextWay(way["statusReport"], wayNo), "beginIssue")

\* The way is busy, or its report is not there.
StillRunning ==
    /\ at = "report"
    /\ wayNo \in readyBusy => ReqStatus(wayNo) = "running" /\ CheckedOpt(wayNo) # "check"
    /\ waitWayCnt' = waitWayCnt + 1
    /\ NextReport
    /\ UNCHANGED <<nandReqQ, tables, reports, way, readyBusy, hardware, failures>>

\* The report says that the die is still busy.
AskAgain ==
    /\ at = "report" /\ wayNo \in readyBusy
    /\ ReqStatus(wayNo) = "running" /\ CheckedOpt(wayNo) = "check"
    /\ reqStatusCheckOpt' = [reqStatusCheckOpt EXCEPT ![wayNo] = "check"]
    /\ way' = Moved(wayNo, "statusReport", "statusCheck")
    /\ NextReport
    /\ UNCHANGED <<nandReqQ, dieState, retryLimit, reports, readyBusy, waitWayCnt, hardware, failures>>

\* The command is finished: the way goes to the list of its next request.
CommandDone ==
    /\ at = "report" /\ wayNo \in readyBusy
    /\ TriggerDone(wayNo) \/ RetryRead(wayNo) \/ RequestDone(wayNo)
    /\ reqStatusCheckOpt' = [reqStatusCheckOpt EXCEPT ![wayNo] = CheckedOpt(wayNo)]
    /\ dieState' = [dieState EXCEPT ![wayNo] = "idle"]
    /\ IF nandReqQ'[wayNo] = <<>>
       THEN way' = Moved(wayNo, "statusReport", "idle") /\ waitWayCnt' = waitWayCnt + 1
       ELSE /\ way' = Moved(wayNo, "statusReport", ListFor(Head(nandReqQ'[wayNo])))
            /\ UNCHANGED waitWayCnt
    /\ NextReport
    /\ UNCHANGED <<reports, readyBusy, commands, flash, result>>

-----------------------------------------------------------------------------
(* Part 3: commands to the controller.  A way that moves becomes the tail   *)
(* of its new list, and nextWay is read there: each loop ends after the     *)
(* first way it serves.                                                     *)

\* V2FIsControllerBusy.
ControllerBusy == Len(commands) >= QUEUE_DEPTH

StartIssuing ==
    /\ at = "beginIssue"
    /\ at' = IF waitWayCnt = USER_WAYS \/ ControllerBusy
             THEN "out" ELSE After("begin", way)
    /\ readyBusy' = {}
    /\ waitWayCnt' = 0
    /\ UNCHANGED <<nandReqQ, tables, reports, way, wayNo, hardware, failures>>

\* V2FIsControllerBusy is read after each command; nothing is added until the
\* next one, so it may as well be read before it.
QueueFull ==
    /\ at \in Lists \ {"idle"}
    /\ ControllerBusy
    /\ at' = "out"
    /\ UNCHANGED <<nandReqQ, tables, reports, way, wayNo, readyBusy, waitWayCnt, hardware, failures>>

\* The first ready way on the status check list, if there is one.
ReadyToAsk(w) ==
    \E i \in 1 .. Len(way["statusCheck"]) :
        /\ way["statusCheck"][i] = w /\ w \in Ready
        /\ \A j \in 1 .. i - 1 : way["statusCheck"][j] \notin Ready

\* V2FStatusCheckAsync clears the report.  Wrong: it is left as it was.
ReportKept(w) == statusReport
ReportCleared(w) == [statusReport EXCEPT ![w] = "none"]

\* CheckReqStatus asks for the status.
AskStatus ==
    /\ at = "statusCheck" /\ ~ControllerBusy
    /\ \E w \in Ways :
          /\ ReadyToAsk(w)
          /\ commands' = Append(commands, <<w, "status">>)
          /\ statusReport' = ReportCleared(w)
          /\ reqStatusCheckOpt' = [reqStatusCheckOpt EXCEPT ![w] = "report"]
          /\ way' = Moved(w, "statusCheck", "statusReport")
    /\ at' = After(at, way')
    /\ UNCHANGED <<nandReqQ, dieState, retryLimit, completeFlag, wayNo, readyBusy, waitWayCnt,
                   flash, result, loaded, failures>>

NobodyToAsk ==
    /\ at = "statusCheck" /\ ~ControllerBusy
    /\ \A w \in Ways : ~ReadyToAsk(w)
    /\ at' = After(at, way)
    /\ UNCHANGED <<nandReqQ, tables, reports, way, wayNo, readyBusy, waitWayCnt, hardware, failures>>

\* ExecuteNandReq for an idle die: IssueNandReq.
IssueNandReq ==
    LET w == Head(way[at])
        transfers == Code(w) = "transfer"
    IN  /\ at \in Lists \ {"idle", "statusCheck", "statusReport"} /\ ~ControllerBusy
        /\ dieState[w] = "idle"
        /\ commands' = Append(commands, <<w, Code(w)>>)
        /\ reqStatusCheckOpt' = [reqStatusCheckOpt EXCEPT ![w] = IF transfers THEN "flag" ELSE "check"]
        /\ completeFlag' = [completeFlag EXCEPT ![w] = IF transfers THEN "none" ELSE @]
        /\ dieState' = [dieState EXCEPT ![w] = "exe"]
        /\ way' = Moved(w, at, IF transfers THEN "statusReport" ELSE "statusCheck")
        /\ at' = After(at, way')
        /\ UNCHANGED <<nandReqQ, retryLimit, statusReport, wayNo, readyBusy, waitWayCnt,
                       flash, result, loaded, failures>>

-----------------------------------------------------------------------------
(* The controller and the dies.  Commands of one way are executed in the    *)
(* order they were issued, those of different ways in any order.            *)

HeadCommand(w, i) ==
    commands[i][1] = w /\ \A j \in 1 .. i - 1 : commands[j][1] # w

\* Take command i of way w, which is for operation op.
Takes(w, op) ==
    \E i \in 1 .. Len(commands) :
        HeadCommand(w, i) /\ commands[i][2] = op /\ commands' = RemoveAtIndex(commands, i)

FlashStarts(w) ==
    /\ flash[w] = "ready"
    /\ \E op \in {"read", "write", "erase"} : Takes(w, op) /\ flash' = [flash EXCEPT ![w] = op]
    /\ loaded' = [loaded EXCEPT ![w] = FALSE]
    /\ result' = [result EXCEPT ![w] = "pass"]
    /\ UNCHANGED <<nandReqQ, tables, reports, way, pass, failures>>

FlashEnds(w) ==
    /\ flash[w] # "ready"
    /\ flash' = [flash EXCEPT ![w] = "ready"]
    /\ \E r \in {"pass", "fail"} :
          /\ result' = [result EXCEPT ![w] = r]
          /\ loaded' = [loaded EXCEPT ![w] = flash[w] = "read" /\ r = "pass"]
    /\ UNCHANGED <<nandReqQ, tables, reports, way, pass, commands, failures>>

ReportsStatus(w) ==
    /\ Takes(w, "status")
    /\ statusReport' = [statusReport EXCEPT ![w] = IF flash[w] = "ready" THEN result[w] ELSE "busy"]
    /\ UNCHANGED <<nandReqQ, tables, completeFlag, way, pass, flash, result, loaded, failures>>

Transfers(w) ==
    /\ flash[w] = "ready"
    /\ Takes(w, "transfer")
    /\ \E ecc \in {"pass", "warning", "fail"} : completeFlag' = [completeFlag EXCEPT ![w] = ecc]
    /\ UNCHANGED <<nandReqQ, tables, statusReport, way, pass, flash, result, loaded, failures>>

-----------------------------------------------------------------------------
SchedulingNandReqPerCh ==
    \/ StartPass \/ TakeIdleWay
    \/ StartReports \/ StillRunning \/ AskAgain \/ CommandDone
    \/ StartIssuing \/ QueueFull \/ AskStatus \/ NobodyToAsk \/ IssueNandReq

Hardware(w) == FlashStarts(w) \/ FlashEnds(w) \/ ReportsStatus(w) \/ Transfers(w)

Next == SchedulingNandReqPerCh \/ PutToNandReqQ \/ \E w \in Ways : Hardware(w)

Spec == Init /\ [][Next]_vars

\* The main loop calls the scheduler for ever, the controller executes what it
\* is given and every operation of a die ends.
FairSpec ==
    /\ Spec
    /\ WF_vars(SchedulingNandReqPerCh)
    /\ \A w \in Ways : WF_vars(Hardware(w))

-----------------------------------------------------------------------------
(* Properties.                                                             *)

\* Every table entry and every local variable of the pass has a legal value.
TypeOK ==
    /\ nandReqQ \in [Ways -> Seq(Codes \cup {"transfer"})]
    /\ dieState \in [Ways -> {"idle", "exe"}]
    /\ reqStatusCheckOpt \in [Ways -> {"none", "check", "report", "flag"}]
    /\ completeFlag \in [Ways -> {"none", "pass", "warning", "fail"}]
    /\ statusReport \in [Ways -> {"none", "busy", "pass", "fail"}]
    /\ retryLimit \in [Ways -> 0 .. RETRY_LIMIT]
    /\ way \in [Lists -> Seq(Ways)]
    /\ at \in {"out", "idle", "beginReport", "report", "beginIssue"}
              \cup {Priorities[i] : i \in 1 .. Len(Priorities)}
    /\ wayNo \in Ways \cup {NONE}
    /\ readyBusy \subseteq Ways
    /\ waitWayCnt \in 0 .. USER_WAYS
    /\ commands \in Seq(Ways \X {"read", "write", "erase", "transfer", "status"})
    /\ Len(commands) <= QUEUE_DEPTH
    /\ flash \in [Ways -> {"ready", "read", "write", "erase"}]
    /\ result \in [Ways -> {"pass", "fail"}]
    /\ loaded \in [Ways -> BOOLEAN]
    /\ failures \in [Ways -> Nat]

On(w, n) == InList(way[n], w)
Pending(w, op) == \E i \in 1 .. Len(commands) : commands[i] = <<w, op>>

\* What list n says of its ways, and the links they share, is true: a way is on
\* one list, once, and its state and its next request are the ones of that list.
\* When part 3 is skipped because every way waits, they are all on the two lists
\* that have nothing to issue, although waitWayCnt counts them in two loops.
ListsTellState ==
    /\ at = "beginIssue" => waitWayCnt = Len(way["idle"]) + Len(way["statusReport"])
    /\ \A n \in Lists : \A i, j \in 1 .. Len(way[n]) : way[n][i] = way[n][j] => i = j
    /\ \A w \in Ways : \E n \in Lists :
          /\ On(w, n)
          /\ \A m \in Lists \ {n} : ~On(w, m)
          /\ CASE n = "idle"         -> dieState[w] = "idle"
               [] n = "statusCheck"  -> dieState[w] = "exe" /\ reqStatusCheckOpt[w] = "check"
               [] n = "statusReport" -> dieState[w] = "exe" /\ reqStatusCheckOpt[w] \in {"report", "flag"}
               [] OTHER -> dieState[w] = "idle" /\ nandReqQ[w] # <<>> /\ ListFor(Code(w)) = n

\* A report the CPU looks at is about the operation under way, never about an
\* earlier one of the die: it is not there before that operation was executed.
ReportIsCurrent ==
    \A w \in Ways :
        /\ reqStatusCheckOpt[w] = "report" /\ dieState[w] = "exe" =>
              (statusReport[w] = "none" <=> Pending(w, "status"))
        /\ reqStatusCheckOpt[w] = "report" /\ dieState[w] = "exe" /\ statusReport[w] \in {"pass", "fail"} =>
              statusReport[w] = result[w] /\ flash[w] = "ready" /\ ~Pending(w, Code(w))

\* A transfer moves the page its own trigger loaded: nothing uses the page
\* register of the die in between ("we should make sure the READ_TRANSFER to be
\* the next request that will be executed on this die", ExecuteNandReq).
TransfersOwnPage == \A w \in Ways : Pending(w, "transfer") => loaded[w] /\ flash[w] = "ready"

Done(w) ==
    /\ dieState[w] = "exe" /\ dieState'[w] = "idle"
    /\ failures'[w] = 0
    /\ nandReqQ'[w] # <<>> => Head(nandReqQ'[w]) # "transfer"

\* A request leaves the queue only when the die and the controller are through
\* with it; a read that failed, only when all its retries were spent.
DoneWhenExecuted ==
    [][\A w \in Ways : Done(w) =>
          /\ flash[w] = "ready" /\ \A i \in 1 .. Len(commands) : commands[i][1] # w
          /\ Code(w) = "read" => failures[w] = RETRY_LIMIT
          /\ Code(w) = "transfer" /\ completeFlag[w] = "fail" => failures[w] = RETRY_LIMIT]_vars

\* No die starves: while a die has requests, it keeps finishing them.
DiesServed == \A w \in Ways : []<>(nandReqQ[w] = <<>>) \/ []<><<Done(w)>>_vars
=============================================================================
