--------------------------- MODULE NvmeController ---------------------------
(***************************************************************************)
(* The controller as the host sees it: the main loop of nvme/nvme_main.c,  *)
(* the interrupt handler and the registers of nvme/host_lld.c, and the     *)
(* admin commands of nvme/nvme_admin_cmd.c as far as they change state.    *)
(*                                                                         *)
(* Two threads run on one core: the main loop, which dispatches on         *)
(* g_nvmeTask.status and assigns it at the end of a branch, and            *)
(* dev_irq_handler, which may come between any two steps of the loop and   *)
(* assigns it as well.  The third actor is the host, a driver that obeys   *)
(* the NVMe protocol: it enables a controller that is not ready, sends     *)
(* commands to one that is, and waits for the answer to a shutdown or a    *)
(* reset before it goes on.                                                *)
(***************************************************************************)
EXTENDS Naturals, FiniteSets

CONSTANTS
    Queues,     \* I/O queue pairs, 1..8 in the code
    Tags,       \* command slots of the hardware
    HostOps     \* the commands the host sends

QueueOps == {"CreateSq", "CreateCq", "DeleteSq", "DeleteCq"}
\* "Answered" stands for Identify, Get Log Page, Get Features and the features
\* that keep no state; "Unreleased" for the MONITOR_* commands, Security Receive
\* and Doorbell Buffer Config, which the controller does not announce.
AdminOps == QueueOps \cup {"CacheOn", "CacheOff", "Answered", "AsyncEvent", "Unreleased"}
\* "Move" stands for commands that move data, "Flush" for those that are
\* answered at once.
IoOps == {"Move", "Flush"}
Ops == AdminOps \cup IoOps

ASSUME OpsAssumption == HostOps \subseteq Ops

VARIABLES
    host,       \* what the host driver does: disabled, enabling, on, stopping
    link,       \* the PCIe link is up
    ccEn, ccShn,\* NVME_STATUS_REG, written by the host: CC.EN and CC.SHN
    rdy, shst,  \* NVME_STATUS_REG, written by the firmware: CSTS.RDY, CSTS.SHST
    irq,        \* DEV_IRQ_STATUS_REG: causes raised and not cleared yet
    isr,        \* causes the handler has read, NotInHandler outside of it
    status,     \* g_nvmeTask.status
    pc,         \* where the main loop is
    cmd,        \* the command being handled
    rstCnt,     \* resets in a row without a command between them
    cacheEn,    \* g_nvmeTask.cacheEn
    adminOn,    \* the admin queue is valid
    ioSq, ioCq, \* I/O queues whose set registers say valid
    slots,      \* command slots in use
    moving      \* command slots whose DMA, with auto completion, is in progress

hostVars  == <<host, ccEn, ccShn>>
queueVars == <<adminOn, ioSq, ioCq>>
slotVars  == <<slots, moving>>
vars == <<host, link, ccEn, ccShn, rdy, shst, irq, isr, status, pc, cmd, rstCnt,
          cacheEn, adminOn, ioSq, ioCq, slots, moving>>

Statuses == {"IDLE", "WAIT_CC_EN", "RUNNING", "SHUTDOWN", "WAIT_RESET", "RESET"}
Causes == {"pcieLink", "nvmeCcEn", "nvmeCcShn"}
NotInHandler == {"none"}
NoCommand == [op |-> "none"]
RESETS == 5     \* nvme_main.c:219

Commands == [op : Ops, q : Queues, tag : Tags]

TypeOK ==
    /\ host \in {"disabled", "enabling", "on", "stopping"}
    /\ link \in BOOLEAN /\ ccEn \in BOOLEAN /\ rdy \in BOOLEAN
    /\ cacheEn \in BOOLEAN /\ adminOn \in BOOLEAN
    /\ ccShn \in 0..1
    /\ shst \in 0..2
    /\ irq \subseteq Causes
    /\ isr = NotInHandler \/ isr \subseteq Causes
    /\ status \in Statuses
    /\ pc \in {"top", "command", "ready", "quiesced", "stopped", "saving", "cleared", "idle"}
    /\ (pc = "command" /\ cmd \in Commands) \/ (pc # "command" /\ cmd = NoCommand)
    /\ rstCnt \in 0..RESETS
    /\ ioSq \subseteq Queues /\ ioCq \subseteq Queues
    /\ moving \subseteq slots /\ slots \subseteq Tags

\* After InitFTL: the interrupts are on, g_nvmeTask is zero, and the host has
\* not enabled the controller yet.
Init ==
    /\ host = "disabled" /\ link = TRUE /\ ccEn = FALSE /\ ccShn = 0
    /\ rdy = FALSE /\ shst = 0
    /\ irq = {} /\ isr = NotInHandler
    /\ status = "IDLE" /\ pc = "top" /\ cmd = NoCommand /\ rstCnt = 0
    /\ cacheEn = FALSE /\ adminOn = FALSE /\ ioSq = {} /\ ioCq = {}
    /\ slots = {} /\ moving = {}

(***************************************************************************)
(* The main loop.  The handler runs on the same core: while it is active   *)
(* the loop does not step.                                                 *)
(***************************************************************************)
AtTop(s) == isr = NotInHandler /\ pc = "top" /\ status = s
At(label) == isr = NotInHandler /\ pc = label

\* set_io_cq and set_io_sq with zeroes, for all queues.
ClearIoQueues == ioSq' = {} /\ ioCq' = {}

\* NVME_TASK_WAIT_CC_EN: set_nvme_admin_queue(1, 1, 1), set_nvme_csts_rdy(1).
Enable ==
    /\ AtTop("WAIT_CC_EN")
    /\ ccEn
    /\ adminOn' = TRUE
    /\ rdy' = TRUE
    /\ pc' = "ready"
    /\ UNCHANGED <<hostVars, link, shst, irq, isr, status, cmd, rstCnt, cacheEn, ioSq, ioCq, slotVars>>

SetRunning ==
    /\ At("ready")
    /\ status' = "RUNNING"
    /\ pc' = "top"
    /\ UNCHANGED <<hostVars, link, rdy, shst, irq, isr, cmd, rstCnt, cacheEn, queueVars, slotVars>>

\* A host sends I/O commands to valid submission queues, keeps a submission
\* queue only while its completion queue exists, and creates none twice.
MaySend(op, q) ==
    CASE op \in IoOps -> q \in ioSq
      [] op = "CreateCq" -> q \notin ioCq
      [] op \in {"DeleteCq", "CreateSq"} -> q \in ioCq \ ioSq
      [] op = "DeleteSq" -> q \in ioSq
      [] OTHER -> TRUE

\* NVME_TASK_RUNNING: get_nvme_cmd finds a command the hardware fetched into a
\* free slot.
GetNvmeCmd ==
    /\ AtTop("RUNNING")
    /\ host \in {"on", "stopping"} /\ adminOn
    /\ \E op \in HostOps, q \in Queues, tag \in Tags \ slots :
          /\ MaySend(op, q)
          /\ cmd' = [op |-> op, q |-> q, tag |-> tag]
          /\ slots' = slots \cup {tag}
    /\ rstCnt' = 0
    /\ pc' = "command"
    /\ UNCHANGED <<hostVars, link, rdy, shst, irq, isr, status, cacheEn, queueVars, moving>>

CommandDone ==
    /\ cmd' = NoCommand
    /\ pc' = "top"
    /\ UNCHANGED <<hostVars, link, rdy, shst, irq, isr, status, rstCnt, adminOn>>

\* handle_create_io_sq, handle_delete_io_sq
IoSqAfter(c) ==
    CASE c.op = "CreateSq" -> ioSq \cup {c.q}
      [] c.op = "DeleteSq" -> ioSq \ {c.q}
      [] OTHER -> ioSq

\* handle_create_io_cq, handle_delete_io_cq
IoCqAfter(c) ==
    CASE c.op = "CreateCq" -> ioCq \cup {c.q}
      [] c.op = "DeleteCq" -> ioCq \ {c.q}
      [] OTHER -> ioCq

\* handle_set_features
CacheEnAfter(c) ==
    CASE c.op = "CacheOn" -> TRUE
      [] c.op = "CacheOff" -> FALSE
      [] OTHER -> cacheEn

\* Wrong: an event request keeps its slot until the event comes.
AdminReleasesSlotOfAnswered(op) == op \notin {"Unreleased", "AsyncEvent"}

\* set_auto_nvme_cpl answers and frees the slot, set_nvme_slot_release frees it
\* without an answer (an event that never comes), and set_nvme_cpl
\* (ONLY_CPL_TYPE) answers but leaves the slot in use.
AdminReleasesSlot(op) == op # "Unreleased"

HandleAdminCommand ==
    /\ At("command") /\ cmd.op \in AdminOps
    /\ ioSq' = IoSqAfter(cmd)
    /\ ioCq' = IoCqAfter(cmd)
    /\ cacheEn' = CacheEnAfter(cmd)
    /\ slots' = IF AdminReleasesSlot(cmd.op) THEN slots \ {cmd.tag} ELSE slots
    /\ CommandDone
    /\ UNCHANGED moving

\* The blocks of a read or a write are moved by auto DMA, whose last descriptor
\* carries the completion; the other commands are answered here.
HandleIoCommand ==
    /\ At("command") /\ cmd.op \in IoOps
    /\ moving' = IF cmd.op = "Move" THEN moving \cup {cmd.tag} ELSE moving
    /\ slots' = IF cmd.op = "Move" THEN slots ELSE slots \ {cmd.tag}
    /\ CommandDone
    /\ UNCHANGED <<ioSq, ioCq, cacheEn>>

\* NVME_TASK_SHUTDOWN, in three steps: quiesce the queues, report completion
\* and leave for WAIT_RESET, save the grown bad blocks.
Quiesce ==
    /\ AtTop("SHUTDOWN")
    /\ ccShn # 0
    /\ ClearIoQueues
    /\ adminOn' = FALSE
    /\ cacheEn' = FALSE
    /\ shst' = 1
    /\ pc' = "quiesced"
    /\ UNCHANGED <<hostVars, link, rdy, irq, isr, status, cmd, rstCnt, slotVars>>

ReportShutdown ==
    /\ At("quiesced")
    /\ shst' = 2
    /\ pc' = "stopped"
    /\ UNCHANGED <<hostVars, link, rdy, irq, isr, status, cmd, rstCnt, cacheEn, queueVars, slotVars>>

SetWaitReset ==
    /\ At("stopped")
    /\ status' = "WAIT_RESET"
    /\ pc' = "saving"
    /\ UNCHANGED <<hostVars, link, rdy, shst, irq, isr, cmd, rstCnt, cacheEn, queueVars, slotVars>>

\* UpdateBadBlockTableForGrownBadBlock; what it does is module BadBlocks.
SaveBadBlocks ==
    /\ At("saving")
    /\ pc' = "top"
    /\ UNCHANGED <<hostVars, link, rdy, shst, irq, isr, status, cmd, rstCnt, cacheEn, queueVars, slotVars>>

\* NVME_TASK_WAIT_RESET.
Disable ==
    /\ AtTop("WAIT_RESET")
    /\ ~ccEn
    /\ cacheEn' = FALSE
    /\ shst' = 0
    /\ rdy' = FALSE
    /\ pc' = "idle"
    /\ UNCHANGED <<hostVars, link, irq, isr, status, cmd, rstCnt, queueVars, slotVars>>

\* NVME_TASK_RESET.  pcie_async_reset writes the status register from a local
\* whose other bits are not initialised, so CSTS takes any value; the hardware
\* then drops the link.
ClearedByReset ==
    /\ AtTop("RESET")
    /\ ClearIoQueues
    /\ pc' = "cleared"
    /\ UNCHANGED <<isr, status, cmd, cacheEn, adminOn, slotVars>>

LinkLost ==
    /\ link' = FALSE
    /\ host' = "disabled"
    /\ ccEn' = FALSE
    /\ ccShn' = 0
    /\ \E others \in SUBSET {"nvmeCcEn"} : irq' = irq \cup {"pcieLink"} \cup others

\* Wrong: a sixth reset in a row is counted instead of resetting the link.
CountResetAlways ==
    /\ ClearedByReset
    /\ rstCnt' = rstCnt + 1
    /\ UNCHANGED <<hostVars, link, irq, rdy, shst>>

CountReset ==
    /\ rstCnt < RESETS
    /\ ClearedByReset
    /\ rstCnt' = rstCnt + 1
    /\ UNCHANGED <<hostVars, link, irq, rdy, shst>>

AsyncReset ==
    /\ rstCnt >= RESETS
    /\ ClearedByReset
    /\ rstCnt' = 0
    /\ LinkLost
    /\ rdy' \in BOOLEAN /\ shst' \in 0..2

\* Wrong: the reset branch forgets the cache setting, which the others clear.
FinishResetKeepsCache ==
    /\ At("cleared")
    /\ adminOn' = FALSE
    /\ shst' = 0
    /\ rdy' = FALSE
    /\ pc' = "idle"
    /\ UNCHANGED <<hostVars, link, irq, isr, status, cmd, rstCnt, cacheEn, ioSq, ioCq, slotVars>>

FinishReset ==
    /\ At("cleared")
    /\ cacheEn' = FALSE
    /\ adminOn' = FALSE
    /\ shst' = 0
    /\ rdy' = FALSE
    /\ pc' = "idle"
    /\ UNCHANGED <<hostVars, link, irq, isr, status, cmd, rstCnt, ioSq, ioCq, slotVars>>

\* The last assignment of the branches WAIT_RESET and RESET.
SetIdle ==
    /\ At("idle")
    /\ status' = "IDLE"
    /\ pc' = "top"
    /\ UNCHANGED <<hostVars, link, rdy, shst, irq, isr, cmd, rstCnt, cacheEn, queueVars, slotVars>>

MainLoop ==
    \/ Enable \/ SetRunning
    \/ GetNvmeCmd \/ HandleAdminCommand \/ HandleIoCommand
    \/ Quiesce \/ ReportShutdown \/ SetWaitReset \/ SaveBadBlocks
    \/ Disable
    \/ CountReset \/ AsyncReset \/ FinishReset
    \/ SetIdle

(***************************************************************************)
(* dev_irq_handler: read and clear the causes, then look at the registers, *)
(* which may have moved on.                                                *)
(***************************************************************************)
EnterHandler ==
    /\ isr = NotInHandler
    /\ irq # {}
    /\ isr' = irq
    /\ irq' = {}
    /\ UNCHANGED <<hostVars, link, rdy, shst, status, pc, cmd, rstCnt, cacheEn, queueVars, slotVars>>

\* The causes are looked at one after the other: the last assignment decides.
StatusAfterLink == IF "pcieLink" \in isr /\ ~link THEN "RESET" ELSE status

\* Wrong: CC.EN falling is not noticed.
StatusAfterCcEnSet ==
    IF "nvmeCcEn" \in isr /\ ccEn THEN "WAIT_CC_EN" ELSE StatusAfterLink

StatusAfterCcEn ==
    IF "nvmeCcEn" \in isr THEN (IF ccEn THEN "WAIT_CC_EN" ELSE "RESET") ELSE StatusAfterLink

NextStatus ==
    IF "nvmeCcShn" \in isr /\ ccShn = 1 THEN "SHUTDOWN" ELSE StatusAfterCcEn

LeaveHandler ==
    /\ isr # NotInHandler
    /\ status' = NextStatus
    /\ isr' = NotInHandler
    /\ UNCHANGED <<hostVars, link, rdy, shst, irq, pc, cmd, rstCnt, cacheEn, queueVars, slotVars>>

(***************************************************************************)
(* The host.  It learns of the controller by polling registers over PCIe,  *)
(* with milliseconds between two looks.  A branch of the main loop writes  *)
(* the register first and assigns the status a few instructions later, and *)
(* an event of the host that fell between the two would be overwritten.    *)
(* Settled is the assumption that rules this out: by the time the host     *)
(* sees an answer, the branch that wrote it and the interrupts raised      *)
(* before it are done with.  Saving the bad block table takes longer and   *)
(* is not waited for, and what the host does of its own accord (a          *)
(* shutdown, a reset) or the link does may come at any time.               *)
(***************************************************************************)
Settled ==
    /\ irq = {} /\ isr = NotInHandler
    /\ status # "RESET" /\ pc \notin {"ready", "stopped", "cleared", "idle"}

HostEnables ==
    /\ host = "disabled" /\ link /\ ~rdy /\ Settled
    /\ host' = "enabling"
    /\ ccEn' = TRUE
    /\ ccShn' = 0
    /\ irq' = irq \cup {"nvmeCcEn"}
    /\ UNCHANGED <<link, rdy, shst, isr, status, pc, cmd, rstCnt, cacheEn, queueVars, slotVars>>

HostSeesReady ==
    /\ host = "enabling" /\ rdy /\ Settled
    /\ host' = "on"
    /\ UNCHANGED <<link, ccEn, ccShn, rdy, shst, irq, isr, status, pc, cmd, rstCnt, cacheEn, queueVars, slotVars>>

\* CC.SHN = 01b, a normal shutdown.
HostShutsDown ==
    /\ host = "on"
    /\ host' = "stopping"
    /\ ccShn' = 1
    /\ irq' = irq \cup {"nvmeCcShn"}
    /\ UNCHANGED <<link, ccEn, rdy, shst, isr, status, pc, cmd, rstCnt, cacheEn, queueVars, slotVars>>

\* CC.EN = 0: after a shutdown, or to reset a controller that is on.
HostDisables ==
    /\ \/ host = "stopping" /\ shst = 2 /\ Settled
       \/ host = "on"
    /\ host' = "disabled"
    /\ ccEn' = FALSE
    /\ irq' = irq \cup {"nvmeCcEn"}
    /\ UNCHANGED <<link, ccShn, rdy, shst, isr, status, pc, cmd, rstCnt, cacheEn, queueVars, slotVars>>

\* Moving the last block of a command posts its completion and frees its slot.
DmaDone ==
    /\ \E tag \in moving : moving' = moving \ {tag} /\ slots' = slots \ {tag}
    /\ UNCHANGED <<hostVars, link, rdy, shst, irq, isr, status, pc, cmd, rstCnt, cacheEn, queueVars>>

LinkDown ==
    /\ link
    /\ LinkLost
    /\ UNCHANGED <<rdy, shst, isr, status, pc, cmd, rstCnt, cacheEn, queueVars, slotVars>>

LinkUp ==
    /\ ~link
    /\ link' = TRUE
    /\ irq' = irq \cup {"pcieLink"}
    /\ UNCHANGED <<hostVars, rdy, shst, isr, status, pc, cmd, rstCnt, cacheEn, queueVars, slotVars>>

Environment ==
    \/ HostEnables \/ HostSeesReady \/ HostShutsDown \/ HostDisables
    \/ DmaDone \/ LinkDown \/ LinkUp

Next == MainLoop \/ EnterHandler \/ LeaveHandler \/ Environment

\* The core runs; nothing is assumed of the host or the link.
Fairness == WF_vars(MainLoop) /\ WF_vars(EnterHandler) /\ WF_vars(LeaveHandler)

Spec == Init /\ [][Next]_vars /\ Fairness

(***************************************************************************)
(* Properties                                                              *)
(***************************************************************************)
\* A controller that tells the host that the session is over keeps nothing of
\* it: when it is not ready no queue is valid and no cache setting is left,
\* whatever was being handled when the reset came, and when the shutdown is
\* complete no command is being handled either.  (Between the two steps of a
\* reset, "cleared", CSTS may hold what pcie_async_reset left there.)
SessionEndsClean ==
    /\ ~rdy => ioSq = {} /\ ioCq = {} /\ (pc # "cleared" => ~adminOn /\ ~cacheEn)
    /\ shst = 2 /\ pc # "cleared" => ioSq = {} /\ ioCq = {} /\ ~adminOn /\ pc # "command"

\* A command slot is in use only while its command is being handled or its
\* data is being moved: slots do not leak through any path of the two
\* command handlers, resets included.
SlotsReturned ==
    slots = moving \cup (IF pc = "command" THEN {cmd.tag} ELSE {})

\* As long as the link stays up, the host is answered: a controller that is
\* enabled becomes ready, a shutdown is reported complete, and a disabled
\* controller becomes not ready, whatever it was doing.
HostAnswered ==
    []link => /\ host = "enabling" ~> rdy
              /\ host = "stopping" ~> (shst = 2 \/ host # "stopping")
              /\ host = "disabled" ~> (~rdy \/ host # "disabled")
=============================================================================
