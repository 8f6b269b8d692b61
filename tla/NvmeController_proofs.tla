----------------------- MODULE NvmeController_proofs -----------------------
(***************************************************************************)
(* TypeOK, SessionEndsClean and SlotsReturned for every number of queues   *)
(* and command slots.                                                      *)
(*                                                                         *)
(* SessionEndsClean is an invariant of what the host sees, but it rests on *)
(* which interrupt causes can still be pending when a session ends: a late *)
(* cause would take a controller that has reported the end back into a     *)
(* branch that reopens it.  NotReadyInv follows CSTS.RDY, ShutdownInv      *)
(* CSTS.SHST, and SessionInv says which causes and statuses each phase of  *)
(* the host leaves; none of the three is inductive without the others.     *)
(***************************************************************************)
EXTENDS NvmeController, TLAPS

Raised(cause) == cause \in irq \/ cause \in isr

NoSession == ~adminOn /\ ioSq = {} /\ ioCq = {}

\* TypeOK in two parts, for two provers.
Flags ==
    /\ link \in BOOLEAN /\ ccEn \in BOOLEAN /\ rdy \in BOOLEAN
    /\ cacheEn \in BOOLEAN /\ adminOn \in BOOLEAN

Ranges ==
    /\ host \in {"disabled", "enabling", "on", "stopping"}
    /\ ccShn \in 0..1 /\ shst \in 0..2 /\ rstCnt \in 0..RESETS
    /\ irq \subseteq Causes /\ (isr = NotInHandler \/ isr \subseteq Causes)
    /\ status \in Statuses
    /\ pc \in {"top", "command", "ready", "quiesced", "stopped", "saving", "cleared", "idle"}
    /\ (pc = "command" /\ cmd \in Commands) \/ (pc # "command" /\ cmd = NoCommand)
    /\ ioSq \subseteq Queues /\ ioCq \subseteq Queues
    /\ moving \subseteq slots /\ slots \subseteq Tags

\* A controller that is not ready has nothing of a session, and no shutdown is
\* under way.
NotReadyInv ==
    /\ ~rdy => ioSq = {} /\ ioCq = {}
    /\ ~rdy /\ pc # "cleared" =>
         /\ ~adminOn /\ ~cacheEn /\ shst = 0
         /\ status \notin {"SHUTDOWN", "RUNNING"}
         /\ pc \notin {"ready", "command", "quiesced", "stopped"}
    /\ ~rdy /\ pc \notin {"cleared", "idle"} => status # "WAIT_RESET"
    /\ pc = "cleared" => ioSq = {} /\ ioCq = {} /\ status = "RESET"
    /\ pc = "idle" => ~rdy /\ status \in {"RESET", "WAIT_RESET"}
    /\ pc = "command" => adminOn

\* Which causes may be pending, and which statuses are left, in each phase of
\* the host.
SessionInv ==
    /\ host # "disabled" => /\ link /\ ccEn /\ ~Raised("pcieLink") /\ status # "RESET"
                            /\ pc \notin {"cleared", "idle"}
    /\ host = "disabled" => ~ccEn
    /\ host \in {"enabling", "on"} => /\ ccShn = 0 /\ shst = 0 /\ ~Raised("nvmeCcShn")
                                      /\ status \notin {"SHUTDOWN", "WAIT_RESET"}
    /\ host \in {"on", "stopping"} => rdy /\ ~Raised("nvmeCcEn")
    /\ host = "stopping" => ccShn = 1
    /\ host = "disabled" /\ ccShn # 0 =>
         ~Raised("nvmeCcShn") /\ status # "SHUTDOWN" /\ pc # "quiesced"

\* The host's shutdown is worked off once, and leaves nothing of the session.
ShutdownInv ==
    /\ shst # 0 /\ pc # "cleared" =>
         /\ NoSession /\ ~cacheEn
         /\ status \notin {"WAIT_CC_EN", "RUNNING", "IDLE"}
         /\ pc \notin {"ready", "command", "idle"}
    /\ host = "stopping" =>
         /\ ~("nvmeCcShn" \in irq /\ "nvmeCcShn" \in isr)
         /\ status \in {"SHUTDOWN", "WAIT_RESET"} => ~Raised("nvmeCcShn")
    /\ pc = "quiesced" => shst = 1
    /\ pc = "stopped" => shst = 2
    /\ status = "WAIT_RESET" => NoSession
    /\ shst = 2 /\ host = "stopping" /\ status = "SHUTDOWN" => pc = "stopped"

\* The command being handled holds a slot that no DMA uses.
CommandSlot == pc = "command" => cmd.tag \in slots \ moving

IInv == Flags /\ Ranges /\ CommandSlot /\ NotReadyInv /\ SessionInv /\ ShutdownInv

\* The invariant implies the properties.
LEMMA IInvTypes == IInv => TypeOK
  BY DEF IInv, Flags, Ranges, TypeOK

LEMMA IInvEndsClean == IInv => SessionEndsClean
  BY DEF IInv, Ranges, NotReadyInv, ShutdownInv, NoSession, SessionEndsClean

\* The controller starts without a session.
LEMMA InitIInv == Init => IInv
<1>. SUFFICES ASSUME Init PROVE IInv
  OBVIOUS
<1>. USE DEF Init
<1>1. Flags
  BY DEF Flags
<1>2. Ranges
  BY DEF Ranges, NotInHandler, Causes, Statuses, RESETS
<1>3. CommandSlot /\ NotReadyInv
  BY DEF CommandSlot, NotReadyInv
<1>4. SessionInv
  BY DEF SessionInv, Raised, NotInHandler
<1>5. ShutdownInv
  BY DEF ShutdownInv, NoSession
<1>. QED
  BY <1>1, <1>2, <1>3, <1>4, <1>5 DEF IInv

\* Registers and flags only ever hold TRUE or FALSE.
LEMMA NextFlags == Flags /\ [Next]_vars => Flags'
<1>. SUFFICES ASSUME Flags, [Next]_vars PROVE Flags'
  OBVIOUS
<1>. USE DEF Flags, hostVars, queueVars, slotVars
<1>1. CASE Enable
  BY <1>1, Zenon DEF Enable, AtTop
<1>2. CASE SetRunning
  BY <1>2, Zenon DEF SetRunning, At
<1>3. CASE GetNvmeCmd
  BY <1>3, Zenon DEF GetNvmeCmd, AtTop
<1>4. CASE HandleAdminCommand
  BY <1>4, Zenon DEF HandleAdminCommand, At, CommandDone, CacheEnAfter
<1>5. CASE HandleIoCommand
  BY <1>5, Zenon DEF HandleIoCommand, At, CommandDone
<1>6. CASE Quiesce
  BY <1>6, Zenon DEF Quiesce, AtTop, ClearIoQueues
<1>7. CASE ReportShutdown
  BY <1>7, Zenon DEF ReportShutdown, At
<1>8. CASE SetWaitReset
  BY <1>8, Zenon DEF SetWaitReset, At
<1>9. CASE SaveBadBlocks
  BY <1>9, Zenon DEF SaveBadBlocks, At
<1>10. CASE Disable
  BY <1>10, Zenon DEF Disable, AtTop
<1>11. CASE CountReset
  BY <1>11, Zenon DEF CountReset, ClearedByReset, ClearIoQueues, AtTop
<1>12. CASE AsyncReset
  BY <1>12, Zenon DEF AsyncReset, ClearedByReset, ClearIoQueues, AtTop, LinkLost
<1>13. CASE FinishReset
  BY <1>13, Zenon DEF FinishReset, At
<1>14. CASE SetIdle
  BY <1>14, Zenon DEF SetIdle, At
<1>15. CASE EnterHandler
  BY <1>15, Zenon DEF EnterHandler
<1>16. CASE LeaveHandler
  BY <1>16, Zenon DEF LeaveHandler, NextStatus, StatusAfterCcEn, StatusAfterLink
<1>17. CASE HostEnables
  BY <1>17, Zenon DEF HostEnables, Settled
<1>18. CASE HostSeesReady
  BY <1>18, Zenon DEF HostSeesReady, Settled
<1>19. CASE HostShutsDown
  BY <1>19, Zenon DEF HostShutsDown
<1>20. CASE HostDisables
  BY <1>20, Zenon DEF HostDisables, Settled
<1>21. CASE DmaDone
  BY <1>21, Zenon DEF DmaDone
<1>22. CASE LinkDown
  BY <1>22, Zenon DEF LinkDown, LinkLost
<1>23. CASE LinkUp
  BY <1>23, Zenon DEF LinkUp
<1>24. CASE UNCHANGED vars
  BY <1>24 DEF vars
<1>. QED
  BY <1>1, <1>2, <1>3, <1>4, <1>5, <1>6, <1>7, <1>8, <1>9, <1>10, <1>11, <1>12,
      <1>13, <1>14, <1>15, <1>16, <1>17, <1>18, <1>19, <1>20, <1>21, <1>22, <1>23, <1>24
  DEF Next, MainLoop, Environment

\* The other variables stay within their types.
LEMMA NextRanges == Ranges /\ CommandSlot /\ [Next]_vars => Ranges'
<1>. SUFFICES ASSUME Ranges, CommandSlot, [Next]_vars PROVE Ranges'
  OBVIOUS
<1>. USE OpsAssumption DEF Ranges, CommandSlot, NotInHandler, Causes, Statuses, RESETS,
     NoCommand, Commands, hostVars, queueVars, slotVars
<1>1. CASE Enable
  BY <1>1 DEF Enable, AtTop
<1>2. CASE SetRunning
  BY <1>2 DEF SetRunning, At
<1>3. CASE GetNvmeCmd
  BY <1>3 DEF GetNvmeCmd, AtTop
<1>4. CASE HandleAdminCommand
  BY <1>4 DEF HandleAdminCommand, At, CommandDone, IoSqAfter, IoCqAfter
<1>5. CASE HandleIoCommand
  BY <1>5 DEF HandleIoCommand, At, CommandDone
<1>6. CASE Quiesce
  BY <1>6 DEF Quiesce, AtTop, ClearIoQueues
<1>7. CASE ReportShutdown
  BY <1>7 DEF ReportShutdown, At
<1>8. CASE SetWaitReset
  BY <1>8 DEF SetWaitReset, At
<1>9. CASE SaveBadBlocks
  BY <1>9 DEF SaveBadBlocks, At
<1>10. CASE Disable
  BY <1>10 DEF Disable, AtTop
<1>11. CASE CountReset
  BY <1>11 DEF CountReset, ClearedByReset, ClearIoQueues, AtTop
<1>12. CASE AsyncReset
  BY <1>12 DEF AsyncReset, ClearedByReset, ClearIoQueues, AtTop, LinkLost
<1>13. CASE FinishReset
  BY <1>13 DEF FinishReset, At
<1>14. CASE SetIdle
  BY <1>14 DEF SetIdle, At
<1>15. CASE EnterHandler
  BY <1>15 DEF EnterHandler
<1>16. CASE LeaveHandler
  BY <1>16 DEF LeaveHandler, NextStatus, StatusAfterCcEn, StatusAfterLink
<1>17. CASE HostEnables
  BY <1>17 DEF HostEnables, Settled
<1>18. CASE HostSeesReady
  BY <1>18 DEF HostSeesReady, Settled
<1>19. CASE HostShutsDown
  BY <1>19 DEF HostShutsDown
<1>20. CASE HostDisables
  BY <1>20 DEF HostDisables, Settled
<1>21. CASE DmaDone
  BY <1>21 DEF DmaDone
<1>22. CASE LinkDown
  BY <1>22 DEF LinkDown, LinkLost
<1>23. CASE LinkUp
  BY <1>23 DEF LinkUp
<1>24. CASE UNCHANGED vars
  BY <1>24 DEF vars
<1>. QED
  BY <1>1, <1>2, <1>3, <1>4, <1>5, <1>6, <1>7, <1>8, <1>9, <1>10, <1>11, <1>12,
      <1>13, <1>14, <1>15, <1>16, <1>17, <1>18, <1>19, <1>20, <1>21, <1>22, <1>23, <1>24
  DEF Next, MainLoop, Environment

\* A command is fetched into a free slot, which only its own handling gives up.
LEMMA NextCommandSlot == Ranges /\ CommandSlot /\ [Next]_vars => CommandSlot'
<1>. SUFFICES ASSUME Ranges, CommandSlot, [Next]_vars PROVE CommandSlot'
  OBVIOUS
<1>. USE OpsAssumption DEF Ranges, CommandSlot, NotInHandler, hostVars, queueVars, slotVars
<1>1. CASE Enable
  BY <1>1 DEF Enable, AtTop
<1>2. CASE SetRunning
  BY <1>2 DEF SetRunning, At
<1>3. CASE GetNvmeCmd
  BY <1>3 DEF GetNvmeCmd, AtTop
<1>4. CASE HandleAdminCommand
  BY <1>4 DEF HandleAdminCommand, At, CommandDone
<1>5. CASE HandleIoCommand
  BY <1>5 DEF HandleIoCommand, At, CommandDone
<1>6. CASE Quiesce
  BY <1>6 DEF Quiesce, AtTop, ClearIoQueues
<1>7. CASE ReportShutdown
  BY <1>7 DEF ReportShutdown, At
<1>8. CASE SetWaitReset
  BY <1>8 DEF SetWaitReset, At
<1>9. CASE SaveBadBlocks
  BY <1>9 DEF SaveBadBlocks, At
<1>10. CASE Disable
  BY <1>10 DEF Disable, AtTop
<1>11. CASE CountReset
  BY <1>11 DEF CountReset, ClearedByReset, ClearIoQueues, AtTop
<1>12. CASE AsyncReset
  BY <1>12 DEF AsyncReset, ClearedByReset, ClearIoQueues, AtTop, LinkLost
<1>13. CASE FinishReset
  BY <1>13 DEF FinishReset, At
<1>14. CASE SetIdle
  BY <1>14 DEF SetIdle, At
<1>15. CASE EnterHandler
  BY <1>15 DEF EnterHandler
<1>16. CASE LeaveHandler
  BY <1>16 DEF LeaveHandler, NextStatus, StatusAfterCcEn, StatusAfterLink
<1>17. CASE HostEnables
  BY <1>17 DEF HostEnables, Settled
<1>18. CASE HostSeesReady
  BY <1>18 DEF HostSeesReady, Settled
<1>19. CASE HostShutsDown
  BY <1>19 DEF HostShutsDown
<1>20. CASE HostDisables
  BY <1>20 DEF HostDisables, Settled
<1>21. CASE DmaDone
  BY <1>21 DEF DmaDone
<1>22. CASE LinkDown
  BY <1>22 DEF LinkDown, LinkLost
<1>23. CASE LinkUp
  BY <1>23 DEF LinkUp
<1>24. CASE UNCHANGED vars
  BY <1>24 DEF vars
<1>. QED
  BY <1>1, <1>2, <1>3, <1>4, <1>5, <1>6, <1>7, <1>8, <1>9, <1>10, <1>11, <1>12,
      <1>13, <1>14, <1>15, <1>16, <1>17, <1>18, <1>19, <1>20, <1>21, <1>22, <1>23, <1>24
  DEF Next, MainLoop, Environment

\* What CSTS.RDY = 0 promises the host.
LEMMA NextNotReady == IInv /\ [Next]_vars => NotReadyInv'
<1>. SUFFICES ASSUME IInv, [Next]_vars PROVE NotReadyInv'
  OBVIOUS
<1>. USE DEF IInv, Ranges, NotReadyInv, SessionInv, ShutdownInv, NoSession, Raised,
     NotInHandler, Causes, hostVars, queueVars, slotVars
<1>1. CASE Enable
  BY <1>1 DEF Enable, AtTop
<1>2. CASE SetRunning
  BY <1>2 DEF SetRunning, At
<1>3. CASE GetNvmeCmd
  BY <1>3 DEF GetNvmeCmd, AtTop
<1>4. CASE HandleAdminCommand
  BY <1>4 DEF HandleAdminCommand, At, CommandDone, IoSqAfter, IoCqAfter, CacheEnAfter
<1>5. CASE HandleIoCommand
  BY <1>5 DEF HandleIoCommand, At, CommandDone
<1>6. CASE Quiesce
  BY <1>6 DEF Quiesce, AtTop, ClearIoQueues
<1>7. CASE ReportShutdown
  BY <1>7 DEF ReportShutdown, At
<1>8. CASE SetWaitReset
  BY <1>8 DEF SetWaitReset, At
<1>9. CASE SaveBadBlocks
  BY <1>9 DEF SaveBadBlocks, At
<1>10. CASE Disable
  BY <1>10 DEF Disable, AtTop
<1>11. CASE CountReset
  BY <1>11 DEF CountReset, ClearedByReset, ClearIoQueues, AtTop
<1>12. CASE AsyncReset
  BY <1>12 DEF AsyncReset, ClearedByReset, ClearIoQueues, AtTop, LinkLost
<1>13. CASE FinishReset
  BY <1>13 DEF FinishReset, At
<1>14. CASE SetIdle
  BY <1>14 DEF SetIdle, At
<1>15. CASE EnterHandler
  BY <1>15 DEF EnterHandler
<1>16. CASE LeaveHandler
  BY <1>16 DEF LeaveHandler, NextStatus, StatusAfterCcEn, StatusAfterLink
<1>17. CASE HostEnables
  BY <1>17 DEF HostEnables, Settled
<1>18. CASE HostSeesReady
  BY <1>18 DEF HostSeesReady, Settled
<1>19. CASE HostShutsDown
  BY <1>19 DEF HostShutsDown
<1>20. CASE HostDisables
  BY <1>20 DEF HostDisables, Settled
<1>21. CASE DmaDone
  BY <1>21 DEF DmaDone
<1>22. CASE LinkDown
  BY <1>22 DEF LinkDown, LinkLost
<1>23. CASE LinkUp
  BY <1>23 DEF LinkUp
<1>24. CASE UNCHANGED vars
  BY <1>24 DEF vars
<1>. QED
  BY <1>1, <1>2, <1>3, <1>4, <1>5, <1>6, <1>7, <1>8, <1>9, <1>10, <1>11, <1>12,
      <1>13, <1>14, <1>15, <1>16, <1>17, <1>18, <1>19, <1>20, <1>21, <1>22, <1>23, <1>24
  DEF Next, MainLoop, Environment

\* What may be pending in each phase of the host.
LEMMA NextSession == IInv /\ [Next]_vars => SessionInv'
<1>. SUFFICES ASSUME IInv, [Next]_vars PROVE SessionInv'
  OBVIOUS
<1>. USE DEF IInv, Ranges, NotReadyInv, SessionInv, ShutdownInv, NoSession, Raised,
     NotInHandler, Causes, hostVars, queueVars, slotVars
<1>1. CASE Enable
  BY <1>1 DEF Enable, AtTop
<1>2. CASE SetRunning
  BY <1>2 DEF SetRunning, At
<1>3. CASE GetNvmeCmd
  BY <1>3 DEF GetNvmeCmd, AtTop
<1>4. CASE HandleAdminCommand
  BY <1>4 DEF HandleAdminCommand, At, CommandDone
<1>5. CASE HandleIoCommand
  BY <1>5 DEF HandleIoCommand, At, CommandDone
<1>6. CASE Quiesce
  BY <1>6 DEF Quiesce, AtTop, ClearIoQueues
<1>7. CASE ReportShutdown
  BY <1>7 DEF ReportShutdown, At
<1>8. CASE SetWaitReset
  BY <1>8 DEF SetWaitReset, At
<1>9. CASE SaveBadBlocks
  BY <1>9 DEF SaveBadBlocks, At
<1>10. CASE Disable
  BY <1>10 DEF Disable, AtTop
<1>11. CASE CountReset
  BY <1>11 DEF CountReset, ClearedByReset, ClearIoQueues, AtTop
<1>12. CASE AsyncReset
  BY <1>12 DEF AsyncReset, ClearedByReset, ClearIoQueues, AtTop, LinkLost
<1>13. CASE FinishReset
  BY <1>13 DEF FinishReset, At
<1>14. CASE SetIdle
  BY <1>14 DEF SetIdle, At
<1>15. CASE EnterHandler
  BY <1>15 DEF EnterHandler
<1>16. CASE LeaveHandler
  BY <1>16 DEF LeaveHandler, NextStatus, StatusAfterCcEn, StatusAfterLink
<1>17. CASE HostEnables
  BY <1>17 DEF HostEnables, Settled
<1>18. CASE HostSeesReady
  BY <1>18 DEF HostSeesReady, Settled
<1>19. CASE HostShutsDown
  BY <1>19 DEF HostShutsDown
<1>20. CASE HostDisables
  BY <1>20 DEF HostDisables, Settled
<1>21. CASE DmaDone
  BY <1>21 DEF DmaDone
<1>22. CASE LinkDown
  BY <1>22 DEF LinkDown, LinkLost
<1>23. CASE LinkUp
  BY <1>23 DEF LinkUp
<1>24. CASE UNCHANGED vars
  BY <1>24 DEF vars
<1>. QED
  BY <1>1, <1>2, <1>3, <1>4, <1>5, <1>6, <1>7, <1>8, <1>9, <1>10, <1>11, <1>12,
      <1>13, <1>14, <1>15, <1>16, <1>17, <1>18, <1>19, <1>20, <1>21, <1>22, <1>23, <1>24
  DEF Next, MainLoop, Environment

\* What CSTS.SHST # 0 promises the host.
LEMMA NextShutdown == IInv /\ [Next]_vars => ShutdownInv'
<1>. SUFFICES ASSUME IInv, [Next]_vars PROVE ShutdownInv'
  OBVIOUS
<1>. USE DEF IInv, Ranges, NotReadyInv, SessionInv, ShutdownInv, NoSession, Raised,
     NotInHandler, Causes, Statuses, hostVars, queueVars, slotVars
<1>1. CASE Enable
  BY <1>1 DEF Enable, AtTop
<1>2. CASE SetRunning
  BY <1>2 DEF SetRunning, At
<1>3. CASE GetNvmeCmd
  BY <1>3 DEF GetNvmeCmd, AtTop
<1>4. CASE HandleAdminCommand
  BY <1>4 DEF HandleAdminCommand, At, CommandDone, IoSqAfter, IoCqAfter, CacheEnAfter
<1>5. CASE HandleIoCommand
  BY <1>5 DEF HandleIoCommand, At, CommandDone
<1>6. CASE Quiesce
  BY <1>6 DEF Quiesce, AtTop, ClearIoQueues
<1>7. CASE ReportShutdown
  BY <1>7 DEF ReportShutdown, At
<1>8. CASE SetWaitReset
  BY <1>8 DEF SetWaitReset, At
<1>9. CASE SaveBadBlocks
  BY <1>9 DEF SaveBadBlocks, At
<1>10. CASE Disable
  BY <1>10 DEF Disable, AtTop
<1>11. CASE CountReset
  BY <1>11 DEF CountReset, ClearedByReset, ClearIoQueues, AtTop
<1>12. CASE AsyncReset
  BY <1>12 DEF AsyncReset, ClearedByReset, ClearIoQueues, AtTop, LinkLost
<1>13. CASE FinishReset
  BY <1>13 DEF FinishReset, At
<1>14. CASE SetIdle
  BY <1>14 DEF SetIdle, At
<1>15. CASE EnterHandler
  BY <1>15 DEF EnterHandler
<1>16. CASE LeaveHandler
  BY <1>16 DEF LeaveHandler, NextStatus, StatusAfterCcEn, StatusAfterLink
<1>17. CASE HostEnables
  BY <1>17 DEF HostEnables, Settled
<1>18. CASE HostSeesReady
  BY <1>18 DEF HostSeesReady, Settled
<1>19. CASE HostShutsDown
  BY <1>19 DEF HostShutsDown
<1>20. CASE HostDisables
  BY <1>20 DEF HostDisables, Settled
<1>21. CASE DmaDone
  BY <1>21 DEF DmaDone
<1>22. CASE LinkDown
  BY <1>22 DEF LinkDown, LinkLost
<1>23. CASE LinkUp
  BY <1>23 DEF LinkUp
<1>24. CASE UNCHANGED vars
  BY <1>24 DEF vars
<1>. QED
  BY <1>1, <1>2, <1>3, <1>4, <1>5, <1>6, <1>7, <1>8, <1>9, <1>10, <1>11, <1>12,
      <1>13, <1>14, <1>15, <1>16, <1>17, <1>18, <1>19, <1>20, <1>21, <1>22, <1>23, <1>24
  DEF Next, MainLoop, Environment

\* The invariant is inductive.
LEMMA NextIInv == IInv /\ [Next]_vars => IInv'
  BY NextFlags, NextRanges, NextCommandSlot, NextNotReady, NextSession, NextShutdown DEF IInv

LEMMA Invariance == Spec => []IInv
  BY InitIInv, NextIInv, PTL DEF Spec

\* Every variable stays within its type: the status, the program counters of
\* the loop and the handler, and the sets of queues and slots.
THEOREM ControllerTypes == Spec => []TypeOK
  BY Invariance, IInvTypes, PTL

\* A controller that tells the host the session is over (RDY cleared, or
\* shutdown complete) keeps nothing of it, wherever the interrupts came.
THEOREM SessionEnds == Spec => []SessionEndsClean
  BY Invariance, IInvEndsClean, PTL

\* The host sends the commands the controller announces.
Announced == "Unreleased" \notin HostOps

\* SlotsReturned, and what keeps it: the command being handled is an announced
\* one.
SlotInv == SlotsReturned /\ (pc = "command" => cmd.op # "Unreleased")

\* Each step takes a free slot, gives one back, or hands it to the DMA.
LEMMA NextSlots == Announced /\ SlotInv /\ Ranges /\ CommandSlot /\ [Next]_vars => SlotInv'
<1>. SUFFICES ASSUME Announced, SlotInv, Ranges, CommandSlot, [Next]_vars PROVE SlotInv'
  OBVIOUS
<1>. USE OpsAssumption DEF Announced, SlotInv, SlotsReturned, Ranges, CommandSlot, hostVars, queueVars, slotVars
<1>1. CASE Enable
  BY <1>1 DEF Enable, AtTop
<1>2. CASE SetRunning
  BY <1>2 DEF SetRunning, At
<1>3. CASE GetNvmeCmd
  BY <1>3 DEF GetNvmeCmd, AtTop
<1>4. CASE HandleAdminCommand
  BY <1>4 DEF HandleAdminCommand, At, CommandDone, AdminReleasesSlot
<1>5. CASE HandleIoCommand
  BY <1>5 DEF HandleIoCommand, At, CommandDone
<1>6. CASE Quiesce
  BY <1>6 DEF Quiesce, AtTop, ClearIoQueues
<1>7. CASE ReportShutdown
  BY <1>7 DEF ReportShutdown, At
<1>8. CASE SetWaitReset
  BY <1>8 DEF SetWaitReset, At
<1>9. CASE SaveBadBlocks
  BY <1>9 DEF SaveBadBlocks, At
<1>10. CASE Disable
  BY <1>10 DEF Disable, AtTop
<1>11. CASE CountReset
  BY <1>11 DEF CountReset, ClearedByReset, ClearIoQueues, AtTop
<1>12. CASE AsyncReset
  BY <1>12 DEF AsyncReset, ClearedByReset, ClearIoQueues, AtTop, LinkLost
<1>13. CASE FinishReset
  BY <1>13 DEF FinishReset, At
<1>14. CASE SetIdle
  BY <1>14 DEF SetIdle, At
<1>15. CASE EnterHandler
  BY <1>15 DEF EnterHandler
<1>16. CASE LeaveHandler
  BY <1>16 DEF LeaveHandler, NextStatus, StatusAfterCcEn, StatusAfterLink
<1>17. CASE HostEnables
  BY <1>17 DEF HostEnables, Settled
<1>18. CASE HostSeesReady
  BY <1>18 DEF HostSeesReady, Settled
<1>19. CASE HostShutsDown
  BY <1>19 DEF HostShutsDown
<1>20. CASE HostDisables
  BY <1>20 DEF HostDisables, Settled
<1>21. CASE DmaDone
  BY <1>21 DEF DmaDone
<1>22. CASE LinkDown
  BY <1>22 DEF LinkDown, LinkLost
<1>23. CASE LinkUp
  BY <1>23 DEF LinkUp
<1>24. CASE UNCHANGED vars
  BY <1>24 DEF vars
<1>. QED
  BY <1>1, <1>2, <1>3, <1>4, <1>5, <1>6, <1>7, <1>8, <1>9, <1>10, <1>11, <1>12,
      <1>13, <1>14, <1>15, <1>16, <1>17, <1>18, <1>19, <1>20, <1>21, <1>22, <1>23, <1>24
  DEF Next, MainLoop, Environment

\* Both command handlers return the slot of every announced command, or leave
\* it to the DMA that answers for it.
THEOREM SlotsDoNotLeak == ASSUME Announced PROVE Spec => []SlotsReturned
<1>1. Init => SlotInv
  BY DEF Init, SlotInv, SlotsReturned
<1>2. IInv /\ SlotInv /\ [Next]_vars => SlotInv'
  BY NextSlots DEF IInv
<1>3. SlotInv => SlotsReturned
  BY DEF SlotInv
<1>. QED
  BY <1>1, <1>2, <1>3, Invariance, PTL DEF Spec
=============================================================================
