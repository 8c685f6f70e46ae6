----------------------------- MODULE MgmtCommands -----------------------------
(***************************************************************************)
(* The doorbell between a host and the task MgmtCmdHandler                 *)
(* (bcm8953x_ipc.c): the host queues a command in a shared buffer and      *)
(* forces an interrupt; the ISR masks the line and sets an event; the      *)
(* handler runs the command, takes the interrupt back, enables the line,   *)
(* and tells the host that the command is done and the reply there.        *)
(*                                                                         *)
(* The host keeps to the Queued bits: it queues a command when the command *)
(* register is Available, and rings once for it. It takes replies when it  *)
(* sees them, at any moment.                                               *)
(***************************************************************************)
EXTENDS Naturals

CONSTANTS MaxCommands   \* bound

VARIABLES
  spare14, spare15, \* the Queued bits of the two registers
  forced,           \* CFG_CPU_INTR_FORCE[7]
  softLine, cmdEvent, \* the line is enabled in the VIC; CmdEvent
  mgmtPc,
  sent, rung,       \* the host: commands queued, and rung for
  executed          \* history: commands run

mgmtVars == <<spare14, spare15, forced, softLine, cmdEvent, mgmtPc, sent, rung, executed>>
hostVars == <<sent, rung>>

\* mgmt_init and vic_config; the handler waits.
MgmtInit ==
  /\ spare14 = FALSE /\ spare15 = FALSE /\ forced = FALSE
  /\ softLine = TRUE /\ cmdEvent = FALSE /\ mgmtPc = "wait"
  /\ sent = 0 /\ rung = 0 /\ executed = 0

\* The host queues a command; rings the bell; takes a reply.
HostQueue ==
  /\ ~spare14 /\ sent = rung /\ sent < MaxCommands
  /\ spare14' = TRUE /\ sent' = sent + 1
  /\ UNCHANGED <<spare15, forced, softLine, cmdEvent, mgmtPc, rung, executed>>

HostRing ==
  /\ rung < sent
  /\ forced' = TRUE /\ rung' = sent
  /\ UNCHANGED <<spare14, spare15, softLine, cmdEvent, mgmtPc, sent, executed>>

HostTakesReply ==
  /\ spare15
  /\ spare15' = FALSE
  /\ UNCHANGED <<spare14, forced, softLine, cmdEvent, mgmtPc, hostVars, executed>>

\* soft2vic_irq_handler
SoftIrq ==
  /\ forced /\ softLine
  /\ softLine' = FALSE /\ cmdEvent' = TRUE
  /\ UNCHANGED <<spare14, spare15, forced, mgmtPc, hostVars, executed>>

\* MgmtCmdHandler from WaitEvent to ClearEvent
CmdWakes ==
  /\ mgmtPc = "wait" /\ cmdEvent
  /\ cmdEvent' = FALSE /\ mgmtPc' = "run"
  /\ UNCHANGED <<spare14, spare15, forced, softLine, hostVars, executed>>

\* ... raiseMgmtCallback of a command that is queued
CmdRun ==
  /\ mgmtPc = "run"
  /\ executed' = IF spare14 THEN executed + 1 ELSE executed
  /\ mgmtPc' = "unforce"
  /\ UNCHANGED <<spare14, spare15, forced, softLine, cmdEvent, hostVars>>

\* Mutant of CmdUnforce.
CmdKeepsForce ==   \* the source stays raised
  /\ mgmtPc = "unforce"
  /\ mgmtPc' = "enable"
  /\ UNCHANGED <<spare14, spare15, forced, softLine, cmdEvent, hostVars, executed>>

\* ... clear the source of the interrupt
CmdUnforce ==
  /\ mgmtPc = "unforce"
  /\ forced' = FALSE /\ mgmtPc' = "enable"
  /\ UNCHANGED <<spare14, spare15, softLine, cmdEvent, hostVars, executed>>

\* ... VIC_INT_ENABLE
CmdEnable ==
  /\ mgmtPc = "enable"
  /\ softLine' = TRUE /\ mgmtPc' = "done"
  /\ UNCHANGED <<spare14, spare15, forced, cmdEvent, hostVars, executed>>

\* ... "Let host know that cmd is processed"
CmdDone ==
  /\ mgmtPc = "done"
  /\ spare14' = FALSE /\ mgmtPc' = "reply"
  /\ UNCHANGED <<spare15, forced, softLine, cmdEvent, hostVars, executed>>

\* ... "Let host know that reply is available"
CmdReply ==
  /\ mgmtPc = "reply"
  /\ spare15' = TRUE /\ mgmtPc' = "wait"
  /\ UNCHANGED <<spare14, forced, softLine, cmdEvent, hostVars, executed>>

MgmtNext ==
  \/ HostQueue \/ HostRing \/ HostTakesReply \/ SoftIrq
  \/ CmdWakes \/ CmdRun \/ CmdUnforce \/ CmdEnable \/ CmdDone \/ CmdReply
MgmtSpec == MgmtInit /\ [][MgmtNext]_mgmtVars

-----------------------------------------------------------------------------
\* Every command the host rings for is run exactly once: it is neither lost at the
\* hand-over between doorbell, ISR and handler, which enables its line before it
\* is ready to wait, nor is the handler woken again for one it has run.
CommandOnce ==
  LET notRun == sent - executed IN
  /\ notRun \in {0, 1}
  /\ mgmtPc = "wait" /\ rung > executed => cmdEvent \/ (forced /\ softLine)
  /\ cmdEvent \/ (forced /\ softLine) => spare14 /\ notRun = 1
=============================================================================
