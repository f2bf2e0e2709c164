----------------------------- MODULE LoggingMC -----------------------------
(* Small instances of LogRing and KernelLog for TLC.  The two logs share no   *)
(* state: in a behaviour only the one that `part' names moves, which adds up  *)
(* their states instead of multiplying them.  The fairness is that of each    *)
(* module, while it is the one.                                               *)
EXTENDS LogRing, KernelLog

VARIABLE part

loggingVars == <<vars, kernelLogVars, part>>

LoggingInit == part \in {"ring", "kernel"} /\ Init /\ KernelInit

LoggingNext ==
  /\ UNCHANGED part
  /\ \/ part = "ring" /\ Next /\ UNCHANGED kernelLogVars
     \/ part = "kernel" /\ KernelNext /\ UNCHANGED vars

LoggingFairness ==
  /\ \A p \in Producers : WF_vars(part = "ring" /\ ProducerStep(p))
  /\ \A c \in Consumers : WF_vars(part = "ring" /\ ConsumerStep(c))
  /\ WF_kernelLogVars(part = "kernel" /\ ThreadStep)
  /\ WF_kernelLogVars(part = "kernel" /\ KernelStep)
  /\ \A w \in Writers : WF_kernelLogVars(part = "kernel" /\ Enqueue(w))

LoggingSpec == LoggingInit /\ [][LoggingNext]_loggingVars /\ LoggingFairness
=============================================================================
