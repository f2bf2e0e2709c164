---------------------------- MODULE CrashHandler ----------------------------
(* The POSIX crash handler (src/crash_handler.c).  Signal dispositions belong *)
(* to the process, a synchronous fault to the thread that runs into it; a     *)
(* handler that returns without having removed the cause runs into the same   *)
(* fault again.  The managed runtime, whose handlers were installed first,    *)
(* turns its own faults into exceptions: it is external, as the code uses it. *)
EXTENDS Integers, FiniteSets

CONSTANTS
  Threads,
  Caught,    \* the signals the runtime had a handler for
  MaxFaults  \* bound on the faults of a behaviour

ASSUME CrashAssumption == MaxFaults \in Nat

\* Faults: a null reference of managed code (SIGSEGV, low address), a division by zero of
\* managed code (SIGFPE, whose si_addr is the instruction), and real crashes.
Faults  == {"null", "divide", "segv", "fpe", "abort"}
Signals == {"SEGV", "FPE", "ABRT"}
SignalOf(f) == CASE f \in {"null", "segv"} -> "SEGV" [] f \in {"divide", "fpe"} -> "FPE" [] f = "abort" -> "ABRT"
LowAddress(f) == f = "null"
Managed(f)    == f \in {"null", "divide"}

VARIABLES
  disposition,  \* signal -> who handles it
  prevSaved,    \* g_prev_saved
  inProgress,   \* g_crash_in_progress
  crashMutex,   \* owner of g_crash_mutex
  at,           \* thread -> where it is
  fault,        \* thread -> what it ran into
  logLocked,    \* the thread that was inside the logger when it faulted holds its lock
  logOpen,      \* tefkernel_log_cleanup not yet run
  reported,     \* history: the threads whose whole report was logged while the log was open
  alive,
  faults        \* how many there have been

crashVars == <<disposition, prevSaved, inProgress, crashMutex, at, fault, logLocked, logOpen, reported, alive, faults>>
restOfCrash == <<disposition, prevSaved, inProgress, crashMutex, logLocked, logOpen, reported, alive, faults>>

Nobody == "nobody"
Ok     == "ok"

CrashInit == /\ disposition = [s \in Signals |-> IF s \in Caught THEN "runtime" ELSE "default"]
             /\ prevSaved = [s \in Signals |-> FALSE]
             /\ inProgress = FALSE /\ crashMutex = Nobody
             /\ at = [t \in Threads |-> "run"] /\ fault = [t \in Threads |-> Ok]
             /\ logLocked = Nobody /\ logOpen = TRUE /\ reported = {}
             /\ alive = TRUE /\ faults = 0

\* tefkernel_crash_handler_init, before the mods run.
Install == /\ \A s \in Signals : ~prevSaved[s]
           /\ disposition' = [s \in Signals |-> "ours"]
           /\ prevSaved' = [s \in Signals |-> TRUE]
           /\ UNCHANGED <<inProgress, crashMutex, at, fault, logLocked, logOpen, reported, alive, faults>>

\* Thread t runs into f, possibly inside the logger with its lock held.
Fault(t, f, inLogger) ==
  /\ at[t] = "run" /\ faults < MaxFaults /\ \E s \in Signals : prevSaved[s]
  /\ inLogger => logLocked = Nobody
  /\ at' = [at EXCEPT ![t] = "faulting"] /\ fault' = [fault EXCEPT ![t] = f]
  /\ logLocked' = IF inLogger THEN t ELSE logLocked
  /\ faults' = faults + 1
  /\ UNCHANGED <<disposition, prevSaved, inProgress, crashMutex, logOpen, reported, alive>>

\* The kernel delivers the signal to whoever handles it.
Survives(t) == at' = [at EXCEPT ![t] = "run"] /\ fault' = [fault EXCEPT ![t] = Ok]
               /\ logLocked' = IF logLocked = t THEN Nobody ELSE logLocked
Deliver(t) ==
  LET d == disposition[SignalOf(fault[t])] IN
  /\ at[t] = "faulting"
  /\ \/ /\ d = "ours" /\ at' = [at EXCEPT ![t] = "handler"]
        /\ UNCHANGED <<fault, logLocked, alive>>
     \/ /\ d = "runtime" /\ Managed(fault[t]) /\ Survives(t) /\ UNCHANGED alive
     \/ /\ d = "default" \/ (d = "runtime" /\ ~Managed(fault[t]))
        /\ alive' = FALSE /\ UNCHANGED <<at, fault, logLocked>>
  /\ UNCHANGED <<disposition, prevSaved, inProgress, crashMutex, logOpen, reported, faults>>

\* posix_signal_handler: a low address goes back to the handler before, which is put back for good.
CanForward(t) == prevSaved[SignalOf(fault[t])] /\ SignalOf(fault[t]) \in Caught
Forward(t) == /\ at[t] = "handler" /\ LowAddress(fault[t]) /\ CanForward(t)
              /\ disposition' = [disposition EXCEPT ![SignalOf(fault[t])] = "runtime"]
              /\ Survives(t)
              /\ UNCHANGED <<prevSaved, inProgress, crashMutex, logOpen, reported, alive, faults>>
NotForwarded(t) == at[t] = "handler" /\ ~(LowAddress(fault[t]) /\ CanForward(t))

\* g_crash_in_progress is tested, and set in another step.
TestSeen(t) == /\ NotForwarded(t) /\ inProgress     \* return, and fault again
               /\ at' = [at EXCEPT ![t] = "faulting"]
               /\ UNCHANGED <<fault, restOfCrash>>
TestClear(t) == /\ NotForwarded(t) /\ ~inProgress
                /\ at' = [at EXCEPT ![t] = "tested"]
                /\ UNCHANGED <<fault, restOfCrash>>
SetFlag(t) == /\ at[t] = "tested" /\ inProgress' = TRUE
              /\ at' = [at EXCEPT ![t] = "locking"]
              /\ UNCHANGED <<disposition, prevSaved, crashMutex, fault, logLocked, logOpen, reported, alive, faults>>
LockCrash(t) == /\ at[t] = "locking" /\ crashMutex = Nobody
                /\ crashMutex' = t /\ at' = [at EXCEPT ![t] = "report"]
                /\ UNCHANGED <<disposition, prevSaved, inProgress, fault, logLocked, logOpen, reported, alive, faults>>
\* The report takes the log's lock for every line; a thread that faulted inside the logger holds it.
Report(t) == /\ at[t] = "report" /\ logLocked = Nobody
             /\ reported' = (IF logOpen THEN reported \union {t} ELSE reported)
             /\ at' = [at EXCEPT ![t] = "cleanup"]
             /\ UNCHANGED <<disposition, prevSaved, inProgress, crashMutex, fault, logLocked, logOpen, alive, faults>>
LogCleanup(t) == /\ at[t] = "cleanup" /\ logOpen' = FALSE
                 /\ at' = [at EXCEPT ![t] = "unlock"]
                 /\ UNCHANGED <<disposition, prevSaved, inProgress, crashMutex, fault, logLocked, reported, alive, faults>>
UnlockCrash(t) == /\ at[t] = "unlock" /\ crashMutex' = Nobody
                  /\ at' = [at EXCEPT ![t] = "reset"]
                  /\ UNCHANGED <<disposition, prevSaved, inProgress, fault, logLocked, logOpen, reported, alive, faults>>
ResetDefault_BeforeReport(t) == /\ at[t] = "report"     \* mutant: the default first, the report after
                                /\ disposition' = [disposition EXCEPT ![SignalOf(fault[t])] = "default"]
                                /\ at' = [at EXCEPT ![t] = "raise"]
                                /\ UNCHANGED <<prevSaved, inProgress, crashMutex, fault, logLocked, logOpen, reported, alive, faults>>
ResetDefault_Forgotten(t) == /\ at[t] = "reset"     \* mutant: raise finds our handler again
                             /\ at' = [at EXCEPT ![t] = "faulting"]
                             /\ UNCHANGED <<fault, restOfCrash>>
ResetDefault(t) == /\ at[t] = "reset"
                   /\ disposition' = [disposition EXCEPT ![SignalOf(fault[t])] = "default"]
                   /\ at' = [at EXCEPT ![t] = "raise"]
                   /\ UNCHANGED <<prevSaved, inProgress, crashMutex, fault, logLocked, logOpen, reported, alive, faults>>
Raise(t) == /\ at[t] = "raise" /\ alive' = FALSE
            /\ UNCHANGED <<disposition, prevSaved, inProgress, crashMutex, at, fault, logLocked, logOpen, reported, faults>>

Handling(t) == Deliver(t) \/ Forward(t) \/ TestSeen(t) \/ TestClear(t) \/ SetFlag(t) \/ LockCrash(t)
               \/ Report(t) \/ LogCleanup(t) \/ UnlockCrash(t) \/ ResetDefault(t) \/ Raise(t)

CrashNext == /\ alive
             /\ \/ Install
                \/ \E t \in Threads : Handling(t)
                \/ \E t \in Threads, f \in Faults, l \in BOOLEAN : Fault(t, f, l)

\* Every thread that can take a step of its handler takes it.
CrashFairness == \A t \in Threads : WF_crashVars(alive /\ Handling(t))
CrashSpec == CrashInit /\ [][CrashNext]_crashVars /\ CrashFairness

-----------------------------------------------------------------------------
\* Type invariant.
CrashTypeOK ==
  /\ disposition \in [Signals -> {"runtime", "default", "ours"}] /\ prevSaved \in [Signals -> BOOLEAN]
  /\ inProgress \in BOOLEAN /\ crashMutex \in Threads \union {Nobody} /\ logLocked \in Threads \union {Nobody}
  /\ fault \in [Threads -> Faults \union {Ok}] /\ \A t \in Threads : fault[t] = Ok <=> at[t] = "run"
  /\ reported \subseteq Threads /\ faults \in 0..MaxFaults

\* The process dies only when a whole report was written, although each handler sees the
\* dispositions the others change - except of a crash that finds the runtime's handler in
\* place, because an earlier null reference put it back.
ReportedBeforeDeath ==
  [][alive /\ ~alive' => reported # {} \/ \E t \in Threads : at[t] = "faulting" /\ disposition[SignalOf(fault[t])] = "runtime"]_crashVars

\* A fault does not hang the process: a null reference of managed code goes on, a crash
\* ends the process, whatever the other threads run into meanwhile - unless one
\* of them faulted with the log's lock held.
FaultsEnd == \A t \in Threads : at[t] = "faulting" ~> at[t] = "run" \/ ~alive \/ logLocked # Nobody

\* What the comment above g_prev_action promises: the runtime's own faults are given back
\* to it and never become a crash.  A division by zero has no low address.
ManagedFaultsGoBack == \A t \in Threads : at[t] = "tested" => ~Managed(fault[t])
=============================================================================
