------------------------------ MODULE DeviceMC ------------------------------
(* Small instances of AudioVoices, CrashHandler, ButtonInput and             *)
(* ButtonBindings for TLC.  They share no state: in a behaviour only the one  *)
(* that `part' names moves, which adds up their states instead of multiplying *)
(* them.  The buttons are taken twice: a plain and a radial one under one     *)
(* finger, and one plain button under all fingers.  The fairness is that of   *)
(* each module, while it is the one.                                          *)
EXTENDS AudioVoices, CrashHandler, ButtonInput, ButtonBindings

VARIABLE part

\* No radial slot among those bound.
NoParts == [s \in Slots |-> {}]

deviceVars == <<voiceVars, crashVars, inputVars, bindVars, part>>

\* What the two parts of the buttons leave out: all fingers but the first, and the radial group.
Restricted == \/ part = "input" /\ wasDown \union {claims[i].cursor : i \in DOMAIN claims} \subseteq {1}
              \/ part = "touch" /\ \A i \in DOMAIN actions : actions[i].key \notin RadialKeys
OnButtons(step) == part \in {"input", "touch"} /\ UNCHANGED part /\ step /\ Restricted'

DeviceInit == /\ part \in {"voice", "crash", "input", "touch", "bind"}
              /\ VoiceInit /\ CrashInit /\ InputInit /\ BindInit

DeviceNext ==
  /\ UNCHANGED part
  /\ \/ part = "voice" /\ VoiceNext /\ UNCHANGED <<crashVars, inputVars, bindVars>>
     \/ part = "crash" /\ CrashNext /\ UNCHANGED <<voiceVars, inputVars, bindVars>>
     \/ OnButtons(InputNext) /\ UNCHANGED <<voiceVars, crashVars, bindVars>>
     \/ part = "bind" /\ BindNext /\ UNCHANGED <<voiceVars, crashVars, inputVars>>

DeviceFairness ==
  /\ WF_voiceVars(part = "voice" /\ VoiceCallback) /\ WF_voiceVars(part = "voice" /\ PlayStep)
  /\ \A u \in Users : WF_voiceVars(part = "voice" /\ AskStep(u))
  /\ \A t \in Threads : WF_crashVars(part = "crash" /\ alive /\ Handling(t))
  /\ WF_inputVars(OnButtons(Frame)) /\ WF_inputVars(OnButtons(Tick))

DeviceSpec == DeviceInit /\ [][DeviceNext]_deviceVars /\ DeviceFairness

\* The type invariants of the four modules, with what a held button and the two histories of the
\* editor promise.
DeviceInv == VoiceTypeOK /\ CrashTypeOK /\ InputTypeOK /\ HeldIsTouched /\ BindTypeOK /\ HistoryFits
=============================================================================
