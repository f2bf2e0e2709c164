----------------------------- MODULE DeviceProofs ------------------------------
(******************************************************************************)
(* Theorems about AudioVoices, CrashHandler, ButtonBindings and ButtonInput,  *)
(* for a table of voices of any size, any sources, users, threads and         *)
(* signals, any profiles, slots, keys and depth, any actions and fingers.     *)
(* The four share no state and each has an inductive invariant of its own;    *)
(* the last theorem puts them side by side.                                   *)
(*                                                                            *)
(* That nobody dies unreported is a matter of who may find the default action *)
(* in place: only the reset after a report puts it there once the handlers    *)
(* are installed, and no report is dropped because the log is closed unless   *)
(* there is one already.  The refinement of the button editor needs that both *)
(* histories together fit into the depth: otherwise undo could make           *)
(* push_history drop a state of the future.  A held button is touched since   *)
(* what normal_held says of an index is true of the action that is there      *)
(* (PlainHeld): whatever moves the actions lets all plain buttons go.         *)
(******************************************************************************)
EXTENDS DeviceMC, InductionProofs, FiniteSetTheorems, SequenceTheorems, TLAPS

--------------------------------------------------------------------------------
(* The voices of the mixer.                                                   *)
Sources == Tracks \union {NoTrack}
VoiceRecord   == [state : {"free", "active", "stopping"}, ready : BOOLEAN, audio : Sources, pos : 0..Frames,
                  paused : BOOLEAN, stop : BOOLEAN]
MixerRecord   == [at : {"idle", "look", "flags", "take", "mix"}, slot : VoiceSlot, audio : Sources, pos : 0..Frames]
PlayRecord    == [at : {"none", "unready", "audio", "publish"}, user : Users \union {NoPlay.user}, slot : VoiceSlot,
                  audio : Sources]
RequestRecord == [op : {"none", "stop", "pause", "resume", "stop_all"}, slot : VoiceSlot, audio : Sources, hit : BOOLEAN]

VoiceShape == /\ voice \in [VoiceSlot -> VoiceRecord] /\ mixer \in MixerRecord /\ playing \in PlayRecord
              /\ request \in [Users -> RequestRecord] /\ quiet \subseteq VoiceSlot

\* The slots that were silent when the callback began still are, and it is past the flags of none of them.
StillQuiet == /\ \A s \in quiet : Hushed(s)
              /\ mixer.at \in {"take", "mix"} => mixer.slot \notin quiet

VoiceIInv == VoiceShape /\ StillQuiet

\* The table is empty when the device opens.
LEMMA VoiceInitInv == VoiceInit => VoiceIInv
<1> SUFFICES ASSUME VoiceInit PROVE VoiceIInv OBVIOUS
<1>1. 1 \in VoiceSlot /\ 0 \in 0..Frames BY AudioAssumption DEF AudioAssumption, VoiceSlot
<1>2. voice \in [VoiceSlot -> VoiceRecord] BY <1>1 DEF VoiceInit, FreeVoice, VoiceRecord, Sources
<1>3. mixer \in MixerRecord BY <1>1 DEF VoiceInit, MixerIdle, MixerRecord, Sources
<1>4. playing \in PlayRecord BY <1>1 DEF VoiceInit, NoPlay, PlayRecord, Sources
<1>5. request \in [Users -> RequestRecord] BY <1>1 DEF VoiceInit, NoRequest, RequestRecord, Sources
<1>6. StillQuiet BY DEF VoiceInit, MixerIdle, StillQuiet
<1> QED BY <1>2, <1>3, <1>4, <1>5, <1>6 DEF VoiceIInv, VoiceShape, VoiceInit

\* Where the callback and a call go next keeps its type.
LEMMA NextTypes ==
  ASSUME VoiceShape
  PROVE  /\ MixerIdle \in MixerRecord /\ NoPlay \in PlayRecord /\ NoRequest \in RequestRecord
         /\ NextSlot \in MixerRecord /\ NextSlot.at \in {"idle", "look"}
         /\ \A r \in RequestRecord : NextRequest(r) \in RequestRecord
<1>1. 1 \in VoiceSlot /\ 0 \in 0..Frames BY AudioAssumption DEF AudioAssumption, VoiceSlot
<1>2. MixerIdle \in MixerRecord /\ NoPlay \in PlayRecord /\ NoRequest \in RequestRecord
  BY <1>1 DEF MixerIdle, MixerRecord, NoPlay, PlayRecord, NoRequest, RequestRecord, Sources
<1>3. NextSlot \in MixerRecord /\ NextSlot.at \in {"idle", "look"}
  <2>1. mixer.slot \in VoiceSlot BY DEF VoiceShape, MixerRecord
  <2>2. mixer.slot # Voices => mixer.slot + 1 \in VoiceSlot
    BY <2>1, AudioAssumption DEF AudioAssumption, VoiceSlot
  <2> QED BY <1>1, <2>1, <2>2 DEF NextSlot, MixerIdle, MixerRecord, Sources
<1>4. ASSUME NEW r \in RequestRecord PROVE NextRequest(r) \in RequestRecord
  <2>1. r.slot \in VoiceSlot BY DEF RequestRecord
  <2>2. r.slot < Voices => r.slot + 1 \in VoiceSlot
    BY <2>1, AudioAssumption DEF AudioAssumption, VoiceSlot
  <2> QED BY <1>2, <2>1, <2>2 DEF NextRequest, RequestRecord
<1> QED BY <1>2, <1>3, <1>4

\* A step that leaves the flags alone, and the callback where it was.
LEMMA FlagsKept ==
  ASSUME VoiceIInv, voice' \in [VoiceSlot -> VoiceRecord], playing' \in PlayRecord,
         \A s \in VoiceSlot : voice'[s].stop = voice[s].stop /\ voice'[s].paused = voice[s].paused,
         UNCHANGED <<mixer, request>>, quiet' \subseteq quiet
  PROVE  VoiceIInv'
<1>1. VoiceShape' BY DEF VoiceIInv, VoiceShape
<1>2. StillQuiet'
  <2>1. \A s \in quiet' : Hushed(s)' BY DEF VoiceIInv, VoiceShape, StillQuiet, Hushed
  <2> QED BY <2>1 DEF VoiceIInv, StillQuiet
<1> QED BY <1>1, <1>2 DEF VoiceIInv

\* A step of the callback or of a caller keeps the table of voices well-formed, and what was quiet quiet.
LEMMA VoiceStepInv == VoiceIInv /\ [VoiceNext]_voiceVars => VoiceIInv'
<1> SUFFICES ASSUME VoiceIInv, [VoiceNext]_voiceVars PROVE VoiceIInv' OBVIOUS
<1> USE DEF VoiceIInv
<1>0. 0 \in 0..Frames /\ Frames \in Nat \ {0} /\ 1 \in 0..Frames BY AudioAssumption DEF AudioAssumption
<1>1. CASE UNCHANGED voiceVars BY <1>1 DEF voiceVars, VoiceShape, StillQuiet, Hushed
<1>2. ASSUME NEW u \in Users, NEW t \in Tracks, NEW s \in VoiceSlot, PlayReserve(u, t, s) PROVE VoiceIInv'
  <2>1. voice' \in [VoiceSlot -> VoiceRecord] BY <1>2 DEF PlayReserve, VoiceShape, VoiceRecord
  <2>2. playing' \in PlayRecord BY <1>2 DEF PlayReserve, PlayRecord, Sources
  <2>3. \A r \in VoiceSlot : voice'[r].stop = voice[r].stop /\ voice'[r].paused = voice[r].paused
    BY <1>2 DEF PlayReserve, VoiceShape, VoiceRecord
  <2> QED BY <1>2, <2>1, <2>2, <2>3, FlagsKept DEF PlayReserve
<1>3. CASE PlayUnready
  <2>1. voice' \in [VoiceSlot -> VoiceRecord] BY <1>3, ZenonT(60) DEF PlayUnready, VoiceShape, VoiceRecord
  <2>2. playing' \in PlayRecord BY <1>3 DEF PlayUnready, VoiceShape, PlayRecord
  <2>3. \A r \in VoiceSlot : voice'[r].stop = voice[r].stop /\ voice'[r].paused = voice[r].paused
    BY <1>3 DEF PlayUnready, VoiceShape, VoiceRecord
  <2> QED BY <1>3, <2>1, <2>2, <2>3, FlagsKept DEF PlayUnready
<1>4. CASE PlayAudio
  <2>1. playing.audio \in Sources BY DEF VoiceShape, PlayRecord
  <2>2. voice' \in [VoiceSlot -> VoiceRecord] BY <1>4, <2>1, ZenonT(60) DEF PlayAudio, VoiceShape, VoiceRecord
  <2>3. playing' \in PlayRecord BY <1>4 DEF PlayAudio, VoiceShape, PlayRecord
  <2>4. \A r \in VoiceSlot : voice'[r].stop = voice[r].stop /\ voice'[r].paused = voice[r].paused
    BY <1>4 DEF PlayAudio, VoiceShape, VoiceRecord
  <2> QED BY <1>4, <2>2, <2>3, <2>4, FlagsKept DEF PlayAudio
<1>5. CASE PlayPublish
  <2>1. VoiceShape' BY <1>0, <1>5, NextTypes, ZenonT(60) DEF PlayPublish, VoiceShape, VoiceRecord, PlayRecord
  <2>2. StillQuiet' BY <1>5 DEF PlayPublish, VoiceShape, VoiceRecord, PlayRecord, StillQuiet, Hushed
  <2> QED BY <2>1, <2>2
<1>6. ASSUME NEW u \in Users, NEW op \in {"stop", "pause", "resume"}, NEW s \in VoiceSlot, AskVoice(u, op, s)
      PROVE  VoiceIInv'
  BY <1>6 DEF AskVoice, VoiceShape, RequestRecord, Sources, StillQuiet, Hushed
<1>7. ASSUME NEW u \in Users, NEW t \in Tracks, AskAll(u, t) PROVE VoiceIInv'
  <2>1. 1 \in VoiceSlot BY AudioAssumption DEF AudioAssumption, VoiceSlot
  <2> QED BY <1>7, <2>1 DEF AskAll, VoiceShape, RequestRecord, Sources, StillQuiet, Hushed
<1>8. ASSUME NEW u \in Users, TestOfAll(u) PROVE VoiceIInv'
  <2>1. request[u] \in RequestRecord /\ NextRequest(request[u]) \in RequestRecord BY NextTypes DEF VoiceShape
  <2>2. [request[u] EXCEPT !.hit = TRUE] \in RequestRecord BY <2>1 DEF RequestRecord
  <2>3. request' \in [Users -> RequestRecord] BY <1>8, <2>1, <2>2 DEF TestOfAll, VoiceShape
  <2> QED BY <1>8, <2>3 DEF TestOfAll, VoiceShape, StillQuiet, Hushed
<1>9. ASSUME NEW u \in Users, StoreFlag(u) PROVE VoiceIInv'
  <2> DEFINE r == request[u]
  <2>1. r \in RequestRecord /\ NextRequest(r) \in RequestRecord /\ r.slot \in VoiceSlot
    BY NextTypes DEF VoiceShape, RequestRecord
  <2>2. PICK v \in VoiceRecord : /\ voice' = [voice EXCEPT ![r.slot] = v]
                                 /\ r.op # "resume" => v.stop \/ v.paused \/ r.slot \notin quiet
    <3>1. voice[r.slot] \in VoiceRecord BY <2>1 DEF VoiceShape
    <3>2. CASE r.op = "pause"
      <4>1. [voice[r.slot] EXCEPT !.paused = TRUE] \in VoiceRecord BY <3>1 DEF VoiceRecord
      <4>2. [voice[r.slot] EXCEPT !.paused = TRUE].paused BY <3>1 DEF VoiceRecord
      <4> QED BY <1>9, <3>2, <4>1, <4>2 DEF StoreFlag
    <3>3. CASE r.op = "resume"
      <4>1. [voice[r.slot] EXCEPT !.paused = FALSE] \in VoiceRecord BY <3>1 DEF VoiceRecord
      <4> QED BY <1>9, <3>3, <4>1 DEF StoreFlag
    <3>4. CASE r.op \notin {"pause", "resume"}
      <4>1. [voice[r.slot] EXCEPT !.stop = TRUE] \in VoiceRecord BY <3>1 DEF VoiceRecord
      <4>2. [voice[r.slot] EXCEPT !.stop = TRUE].stop BY <3>1 DEF VoiceRecord
      <4> QED BY <1>9, <3>4, <4>1, <4>2 DEF StoreFlag
    <3> QED BY <3>2, <3>3, <3>4
  <2>3. VoiceShape' BY <1>9, <2>1, <2>2 DEF StoreFlag, VoiceShape
  <2>4. StillQuiet' BY <1>9, <2>1, <2>2 DEF StoreFlag, VoiceShape, StillQuiet, Hushed
  <2> QED BY <2>3, <2>4
<1>10. CASE Shutdown
  <2>1. \A s \in VoiceSlot : [voice[s] EXCEPT !.state = "free", !.ready = FALSE, !.audio = NoTrack] \in VoiceRecord
    BY DEF VoiceShape, VoiceRecord, Sources
  <2>2. voice' \in [VoiceSlot -> VoiceRecord] BY <1>10, <2>1 DEF Shutdown
  <2>3. \A s \in VoiceSlot : voice'[s].stop = voice[s].stop /\ voice'[s].paused = voice[s].paused
    BY <1>10 DEF Shutdown, VoiceShape, VoiceRecord
  <2> QED BY <1>10, <2>2, <2>3 DEF Shutdown, VoiceShape, StillQuiet, Hushed
<1>11. CASE PassBegin
  <2>1. mixer' \in MixerRecord /\ mixer'.at = "look"
    BY <1>11, NextTypes DEF PassBegin, MixerRecord
  <2> QED BY <1>11, <2>1 DEF PassBegin, VoiceShape, StillQuiet, Hushed
<1>12. CASE PassLook
  <2>1. mixer.slot \in VoiceSlot BY DEF VoiceShape, MixerRecord
  <2>2. mixer' \in MixerRecord /\ mixer'.at \notin {"take", "mix"}
    BY <1>12, NextTypes DEF PassLook, VoiceShape, MixerRecord
  <2>3. voice' \in [VoiceSlot -> VoiceRecord] BY <1>12, <2>1 DEF PassLook, VoiceShape, VoiceRecord
  <2>4. \A s \in VoiceSlot : voice'[s].stop = voice[s].stop /\ voice'[s].paused = voice[s].paused
    BY <1>12, <2>1 DEF PassLook, VoiceShape, VoiceRecord
  <2> QED BY <1>12, <2>2, <2>3, <2>4 DEF PassLook, VoiceShape, StillQuiet, Hushed
<1>13. CASE PassFlags
  <2>1. mixer' \in MixerRecord /\ (mixer'.at \in {"take", "mix"} => mixer'.slot = mixer.slot /\ ~Hushed(mixer.slot))
    BY <1>13, NextTypes DEF PassFlags, VoiceShape, MixerRecord
  <2> QED BY <1>13, <2>1 DEF PassFlags, VoiceShape, StillQuiet, Hushed
<1>14. CASE PassTake
  <2>1. voice[mixer.slot] \in VoiceRecord BY DEF VoiceShape, MixerRecord
  <2>2. mixer' \in MixerRecord /\ mixer'.slot = mixer.slot
    BY <1>14, <2>1 DEF PassTake, VoiceShape, MixerRecord, VoiceRecord
  <2> QED BY <1>14, <2>2 DEF PassTake, VoiceShape, StillQuiet, Hushed
<1>15. CASE PassMix
  <2>1. mixer.slot \in VoiceSlot /\ mixer.pos \in 0..Frames BY DEF VoiceShape, MixerRecord
  <2>2. mixer.pos < Frames => mixer.pos + 1 \in 0..Frames BY <1>0, <2>1
  <2>3. voice' \in [VoiceSlot -> VoiceRecord]
    BY <1>0, <1>15, <2>1, <2>2 DEF PassMix, VoiceShape, VoiceRecord
  <2>4. \A s \in VoiceSlot : voice'[s].stop = voice[s].stop /\ voice'[s].paused = voice[s].paused
    BY <1>15, <2>1 DEF PassMix, VoiceShape, VoiceRecord
  <2>5. mixer' \in MixerRecord /\ mixer'.at \notin {"take", "mix"} BY <1>15, NextTypes DEF PassMix
  <2> QED BY <1>15, <2>3, <2>4, <2>5 DEF PassMix, VoiceShape, StillQuiet, Hushed
<1> QED BY <1>1, <1>2, <1>3, <1>4, <1>5, <1>6, <1>7, <1>8, <1>9, <1>10, <1>11, <1>12, <1>13, <1>14, <1>15
        DEF VoiceNext, PlayStep, AskStep, VoiceCallback, PassStep

\* A voice keeps its fields in range, its position inside the source included, although the
\* callback stores a position it computed from an earlier read.
THEOREM VoiceTypeCorrect == VoiceSpec => []VoiceTypeOK
<1>1. VoiceIInv => VoiceTypeOK
  BY DEF VoiceIInv, VoiceShape, VoiceTypeOK, VoiceRecord, MixerRecord, PlayRecord, Sources
<1> QED BY <1>1, VoiceInitInv, VoiceStepInv, PTL DEF VoiceSpec

\* audio_manager.h:214: stopping or pausing takes effect one callback later at most, for however many
\* voices and threads and whatever calls are in the middle.
THEOREM VoiceSilent == VoiceSpec => []SilentAfterOnePeriod
<1>1. VoiceIInv => SilentAfterOnePeriod BY DEF VoiceIInv, StillQuiet, SilentAfterOnePeriod
<1> QED BY <1>1, VoiceInitInv, VoiceStepInv, PTL DEF VoiceSpec

--------------------------------------------------------------------------------
(* The crash handler.                                                         *)
Installed == \E s \in Signals : prevSaved[s]
Stages == {"run", "faulting", "handler", "tested", "locking", "report", "cleanup", "unlock", "reset", "raise"}

CrashIInv ==
  /\ CrashTypeOK
  /\ at \in [Threads -> Stages] /\ logOpen \in BOOLEAN /\ alive \in BOOLEAN
  /\ \A t \in Threads : at[t] # "run" => Installed
  /\ Installed => \A s \in Signals : disposition[s] = "default" => reported # {}
  /\ ~logOpen => reported # {}
  /\ \A t \in Threads : at[t] \in {"cleanup", "unlock", "reset", "raise"} => reported # {}

\* Nothing has happened yet when the process starts.
LEMMA CrashInitInv == CrashInit => CrashIInv
<1> SUFFICES ASSUME CrashInit PROVE CrashIInv OBVIOUS
<1> USE DEF CrashInit
<1>1. ~Installed BY DEF Installed
<1>2. CrashTypeOK
  <2>1. disposition \in [Signals -> {"runtime", "default", "ours"}] OBVIOUS
  <2>2. prevSaved \in [Signals -> BOOLEAN] OBVIOUS
  <2>3. fault \in [Threads -> Faults \union {Ok}] /\ \A t \in Threads : fault[t] = Ok <=> at[t] = "run" OBVIOUS
  <2>4. faults \in 0..MaxFaults BY CrashAssumption DEF CrashAssumption
  <2> QED BY <2>1, <2>2, <2>3, <2>4 DEF CrashTypeOK
<1> QED BY <1>1, <1>2 DEF CrashIInv, Stages

\* What a fault is delivered as.
LEMMA SignalOfFault == \A f \in Faults : SignalOf(f) \in Signals
BY DEF Faults, SignalOf, Signals

\* A step that only moves one thread, from a stage after the fault to another one, and reports nothing.
LEMMA MovePreserves ==
  ASSUME CrashIInv, NEW t \in Threads, NEW stage \in Stages \ {"run"}, at[t] # "run",
         stage \in {"cleanup", "unlock", "reset", "raise"} => reported # {},
         at' = [at EXCEPT ![t] = stage], fault' = fault, disposition' = disposition, prevSaved' = prevSaved,
         inProgress' \in BOOLEAN, crashMutex' \in Threads \union {Nobody}, logLocked' = logLocked,
         logOpen' = logOpen, reported' = reported, alive' = alive, faults' = faults
  PROVE  CrashIInv'
BY DEF CrashIInv, CrashTypeOK, Installed, Stages

LEMMA CrashStepInv == CrashIInv /\ [CrashNext]_crashVars => CrashIInv'
<1> SUFFICES ASSUME CrashIInv, [CrashNext]_crashVars PROVE CrashIInv' OBVIOUS
<1> USE DEF CrashIInv
<1>1. CASE UNCHANGED crashVars BY <1>1 DEF crashVars, CrashTypeOK, Installed
<1>2. CASE Install BY <1>2 DEF Install, CrashTypeOK, Installed, Signals
<1>3. ASSUME NEW t \in Threads, NEW f \in Faults, NEW l \in BOOLEAN, Fault(t, f, l) PROVE CrashIInv'
  <2>1. f # Ok BY DEF Faults, Ok
  <2>2. Installed /\ Installed' BY <1>3 DEF Fault, Installed
  <2>3. CrashTypeOK' BY <1>3, <2>1, CrashAssumption DEF CrashAssumption, Fault, CrashTypeOK, Stages
  <2> QED BY <1>3, <2>2, <2>3 DEF Fault, CrashTypeOK, Stages
<1>4. ASSUME NEW t \in Threads, Handling(t) PROVE CrashIInv'
  <2> DEFINE signal == SignalOf(fault[t])
  <2>0. at[t] # "run" => fault[t] \in Faults /\ signal \in Signals
    BY SignalOfFault DEF CrashTypeOK
  <2>1. ASSUME at[t] # "run", Survives(t), UNCHANGED <<prevSaved, inProgress, crashMutex, logOpen, reported, alive, faults>>,
               disposition' \in [Signals -> {"runtime", "default", "ours"}],
               \A s \in Signals : disposition'[s] = "default" => disposition[s] = "default"
        PROVE  CrashIInv'
    BY <2>1 DEF Survives, CrashTypeOK, Installed, Stages
  <2>2. CASE Deliver(t)
    <3>1. CASE /\ at' = [at EXCEPT ![t] = "handler"]
               /\ UNCHANGED <<fault, logLocked, alive>>
      BY <1>4, <2>2, <3>1, MovePreserves DEF Deliver, CrashTypeOK, Stages
    <3>2. CASE Survives(t) /\ UNCHANGED alive BY <2>2, <3>2, <2>1 DEF Deliver, CrashTypeOK
    <3>3. CASE alive' = FALSE /\ UNCHANGED <<at, fault, logLocked>>
      BY <2>2, <3>3 DEF Deliver, CrashTypeOK, Installed
    <3> QED BY <2>2, <3>1, <3>2, <3>3 DEF Deliver
  <2>3. CASE Forward(t)
    <3>1. at[t] # "run" BY <2>3 DEF Forward
    <3>2. /\ disposition' \in [Signals -> {"runtime", "default", "ours"}]
          /\ \A s \in Signals : disposition'[s] = "default" => disposition[s] = "default"
      BY <2>3, <2>0, <3>1 DEF Forward, CrashTypeOK
    <3> QED BY <2>3, <2>1, <3>1, <3>2 DEF Forward
  <2>4. CASE TestSeen(t) BY <2>4, MovePreserves DEF TestSeen, NotForwarded, restOfCrash, CrashTypeOK, Stages
  <2>5. CASE TestClear(t) BY <2>5, MovePreserves DEF TestClear, NotForwarded, restOfCrash, CrashTypeOK, Stages
  <2>6. CASE SetFlag(t) BY <2>6, MovePreserves DEF SetFlag, CrashTypeOK, Stages
  <2>7. CASE LockCrash(t) BY <2>7, MovePreserves DEF LockCrash, CrashTypeOK, Stages
  <2>8. CASE Report(t) BY <2>8 DEF Report, CrashTypeOK, Installed, Stages
  <2>9. CASE LogCleanup(t) BY <2>9 DEF LogCleanup, CrashTypeOK, Installed, Stages
  <2>10. CASE UnlockCrash(t) BY <2>10, MovePreserves DEF UnlockCrash, CrashTypeOK, Stages
  <2>11. CASE ResetDefault(t)
    <3>1. reported # {} BY <2>11 DEF ResetDefault
    <3> QED BY <2>11, <3>1 DEF ResetDefault, CrashTypeOK, Installed, Stages
  <2>12. CASE Raise(t) BY <2>12 DEF Raise, CrashTypeOK, Installed
  <2> QED BY <1>4, <2>2, <2>3, <2>4, <2>5, <2>6, <2>7, <2>8, <2>9, <2>10, <2>11, <2>12 DEF Handling
<1> QED BY <1>1, <1>2, <1>3, <1>4 DEF CrashNext

\* A thread handles a fault exactly while it is not running, and every piece of the handler's
\* state has the values the code gives it.
THEOREM CrashTypeCorrect == CrashSpec => []CrashTypeOK
<1>1. CrashIInv => CrashTypeOK BY DEF CrashIInv
<1> QED BY <1>1, CrashInitInv, CrashStepInv, PTL DEF CrashSpec

\* However many threads fault together, and whatever dispositions their handlers leave to each
\* other: nobody finds the default action in place before a whole report was written.
THEOREM CrashReported == CrashSpec => ReportedBeforeDeath
<1> DEFINE Excused == reported # {} \/ \E t \in Threads : at[t] = "faulting" /\ disposition[SignalOf(fault[t])] = "runtime"
           Death == alive /\ ~alive' => Excused
<1>1. CrashIInv /\ [CrashNext]_crashVars => Death
  <2> SUFFICES ASSUME CrashIInv, CrashNext, alive, ~alive' PROVE Excused
    BY DEF crashVars
  <2>1. PICK t \in Threads : Deliver(t) \/ Raise(t)
    BY DEF CrashNext, Install, Fault, Handling, Forward, TestSeen, TestClear, SetFlag, LockCrash, Report,
           LogCleanup, UnlockCrash, ResetDefault, restOfCrash
  <2>2. CASE Raise(t) BY <2>2 DEF Raise, CrashIInv
  <2>3. CASE Deliver(t)
    <3>1. at[t] = "faulting" /\ (disposition[SignalOf(fault[t])] = "default" \/ disposition[SignalOf(fault[t])] = "runtime")
      BY <2>3 DEF Deliver
    <3>2. SignalOf(fault[t]) \in Signals BY <3>1, SignalOfFault DEF CrashIInv, CrashTypeOK
    <3> QED BY <3>1, <3>2 DEF CrashIInv
  <2> QED BY <2>1, <2>2, <2>3
<1>2. CrashIInv /\ [CrashNext]_crashVars => [Death]_crashVars BY <1>1
<1> QED BY <1>2, CrashInitInv, CrashStepInv, PTL DEF CrashSpec, ReportedBeforeDeath

--------------------------------------------------------------------------------
(* The button editor.                                                         *)
\* Reverse keeps the length and counts from the other end.
LEMMA ReverseProperties ==
  ASSUME NEW S, NEW s \in Seq(S)
  PROVE  /\ Reverse(s) \in Seq(S) /\ Len(Reverse(s)) = Len(s)
         /\ \A i \in 1..Len(s) : Reverse(s)[i] = s[Len(s) - i + 1]
BY DEF Reverse

\* A sequence that is not empty is what precedes its last element, and that element.
LEMMA FrontLast ==
  ASSUME NEW S, NEW s \in Seq(S), s # <<>>
  PROVE  /\ Front(s) \in Seq(S) /\ Last(s) \in S /\ Len(Front(s)) = Len(s) - 1
         /\ Append(Front(s), Last(s)) = s
<1>1. PICK t \in Seq(S), e \in S : s = Append(t, e) BY SequenceEmptyOrAppend
<1>2. Len(t) \in Nat /\ Len(s) = Len(t) + 1 /\ s[Len(t) + 1] = e /\ \A i \in 1..Len(t) : s[i] = t[i]
  BY <1>1, AppendProperties, LenProperties
<1>3. Last(s) = e BY <1>2 DEF Last
<1>4. Front(s) = t
  <2>1. \A i \in 1..Len(t) : s[i] \in S BY <1>2, ElementOfSeq
  <2>2. Front(s) = SubSeq(s, 1, Len(t)) BY <1>2 DEF Front
  <2>3. /\ SubSeq(s, 1, Len(t)) \in Seq(S)
        /\ Len(SubSeq(s, 1, Len(t))) = IF 1 <= Len(t) THEN Len(t) - 1 + 1 ELSE 0
        /\ \A i \in 1..(Len(t) - 1 + 1) : SubSeq(s, 1, Len(t))[i] = s[1 + i - 1]
    <3>1. 1 \in Int /\ Len(t) \in Int BY <1>2
    <3> QED BY ONLY <2>1, <3>1, SubSeqProperties
  <2>4. Len(SubSeq(s, 1, Len(t))) = Len(t) BY <1>2, <2>3
  <2>5. \A i \in 1..Len(t) : SubSeq(s, 1, Len(t))[i] = t[i] BY <1>2, <2>3
  <2> QED BY <2>2, <2>3, <2>4, <2>5, SeqEqual
<1> QED BY <1>1, <1>2, <1>3, <1>4

\* The converse: what Front and Last are of a sequence that ends in e.
LEMMA FrontLastAppend ==
  ASSUME NEW S, NEW t \in Seq(S), NEW e \in S
  PROVE  Front(Append(t, e)) = t /\ Last(Append(t, e)) = e
<1>1. Append(t, e) \in Seq(S) /\ Append(t, e) # <<>> BY AppendProperties
<1>2. /\ Front(Append(t, e)) \in Seq(S) /\ Last(Append(t, e)) \in S
      /\ Append(Front(Append(t, e)), Last(Append(t, e))) = Append(t, e)
  BY <1>1, FrontLast
<1> QED BY <1>2, AppendInjective

LEMMA ReverseAppend ==
  ASSUME NEW S, NEW s \in Seq(S), NEW e \in S
  PROVE  Reverse(Append(s, e)) = <<e>> \o Reverse(s)
<1> DEFINE a == Append(s, e)  left == Reverse(a)  right == <<e>> \o Reverse(s)
<1>1. a \in Seq(S) /\ Len(a) = Len(s) + 1 /\ a[Len(s) + 1] = e /\ \A i \in 1..Len(s) : a[i] = s[i]
  BY AppendProperties
<1>2. left \in Seq(S) /\ Len(left) = Len(a) /\ \A i \in 1..Len(a) : left[i] = a[Len(a) - i + 1]
  BY <1>1, ReverseProperties
<1>3. <<e>> \in Seq(S) /\ Len(<<e>>) = 1 /\ <<e>>[1] = e OBVIOUS
<1>4. Reverse(s) \in Seq(S) /\ Len(Reverse(s)) = Len(s) /\ \A i \in 1..Len(s) : Reverse(s)[i] = s[Len(s) - i + 1]
  BY ReverseProperties
<1>5. Len(s) \in Nat BY LenProperties
<1> DEFINE r == Reverse(s)  f == <<e>>
<1> HIDE DEF a, left, r, f
<1>6. /\ f \o r \in Seq(S) /\ Len(f \o r) = Len(f) + Len(r)
      /\ \A i \in 1..(Len(f) + Len(r)) : (f \o r)[i] = IF i <= Len(f) THEN f[i] ELSE r[i - Len(f)]
  BY <1>3, <1>4, ConcatProperties DEF r, f
<1>7. Len(f) = 1 /\ f[1] = e /\ Len(r) = Len(s) BY <1>3, <1>4 DEF r, f
<1>8. ASSUME NEW i \in 1..Len(left) PROVE left[i] = (f \o r)[i]
  <2>1. CASE i = 1 BY <2>1, <1>1, <1>2, <1>5, <1>6, <1>7
  <2>2. CASE i # 1
    <3>1. i - 1 \in 1..Len(s) /\ Len(a) - i + 1 \in 1..Len(s) BY <2>2, <1>1, <1>2, <1>5
    <3>2. (f \o r)[i] = r[i - 1] BY <2>2, <3>1, <1>1, <1>2, <1>5, <1>6, <1>7
    <3>3. r[i - 1] = s[Len(s) - (i - 1) + 1] BY <3>1, <1>4 DEF r
    <3>4. Len(s) - (i - 1) + 1 = Len(a) - i + 1 BY <3>1, <1>1, <1>2, <1>5
    <3> QED BY <3>1, <3>2, <3>3, <3>4, <1>1, <1>2
  <2> QED BY <2>1, <2>2
<1>9. left = f \o r BY <1>1, <1>2, <1>5, <1>6, <1>7, <1>8, SeqEqual, SMTT(60)
<1> QED BY <1>9 DEF left, f, r, a

-----------------------------------------------------------------------------
\* A line is a sequence, the shown state in its place, what undo reaches in front.
LEMMA LineType ==
  ASSUME NEW S, NEW u \in Seq(S), NEW b \in S, NEW r \in Seq(S)
  PROVE  /\ LineOf(u, b, r) \in Seq(S) /\ Len(LineOf(u, b, r)) = Len(u) + 1 + Len(r)
         /\ SubSeq(LineOf(u, b, r), 1, Len(u) + 1) = Append(u, b)
<1>1. Append(u, b) \in Seq(S) /\ Len(Append(u, b)) = Len(u) + 1 BY AppendProperties
<1>2. Reverse(r) \in Seq(S) /\ Len(Reverse(r)) = Len(r) BY ReverseProperties
<1>3. 1 \in 1..Len(Append(u, b)) /\ Len(u) + 1 \in 1..Len(Append(u, b)) BY <1>1, LenProperties
<1>4. SubSeq(Append(u, b) \o Reverse(r), 1, Len(u) + 1) = SubSeq(Append(u, b), 1, Len(u) + 1)
  BY ONLY <1>1, <1>2, <1>3, SubSeqOfConcat1
<1>5. SubSeq(Append(u, b), 1, Len(u) + 1) = Append(u, b) BY <1>1, SubSeqFull
<1>6. /\ Append(u, b) \o Reverse(r) \in Seq(S)
      /\ Len(Append(u, b) \o Reverse(r)) = Len(u) + 1 + Len(r)
  BY <1>1, <1>2, ConcatProperties
<1> QED BY <1>4, <1>5, <1>6 DEF LineOf

\* With nothing to redo the line ends with the shown state.
LEMMA LineWithoutRedo ==
  ASSUME NEW S, NEW u \in Seq(S), NEW b \in S
  PROVE  LineOf(u, b, <<>>) = Append(u, b)
<1>1. Append(u, b) \in Seq(S) BY AppendProperties
<1>2. Reverse(<<>>) = <<>>
  <2>1. <<>> \in Seq(S) /\ Len(<<>>) = 0 BY EmptySeq
  <2>2. Reverse(<<>>) \in Seq(S) /\ Len(Reverse(<<>>)) = 0 BY <2>1, ReverseProperties
  <2> QED BY <2>2, EmptySeq
<1>3. Append(u, b) \o <<>> = Append(u, b) BY <1>1, ConcatEmptySeq
<1> QED BY <1>2, <1>3 DEF LineOf

\* Undo moves the shown state to the other side of the same line.
LEMMA LineUndo ==
  ASSUME NEW S, NEW u \in Seq(S), NEW b \in S, NEW r \in Seq(S), u # <<>>
  PROVE  LineOf(Front(u), Last(u), Append(r, b)) = LineOf(u, b, r)
<1>1. Append(Front(u), Last(u)) = u BY FrontLast
<1>2. Reverse(Append(r, b)) = <<b>> \o Reverse(r) BY ReverseAppend
<1>3. <<b>> \in Seq(S) /\ Reverse(r) \in Seq(S) BY ReverseProperties
<1>4. u \o (<<b>> \o Reverse(r)) = (u \o <<b>>) \o Reverse(r) BY <1>3, ConcatAssociative, SMTT(60)
<1>5. u \o <<b>> = Append(u, b) BY AppendIsConcat
<1> QED BY <1>1, <1>2, <1>4, <1>5 DEF LineOf

\* Redo is undo backwards.
LEMMA LineRedo ==
  ASSUME NEW S, NEW u \in Seq(S), NEW b \in S, NEW r \in Seq(S), r # <<>>
  PROVE  LineOf(Append(u, b), Last(r), Front(r)) = LineOf(u, b, r)
<1>1. Front(r) \in Seq(S) /\ Last(r) \in S /\ Append(Front(r), Last(r)) = r BY FrontLast
<1>2. Append(u, b) \in Seq(S) /\ Append(u, b) # <<>> BY AppendProperties
<1>3. Front(Append(u, b)) = u /\ Last(Append(u, b)) = b BY FrontLastAppend
<1>4. LineOf(Front(Append(u, b)), Last(Append(u, b)), Append(Front(r), Last(r))) = LineOf(Append(u, b), Last(r), Front(r))
  BY <1>1, <1>2, LineUndo
<1> QED BY <1>1, <1>3, <1>4

\* A change touches the shown place of the line only.
LEMMA LineChange ==
  ASSUME NEW S, NEW u \in Seq(S), NEW b \in S, NEW v \in S, NEW r \in Seq(S)
  PROVE  LineOf(u, v, r) = [LineOf(u, b, r) EXCEPT ![Len(u) + 1] = v]
<1> DEFINE n == Len(u)  f == Reverse(r)  a == Append(u, b)  c == Append(u, v)
           old == a \o f  new == c \o f  changed == [old EXCEPT ![n + 1] = v]
<1>1. n \in Nat /\ f \in Seq(S) /\ Len(f) \in Nat BY LenProperties, ReverseProperties
<1>2. a \in Seq(S) /\ Len(a) = n + 1 /\ a[n + 1] = b /\ \A i \in 1..n : a[i] = u[i] BY AppendProperties
<1>3. c \in Seq(S) /\ Len(c) = n + 1 /\ c[n + 1] = v /\ \A i \in 1..n : c[i] = u[i] BY AppendProperties
<1> HIDE DEF n, f, a, c
<1>4. /\ old \in Seq(S) /\ Len(old) = n + 1 + Len(f)
      /\ \A i \in 1..(n + 1 + Len(f)) : old[i] = IF i <= n + 1 THEN a[i] ELSE f[i - (n + 1)]
  <2>1. /\ a \o f \in Seq(S) /\ Len(a \o f) = Len(a) + Len(f)
        /\ \A i \in 1..(Len(a) + Len(f)) : (a \o f)[i] = IF i <= Len(a) THEN a[i] ELSE f[i - Len(a)]
    BY <1>1, <1>2, ConcatProperties
  <2> QED BY <2>1, <1>2
<1>5. /\ new \in Seq(S) /\ Len(new) = n + 1 + Len(f)
      /\ \A i \in 1..(n + 1 + Len(f)) : new[i] = IF i <= n + 1 THEN c[i] ELSE f[i - (n + 1)]
  <2>1. /\ c \o f \in Seq(S) /\ Len(c \o f) = Len(c) + Len(f)
        /\ \A i \in 1..(Len(c) + Len(f)) : (c \o f)[i] = IF i <= Len(c) THEN c[i] ELSE f[i - Len(c)]
    BY <1>1, <1>3, ConcatProperties
  <2> QED BY <2>1, <1>3
<1> HIDE DEF old, new
<1>6. n + 1 \in 1..Len(old) BY <1>1, <1>4
<1>7. /\ changed \in Seq(S) /\ Len(changed) = Len(old)
      /\ \A j \in 1..Len(old) : changed[j] = IF j = n + 1 THEN v ELSE old[j]
  BY <1>4, <1>6, ExceptSeq
<1> HIDE DEF changed
<1>8. ASSUME NEW j \in 1..Len(new) PROVE new[j] = changed[j]
  <2>1. CASE j <= n BY <2>1, <1>1, <1>2, <1>3, <1>4, <1>5, <1>7
  <2>2. CASE j = n + 1 BY <2>2, <1>1, <1>3, <1>4, <1>5, <1>7
  <2>3. CASE j > n + 1
    <3>1. new[j] = f[j - (n + 1)] /\ old[j] = f[j - (n + 1)] BY <2>3, <1>1, <1>4, <1>5
    <3>2. changed[j] = old[j] BY <2>3, <1>1, <1>4, <1>5, <1>7
    <3> QED BY <3>1, <3>2
  <2> QED BY <2>1, <2>2, <2>3, <1>1, <1>4, <1>5
<1>9. new = changed BY <1>4, <1>5, <1>7, <1>8, SeqEqual
<1> QED BY <1>9 DEF new, changed, old, a, c, f, n, LineOf

-----------------------------------------------------------------------------
\* push_history: one more, unless the history is full.
LEMMA PushType ==
  ASSUME NEW S, NEW h \in Seq(S), NEW b \in S, Len(h) <= Depth
  PROVE  /\ Push(h, b) \in Seq(S)
         /\ Len(Push(h, b)) = IF Len(h) = Depth THEN Depth ELSE Len(h) + 1
<1>1. Len(h) \in Nat /\ Depth \in Nat \ {0} BY LenProperties, BindingsAssumption
<1>2. CASE Len(h) = Depth
  <2>1. h # <<>> BY <1>1, <1>2, EmptySeq
  <2>2. Tail(h) \in Seq(S) /\ Len(Tail(h)) = Len(h) - 1 BY <2>1, HeadTailProperties
  <2>3. Append(Tail(h), b) \in Seq(S) /\ Len(Append(Tail(h), b)) = Len(Tail(h)) + 1 BY <2>2, AppendProperties
  <2> QED BY <1>1, <1>2, <2>2, <2>3 DEF Push
<1>3. CASE Len(h) # Depth
  <2>1. Append(h, b) \in Seq(S) /\ Len(Append(h, b)) = Len(h) + 1 BY AppendProperties
  <2> QED BY <1>3, <2>1 DEF Push
<1> QED BY <1>2, <1>3

-----------------------------------------------------------------------------
(* The inductive invariant: types, the bound on both histories, and what the  *)
(* files hold at each step of a save.                                         *)
FilesHold == /\ store.whole /\ store.durable /\ store.set = saved
             /\ saving \in {"sync", "rename"} => tmp.whole
             /\ saving = "rename" => tmp.durable
BIInv == BindTypeOK /\ HistoryFits /\ FilesHold

LEMMA BindInitIInv == BindInit => BIInv
<1> SUFFICES ASSUME BindInit PROVE BIInv OBVIOUS
<1>1. Empty \in Sets BY DEF Empty, Sets
<1>2. <<>> \in Seq(Sets) /\ Len(<<>>) = 0 BY EmptySeq
<1>3. BindTypeOK BY <1>1, <1>2 DEF BindInit, BindTypeOK, Files, NoFile
<1>4. HistoryFits BY <1>2, BindingsAssumption DEF BindInit, HistoryFits
<1>5. FilesHold BY DEF BindInit, FilesHold, NoFile
<1> QED BY <1>3, <1>4, <1>5 DEF BIInv

\* Both histories are sequences within the depth.
LEMMA Lengths ==
  ASSUME BIInv
  PROVE  /\ Len(undo) \in Nat /\ Len(redo) \in Nat /\ Depth \in Nat \ {0}
         /\ Len(undo) <= Depth /\ Len(redo) <= Depth
<1>1. Len(undo) \in Nat /\ Len(redo) \in Nat BY LenProperties DEF BIInv, BindTypeOK
<1> QED BY <1>1, BindingsAssumption DEF BIInv, HistoryFits

\* What a snapshot does to the histories.
LEMMA SnapshotHistories ==
  ASSUME BIInv, Snapshotted
  PROVE  /\ undo' \in Seq(Sets) /\ redo' \in Seq(Sets)
         /\ Len(undo') + Len(redo') <= Depth
         /\ redo' = <<>> /\ undo' = Push(undo, bindings)
<1>1. Push(undo, bindings) \in Seq(Sets) /\ Len(Push(undo, bindings)) = IF Len(undo) = Depth THEN Depth ELSE Len(undo) + 1
  BY Lengths, PushType DEF BIInv, BindTypeOK
<1>2. <<>> \in Seq(Sets) /\ Len(<<>>) = 0 BY EmptySeq
<1> QED BY <1>1, <1>2, Lengths DEF Snapshotted

\* Undo and redo find the other history with room left.
LEMMA UndoHistories ==
  ASSUME BIInv, UndoEdit
  PROVE  /\ bindings' \in Sets /\ undo' \in Seq(Sets) /\ redo' \in Seq(Sets)
         /\ Len(undo') = Len(undo) - 1 /\ Len(redo') = Len(redo) + 1
         /\ redo' = Append(redo, bindings)
<1>1. Front(undo) \in Seq(Sets) /\ Last(undo) \in Sets /\ Len(Front(undo)) = Len(undo) - 1
  BY FrontLast DEF BIInv, BindTypeOK, UndoEdit
<1>2. Len(undo) > 0 BY EmptySeq DEF BIInv, BindTypeOK, UndoEdit
<1>3. Len(redo) # Depth BY <1>2, Lengths DEF BIInv, HistoryFits
<1>4. Append(redo, bindings) \in Seq(Sets) /\ Len(Append(redo, bindings)) = Len(redo) + 1
  BY AppendProperties DEF BIInv, BindTypeOK
<1> QED BY <1>1, <1>3, <1>4 DEF UndoEdit, Push
LEMMA RedoHistories ==
  ASSUME BIInv, RedoEdit
  PROVE  /\ bindings' \in Sets /\ undo' \in Seq(Sets) /\ redo' \in Seq(Sets)
         /\ Len(redo') = Len(redo) - 1 /\ Len(undo') = Len(undo) + 1
         /\ undo' = Append(undo, bindings)
<1>1. Front(redo) \in Seq(Sets) /\ Last(redo) \in Sets /\ Len(Front(redo)) = Len(redo) - 1
  BY FrontLast DEF BIInv, BindTypeOK, RedoEdit
<1>2. Len(redo) > 0 BY EmptySeq DEF BIInv, BindTypeOK, RedoEdit
<1>3. Len(undo) # Depth BY <1>2, Lengths DEF BIInv, HistoryFits
<1>4. Append(undo, bindings) \in Seq(Sets) /\ Len(Append(undo, bindings)) = Len(undo) + 1
  BY AppendProperties DEF BIInv, BindTypeOK
<1> QED BY <1>1, <1>3, <1>4 DEF RedoEdit, Push
\* A history that is cleared.
LEMMA ClearedHistories ==
  ASSUME BIInv, NoHistory
  PROVE  undo' \in Seq(Sets) /\ redo' \in Seq(Sets) /\ Len(undo') + Len(redo') <= Depth
<1>1. <<>> \in Seq(Sets) /\ Len(<<>>) = 0 BY EmptySeq
<1> QED BY <1>1, Lengths DEF NoHistory

LEMMA BindNextIInv == BIInv /\ [BindNext]_bindVars => BIInv'
<1> SUFFICES ASSUME BIInv, [BindNext]_bindVars PROVE BIInv' OBVIOUS
<1> USE DEF BIInv
<1>0. Empty \in Sets BY DEF Empty, Sets
<1>1. ASSUME NEW p \in Profiles, NEW s \in Slots, NEW k \in Keys, BindMod(p, s, k) PROVE BIInv'
  <2>1. bindings' \in Sets BY <1>1 DEF BindMod, BindTypeOK, Sets, Places
  <2> QED BY <1>1, <2>1, SnapshotHistories DEF BindMod, EditRest, fileVars, BindTypeOK, HistoryFits, FilesHold
<1>2. CASE AddUndo
  BY <1>2, SnapshotHistories DEF AddUndo, EditRest, fileVars, BindTypeOK, HistoryFits, FilesHold
<1>3. ASSUME NEW p \in Profiles, NEW s \in Slots, BindNative(p, s) PROVE BIInv'
  <2>1. bindings' \in Sets BY <1>3 DEF BindNative, BindTypeOK, Sets
  <2> QED BY <1>3, <2>1 DEF BindNative, EditRest, fileVars, BindTypeOK, HistoryFits, FilesHold
<1>4. CASE UndoEdit
  <2>1. Len(undo') + Len(redo') <= Depth BY <1>4, UndoHistories, Lengths DEF HistoryFits
  <2> QED BY <1>4, <2>1, UndoHistories DEF UndoEdit, EditRest, fileVars, BindTypeOK, HistoryFits, FilesHold
<1>5. CASE RedoEdit
  <2>1. Len(undo') + Len(redo') <= Depth BY <1>5, RedoHistories, Lengths DEF HistoryFits
  <2> QED BY <1>5, <2>1, RedoHistories DEF RedoEdit, EditRest, fileVars, BindTypeOK, HistoryFits, FilesHold
<1>6. CASE ClearRedo
  <2>1. redo' \in Seq(Sets) /\ Len(undo') + Len(redo') <= Depth BY <1>6, EmptySeq, Lengths DEF ClearRedo
  <2> QED BY <1>6, <2>1 DEF ClearRedo, EditRest, fileVars, BindTypeOK, HistoryFits, FilesHold
<1>7. CASE ClearHistory
  BY <1>7, ClearedHistories DEF ClearHistory, EditRest, fileVars, BindTypeOK, HistoryFits, FilesHold
<1>8. CASE BeginEdit
  BY <1>8, ClearedHistories DEF BeginEdit, fileVars, BindTypeOK, HistoryFits, FilesHold
<1>9. CASE CancelEdit
  BY <1>9, ClearedHistories DEF CancelEdit, EditRest, fileVars, BindTypeOK, HistoryFits, FilesHold
<1>10. ASSUME NEW p \in Profiles, CopyProfile(p) PROVE BIInv'
  <2>1. clipboard' \in [Slots -> Keys \union {Unbound}] BY <1>10 DEF CopyProfile, BindTypeOK, Sets, Places
  <2> QED BY <1>10, <2>1 DEF CopyProfile, fileVars, BindTypeOK, HistoryFits, FilesHold
<1>11. ASSUME NEW p \in Profiles, PasteProfile(p) PROVE BIInv'
  <2>1. clipboard \in [Slots -> Keys \union {Unbound}] BY <1>11 DEF PasteProfile, BindTypeOK
  <2>2. bindings' \in Sets BY <1>11, <2>1 DEF PasteProfile, BindTypeOK, Sets, Places
  <2> QED BY <1>11, <2>2 DEF PasteProfile, EditRest, fileVars, BindTypeOK, HistoryFits, FilesHold
<1>12. ASSUME NEW p \in Profiles, ClearProfile(p) PROVE BIInv'
  <2>1. bindings' \in Sets BY <1>12 DEF ClearProfile, BindTypeOK, Sets
  <2> QED BY <1>12, <2>1 DEF ClearProfile, EditRest, fileVars, BindTypeOK, HistoryFits, FilesHold
<1>13. CASE SaveOpen
  BY <1>0, <1>13 DEF SaveOpen, Saving, editVars, BindTypeOK, Files, HistoryFits, FilesHold
<1>14. CASE SaveWrite
  BY <1>14 DEF SaveWrite, Saving, editVars, BindTypeOK, Files, HistoryFits, FilesHold
<1>15. CASE SaveSync
  BY <1>15 DEF SaveSync, Saving, editVars, BindTypeOK, Files, HistoryFits, FilesHold
<1>16. CASE SaveRename
  BY <1>0, <1>16 DEF SaveRename, Saving, editVars, BindTypeOK, Files, NoFile, HistoryFits, FilesHold
<1>17. CASE SaveFails
  BY <1>0, <1>17 DEF SaveFails, Saving, editVars, BindTypeOK, Files, NoFile, HistoryFits, FilesHold
<1>18. CASE ResetAll
  BY <1>0, <1>18, ClearedHistories DEF ResetAll, BindTypeOK, Files, HistoryFits, FilesHold
<1>19. CASE Crash
  BY <1>0, <1>19, ClearedHistories DEF Crash, BindTypeOK, Files, NoFile, HistoryFits, FilesHold
<1>20. CASE UNCHANGED bindVars
  BY <1>20 DEF bindVars, BindTypeOK, HistoryFits, FilesHold
<1> QED BY <1>1, <1>2, <1>3, <1>4, <1>5, <1>6, <1>7, <1>8, <1>9, <1>10, <1>11, <1>12, <1>13, <1>14, <1>15,
           <1>16, <1>17, <1>18, <1>19, <1>20 DEF BindNext

-----------------------------------------------------------------------------
\* The types of the bindings and the bound on both histories; and the file the next start would read is
\* whole, on disk and the last one a save has finished, at each step of the next save.
THEOREM BindingsSafe == BindSpec => [](BindTypeOK /\ HistoryFits /\ store.whole /\ store.durable /\ store.set = saved)
<1>1. BIInv => BindTypeOK /\ HistoryFits /\ store.whole /\ store.durable /\ store.set = saved BY DEF BIInv, FilesHold
<1> QED BY BindInitIInv, BindNextIInv, <1>1, PTL DEF BindSpec

\* Whenever the process dies, the next start finds what the last finished save wrote.
THEOREM StoreIsSafe == BindSpec => StoreSurvives
<1>1. BIInv /\ [BindNext]_bindVars => [Crash => bindings' = saved]_bindVars
  BY DEF BIInv, FilesHold, Crash
<1> QED BY BindInitIInv, BindNextIInv, <1>1, PTL DEF BindSpec, StoreSurvives

-----------------------------------------------------------------------------
(* The refinement: each step is a step of the timeline, or leaves it alone. *)
LEMMA InitIsTimeline == BindInit => Timeline!TimelineInit
<1> SUFFICES ASSUME BindInit PROVE Timeline!TimelineInit OBVIOUS
<1>1. Empty \in Sets BY DEF Empty, Sets
<1>2. <<>> \in Seq(Sets) /\ Len(<<>>) = 0 BY EmptySeq
<1>3. Line = Append(<<>>, Empty) BY <1>1, <1>2, LineWithoutRedo DEF BindInit, Line
<1>4. /\ Append(<<>>, Empty) \in Seq(Sets) /\ Len(Append(<<>>, Empty)) = 1 BY <1>1, <1>2, AppendProperties
<1>5. Line \in [{1} -> Sets]
  <2>1. Line \in [1..1 -> Sets] BY <1>3, <1>4, LenProperties
  <2> QED BY <2>1
<1> QED BY <1>2, <1>5 DEF BindInit, Timeline!TimelineInit

\* A snapshot and a state v after it.
LEMMA SnapshotIsTimeline ==
  ASSUME BIInv, Snapshotted, bindings' \in Sets
  PROVE  Timeline!Snapshot(bindings')
<1>1. Line' = Append(Push(undo, bindings), bindings')
  BY SnapshotHistories, LineWithoutRedo DEF Line
<1>2. Timeline!Past = Append(undo, bindings) BY LineType, ZenonT(60) DEF Timeline!Past, Line, BIInv, BindTypeOK
<1>3. Timeline!Kept = Push(undo, bindings)
  <2>1. Len(undo) + 1 > Depth <=> Len(undo) = Depth BY Lengths
  <2>2. CASE Len(undo) = Depth
    <3>1. undo # <<>> BY <2>2, Lengths, EmptySeq
    <3>2. Tail(Append(undo, bindings)) = Append(Tail(undo), bindings)
      BY <3>1, HeadTailAppend DEF BIInv, BindTypeOK
    <3> QED BY <1>2, <2>1, <2>2, <3>2 DEF Timeline!Kept, Push
  <2>3. CASE Len(undo) # Depth BY <1>2, <2>1, <2>3 DEF Timeline!Kept, Push
  <2> QED BY <2>2, <2>3
<1> QED BY <1>1, <1>3, SnapshotHistories DEF Timeline!Snapshot

\* Cleared histories and any state.
LEMMA RestartIsTimeline ==
  ASSUME BIInv, NoHistory, bindings' \in Sets
  PROVE  Timeline!Restart(bindings')
<1>1. <<>> \in Seq(Sets) /\ Len(<<>>) = 0 BY EmptySeq
<1>2. Line' = Append(<<>>, bindings') BY <1>1, LineWithoutRedo DEF Line, NoHistory
<1>3. Append(<<>>, bindings') = <<bindings'>> OBVIOUS
<1> QED BY <1>1, <1>2, <1>3 DEF Timeline!Restart, NoHistory

\* The histories as they are and any state.
LEMMA ChangeIsTimeline ==
  ASSUME BIInv, bindings' \in Sets, undo' = undo, redo' = redo
  PROVE  Timeline!Change(bindings')
BY LineChange DEF Timeline!Change, Line, BIInv, BindTypeOK

LEMMA NextIsTimeline == BIInv /\ BIInv' /\ [BindNext]_bindVars => [Timeline!TimelineNext]_<<Line, Len(undo) + 1>>
<1> SUFFICES ASSUME BIInv, BIInv', [BindNext]_bindVars PROVE [Timeline!TimelineNext]_<<Line, Len(undo) + 1>>
  OBVIOUS
<1>0. /\ bindings \in Sets /\ undo \in Seq(Sets) /\ redo \in Seq(Sets)
      /\ bindings' \in Sets /\ undo' \in Seq(Sets) /\ redo' \in Seq(Sets)
  BY DEF BIInv, BindTypeOK
<1>1. ASSUME Snapshotted PROVE Timeline!TimelineNext
  BY <1>0, <1>1, SnapshotIsTimeline DEF Timeline!TimelineNext
<1>2. ASSUME NoHistory PROVE Timeline!TimelineNext
  BY <1>0, <1>2, RestartIsTimeline DEF Timeline!TimelineNext
<1>3. ASSUME undo' = undo, redo' = redo PROVE Timeline!TimelineNext
  BY <1>0, <1>3, ChangeIsTimeline DEF Timeline!TimelineNext
<1>4. ASSUME UNCHANGED <<bindings, undo, redo>> PROVE UNCHANGED <<Line, Len(undo) + 1>>
  BY <1>4 DEF Line
<1>5. CASE UndoEdit
  <2>1. Line' = Line BY <1>0, <1>5, UndoHistories, LineUndo, ZenonT(60) DEF UndoEdit, Line
  <2>2. Len(undo') + 1 = Len(undo) + 1 - 1 /\ Len(undo) + 1 > 1
    BY <1>0, <1>5, UndoHistories, Lengths, EmptySeq DEF UndoEdit
  <2> QED BY <2>1, <2>2 DEF Timeline!TimelineNext, Timeline!Undo
<1>6. CASE RedoEdit
  <2>1. Line' = Line BY <1>0, <1>6, RedoHistories, LineRedo, ZenonT(60) DEF RedoEdit, Line
  <2>2. Len(redo) > 0 BY <1>0, <1>6, EmptySeq DEF RedoEdit
  <2>3. Len(undo) + 1 < Len(Line)
    <3>1. Len(Line) = Len(undo) + 1 + Len(redo) BY <1>0, LineType DEF Line
    <3> QED BY <2>2, <3>1, Lengths
  <2>4. Len(undo') + 1 = Len(undo) + 1 + 1 BY <1>6, RedoHistories, Lengths
  <2> QED BY <2>1, <2>3, <2>4 DEF Timeline!TimelineNext, Timeline!Redo
<1>7. CASE ClearRedo
  <2>1. Line' = Append(undo, bindings) BY <1>0, <1>7, LineWithoutRedo DEF ClearRedo, Line
  <2>2. Timeline!Past = Append(undo, bindings) BY <1>0, LineType DEF Timeline!Past, Line
  <2> QED BY <1>7, <2>1, <2>2 DEF ClearRedo, Timeline!TimelineNext, Timeline!EndHere
<1>8. ASSUME NEW p \in Profiles, NEW s \in Slots, NEW k \in Keys, BindMod(p, s, k) PROVE Timeline!TimelineNext
  BY <1>1, <1>8 DEF BindMod
<1>9. ASSUME NEW p \in Profiles, NEW s \in Slots, BindNative(p, s) PROVE Timeline!TimelineNext
  BY <1>3, <1>9 DEF BindNative
<1>10. ASSUME NEW p \in Profiles, CopyProfile(p) \/ PasteProfile(p) \/ ClearProfile(p)
       PROVE [Timeline!TimelineNext]_<<Line, Len(undo) + 1>>
  BY <1>3, <1>4, <1>10 DEF CopyProfile, PasteProfile, ClearProfile
<1>11. CASE AddUndo BY <1>1, <1>11 DEF AddUndo
<1>12. CASE ClearHistory BY <1>2, <1>12 DEF ClearHistory
<1>13. CASE BeginEdit BY <1>2, <1>13 DEF BeginEdit
<1>14. CASE CancelEdit BY <1>2, <1>14 DEF CancelEdit
<1>15. CASE ResetAll BY <1>2, <1>15 DEF ResetAll
<1>16. CASE Crash BY <1>2, <1>16 DEF Crash
<1>17. CASE SaveOpen \/ SaveWrite \/ SaveSync \/ SaveRename \/ SaveFails
  BY <1>4, <1>17 DEF SaveOpen, SaveWrite, SaveSync, SaveRename, SaveFails, Saving, editVars
<1>18. CASE UNCHANGED bindVars BY <1>4, <1>18 DEF bindVars
<1> QED BY <1>5, <1>6, <1>7, <1>8, <1>9, <1>10, <1>11, <1>12, <1>13, <1>14, <1>15, <1>16, <1>17, <1>18 DEF BindNext

\* Undo, redo and every other call of the editor behave as a line of states with a cursor.
THEOREM BindingsImplementTimeline == BindSpec => ImplementsTimeline
<1> QED BY BindInitIInv, BindNextIInv, InitIsTimeline, NextIsTimeline, PTL
        DEF BindSpec, ImplementsTimeline, Timeline!TimelineSpec

--------------------------------------------------------------------------------
(* The touch buttons of mods.                                                 *)
Modes    == {"on", "disabled", "hidden"}
BtAction == [key : ModActions, mode : Modes, held : BOOLEAN]
BtClaim  == [cursor : Cursors, key : ModActions, multi : BOOLEAN, released : BOOLEAN, cancelled : BOOLEAN]

\* No key is registered twice; no finger has two claims, and no two fingers hold one button alone.
KeysOnce(as)     == \A i, j \in DOMAIN as : as[i].key = as[j].key => i = j
CursorsOnce(cl)  == \A i, j \in DOMAIN cl : cl[i].cursor = cl[j].cursor => i = j
KeysAlone(cl)    == \A i, j \in DOMAIN cl : cl[i].key = cl[j].key /\ HoldsAlone(cl[i]) /\ HoldsAlone(cl[j]) => i = j
ActionLists == {as \in Seq(BtAction) : KeysOnce(as)}
ClaimLists  == {cl \in Seq(BtClaim) : CursorsOnce(cl) /\ KeysAlone(cl)}
\* The claim y as it may have become: of the same finger on the same button, and not holding it anew.
Later(x, y) == x.cursor = y.cursor /\ x.key = y.key /\ (HoldsAlone(x) => HoldsAlone(y))
\* One region of a button, with the flag of its slot.
RegionSets  == {R \in SUBSET ((ModActions \ RadialKeys) \X BOOLEAN) : \A r1, r2 \in R : r1[1] = r2[1] => r1 = r2}

InputTypes ==
  /\ actions \in ActionLists /\ claims \in ClaimLists /\ normalHeld \in [Indexes -> BOOLEAN]
  /\ radialHeld \subseteq RadialKeys \X (0..2) /\ regions \in RegionSets
  /\ wasDown \subseteq Cursors

\* What normal_held says of an index is said of the action that is there.
PlainHeld == \A i \in Indexes : normalHeld[i] => i \in DOMAIN actions /\ Touched(actions[i].key)
InputIInv == InputTypes /\ PlainHeld /\ HeldIsTouched

\* There is an index for each action.
LEMMA IndexesSuffice ==
  ASSUME NEW as \in ActionLists
  PROVE  Len(as) \in Nat /\ DOMAIN as = 1..Len(as) /\ DOMAIN as \subseteq Indexes /\ \A i \in DOMAIN as : as[i] \in BtAction
<1>1. as \in Seq(BtAction) /\ KeysOnce(as) BY DEF ActionLists
<1>2. Len(as) \in Nat /\ DOMAIN as = 1..Len(as) /\ \A i \in DOMAIN as : as[i] \in BtAction BY <1>1, LenProperties, ElementOfSeq
<1> DEFINE f == [i \in 1..Len(as) |-> as[i].key]
<1>3. f \in [1..Len(as) -> ModActions]
  <2>1. \A i \in 1..Len(as) : as[i].key \in ModActions BY <1>2 DEF BtAction
  <2> QED BY <2>1
<1>4. f \in Injection(1..Len(as), ModActions)
  <2>1. \A i, j \in 1..Len(as) : f[i] = f[j] => i = j BY <1>1, <1>2 DEF KeysOnce
  <2> HIDE DEF f
  <2> QED BY <1>3, <2>1 DEF Injection, IsInjective
<1> HIDE DEF f
<1>5. IsFiniteSet(ModActions) BY InputAssumption DEF InputAssumption
<1> DEFINE n == Len(as)  m == Cardinality(ModActions)
<1>6. n \in Nat BY <1>2
<1>7. IsFiniteSet(1..n) /\ Cardinality(1..n) = IF 1 > n THEN 0 ELSE n - 1 + 1
  <2> HIDE DEF n
  <2>1. 1 \in Int /\ n \in Int BY <1>6
  <2> QED BY ONLY <2>1, 1 \in Int, n \in Int, FS_Interval
<1>7a. Cardinality(1..n) <= m /\ m \in Nat BY <1>4, <1>5, <1>7, FS_Injection, FS_CardinalityType
<1>8. 1..n \subseteq 1..m
  <2> HIDE DEF n, m
  <2> QED BY <1>6, <1>7, <1>7a
<1> QED BY <1>2, <1>8 DEF Indexes

\* Claims, one at a time.
LEMMA ClaimsTyped ==
  ASSUME NEW cl \in ClaimLists
  PROVE  cl \in Seq(BtClaim) /\ Len(cl) \in Nat /\ DOMAIN cl = 1..Len(cl) /\ \A i \in DOMAIN cl : cl[i] \in BtClaim
BY LenProperties, ElementOfSeq DEF ClaimLists

\* A claim that is changed stays the one of its cursor.
LEMMA ClaimChanged ==
  ASSUME NEW cl \in ClaimLists, NEW i \in DOMAIN cl, NEW x \in BtClaim, Later(x, cl[i])
  PROVE  [cl EXCEPT ![i] = x] \in ClaimLists
<1>0. cl \in Seq(BtClaim) /\ CursorsOnce(cl) /\ KeysAlone(cl) BY DEF ClaimLists
<1> DEFINE r == [cl EXCEPT ![i] = x]
<1>1. r \in Seq(BtClaim) /\ Len(r) = Len(cl) BY <1>0, ExceptSeq
<1>2. DOMAIN r = DOMAIN cl /\ \A j \in DOMAIN cl : Later(r[j], cl[j])
  <2>1. DOMAIN r = DOMAIN cl /\ r[i] = x /\ \A j \in DOMAIN cl : j # i => r[j] = cl[j] OBVIOUS
  <2> HIDE DEF r
  <2> QED BY <2>1 DEF Later
<1> HIDE DEF r
<1>3. CursorsOnce(r) BY <1>0, <1>2 DEF CursorsOnce, Later
<1>4. KeysAlone(r) BY <1>0, <1>2 DEF KeysAlone, Later
<1> QED BY <1>1, <1>3, <1>4 DEF ClaimLists, r

\* All of them may be changed, too.
LEMMA ClaimsChanged ==
  ASSUME NEW cl \in ClaimLists, NEW r, DOMAIN r = DOMAIN cl, r = [i \in DOMAIN r |-> r[i]],
         \A i \in DOMAIN cl : r[i] \in BtClaim /\ Later(r[i], cl[i])
  PROVE  r \in ClaimLists
<1>1. Len(cl) \in Nat /\ DOMAIN cl = 1..Len(cl) /\ CursorsOnce(cl) /\ KeysAlone(cl) BY ClaimsTyped DEF ClaimLists
<1>2. r \in [1..Len(cl) -> BtClaim] BY <1>1
<1>3. r \in Seq(BtClaim) BY <1>1, <1>2
<1>4. CursorsOnce(r) BY <1>1 DEF CursorsOnce, Later
<1>5. KeysAlone(r) BY <1>1 DEF KeysAlone, Later
<1> QED BY <1>3, <1>4, <1>5 DEF ClaimLists

\* What is taken out of the claims leaves claims.
LEMMA ClaimsPicked == ASSUME NEW cl \in ClaimLists, NEW r \in PicksOf(BtClaim, cl) PROVE r \in ClaimLists
<1>1. cl \in Seq(BtClaim) /\ CursorsOnce(cl) /\ KeysAlone(cl) /\ r \in Seq(BtClaim) BY DEF ClaimLists, PicksOf
<1>2. DOMAIN cl = 1..Len(cl) /\ DOMAIN r = 1..Len(r) BY <1>1, LenProperties
<1>3. PICK f : Picked(r, cl, f) BY DEF PicksOf
<1>4. CursorsOnce(r)
  <2> SUFFICES ASSUME NEW j \in 1..Len(r), NEW k \in 1..Len(r), r[j].cursor = r[k].cursor PROVE j = k
    BY <1>2 DEF CursorsOnce
  <2>1. r[j] = cl[f[j]] /\ r[k] = cl[f[k]] /\ f[j] \in 1..Len(cl) /\ f[k] \in 1..Len(cl) BY <1>3 DEF Picked
  <2>2. f[j] = f[k] BY <1>1, <1>2, <2>1 DEF CursorsOnce
  <2> QED BY <1>3, <2>2 DEF Picked
<1>5. KeysAlone(r)
  <2> SUFFICES ASSUME NEW j \in 1..Len(r), NEW k \in 1..Len(r), r[j].key = r[k].key, HoldsAlone(r[j]), HoldsAlone(r[k])
               PROVE  j = k
    BY <1>2 DEF KeysAlone
  <2>1. r[j] = cl[f[j]] /\ r[k] = cl[f[k]] /\ f[j] \in 1..Len(cl) /\ f[k] \in 1..Len(cl) BY <1>3 DEF Picked
  <2>2. f[j] = f[k] BY <1>1, <1>2, <2>1 DEF KeysAlone
  <2> QED BY <1>3, <2>2 DEF Picked
<1> QED BY <1>1, <1>4, <1>5 DEF ClaimLists

\* A finger without a claim gets one; that of a second finger alone on a button is cancelled.
LEMMA NewClaimIs ==
  ASSUME NEW cl \in ClaimLists, NEW c \in Cursors, NEW g \in (ModActions \ RadialKeys) \X BOOLEAN, ClaimOf(cl, c) = {}
  PROVE  NewClaim(cl, c, g) \in ClaimLists
<1> DEFINE k == g[1]
           off == ~g[2] /\ Occupied(cl, k)
           x == [cursor |-> c, key |-> k, multi |-> g[2], released |-> FALSE, cancelled |-> off]
           r == Append(cl, x)
<1>1. x \in BtClaim /\ x.cursor = c /\ x.key = k /\ (HoldsAlone(x) => ~Occupied(cl, k))
  <2>1. k \in ModActions /\ g[2] \in BOOLEAN /\ off \in BOOLEAN BY DEF Occupied
  <2>2. x.multi = g[2] /\ x.cancelled = off OBVIOUS
  <2>3. HoldsAlone(x) => ~off /\ ~g[2] BY <2>2 DEF HoldsAlone
  <2>4. HoldsAlone(x) => ~Occupied(cl, k) BY <2>3
  <2> HIDE DEF off, k
  <2>5. x \in BtClaim BY <2>1 DEF BtClaim
  <2> QED BY <2>4, <2>5
<1>4. NewClaim(cl, c, g) = r BY DEF NewClaim
<1> HIDE DEF x
<1>2. cl \in Seq(BtClaim) /\ CursorsOnce(cl) /\ KeysAlone(cl) /\ DOMAIN cl = 1..Len(cl) /\ Len(cl) \in Nat
  BY ClaimsTyped DEF ClaimLists
<1>3. r \in Seq(BtClaim) /\ Len(r) = Len(cl) + 1 /\ r[Len(cl)+1] = x /\ \A i \in 1..Len(cl) : r[i] = cl[i]
  BY <1>1, <1>2, AppendProperties
<1> HIDE DEF r, k
<1>5. DOMAIN r = 1..(Len(cl)+1) BY <1>3, LenProperties
<1>6. \A i \in 1..Len(cl) : cl[i].cursor # c BY <1>2 DEF ClaimOf
<1>7. \A i \in DOMAIN r : (i \in DOMAIN cl /\ r[i] = cl[i] /\ cl[i].cursor # c) \/ (i = Len(cl) + 1 /\ r[i] = x)
  BY <1>2, <1>3, <1>5, <1>6
<1>8. CursorsOnce(r)
  <2> SUFFICES ASSUME NEW i \in DOMAIN r, NEW j \in DOMAIN r, r[i].cursor = r[j].cursor PROVE i = j BY DEF CursorsOnce
  <2>1. CASE i \in DOMAIN cl /\ j \in DOMAIN cl BY <1>2, <1>7, <2>1 DEF CursorsOnce
  <2>2. CASE i \notin DOMAIN cl \/ j \notin DOMAIN cl BY <1>1, <1>7, <2>2
  <2> QED BY <2>1, <2>2
<1>9. KeysAlone(r)
  <2> SUFFICES ASSUME NEW i \in DOMAIN r, NEW j \in DOMAIN r, r[i].key = r[j].key, HoldsAlone(r[i]), HoldsAlone(r[j])
               PROVE  i = j
    BY DEF KeysAlone
  <2>1. CASE i \in DOMAIN cl /\ j \in DOMAIN cl
    <3>1. r[i] = cl[i] /\ r[j] = cl[j] BY <1>2, <1>7, <2>1
    <3> QED BY <1>2, <2>1, <3>1 DEF KeysAlone
  <2>2. CASE i \notin DOMAIN cl /\ j \notin DOMAIN cl BY <1>7, <2>2
  <2>3. ASSUME NEW l \in DOMAIN cl, HoldsAlone(cl[l]), HoldsAlone(x) PROVE cl[l].key # k
    BY <1>1, <2>3 DEF Occupied, HoldsAlone
  <2>4. CASE i \in DOMAIN cl /\ j \notin DOMAIN cl BY <1>1, <1>7, <2>3, <2>4
  <2>5. CASE i \notin DOMAIN cl /\ j \in DOMAIN cl BY <1>1, <1>7, <2>3, <2>5
  <2> QED BY <2>1, <2>2, <2>4, <2>5
<1> QED BY <1>3, <1>4, <1>8, <1>9 DEF ClaimLists

\* What a finger that is down counts for.
Pressed(fingers) == {i \in DOMAIN actions : \E c \in DOMAIN fingers : fingers[c].how # "up" /\ fingers[c].on = actions[i].key}
Polls(fingers)   == [claims : ClaimLists, held : SUBSET Pressed(fingers)]

\* What the game tells of a finger.
LEMMA FingersAre ==
  ASSUME NEW fingers \in Fingers
  PROVE  /\ DOMAIN fingers \subseteq Cursors
         /\ \A c \in DOMAIN fingers : fingers[c].on \in (ModActions \ RadialKeys) \union {Nothing}
<1>1. PICK S \in SUBSET Cursors :
        fingers \in [S -> [on : (ModActions \ RadialKeys) \union {Nothing}, how : {"up", "down", "taken"}]]
  BY DEF Fingers
<1> QED BY <1>1

\* One cursor: a finger holds a button it has claimed and is still on.
LEMMA PollCursorIs ==
  ASSUME InputTypes, NEW fingers \in Fingers, NEW c \in DOMAIN fingers, NEW acc \in Polls(fingers)
  PROVE  PollCursor(acc, c, fingers[c]) \in Polls(fingers)
<1> DEFINE finger == fingers[c]
           mayClaim == MayClaim(acc.claims, c, finger)
           region == CHOOSE r \in RegionsAt(finger.on) : TRUE
           cl == IF mayClaim THEN NewClaim(acc.claims, c, region) ELSE acc.claims
           i == CHOOSE j \in ClaimOf(cl, c) : TRUE
           claim == [cl[i] EXCEPT !.cancelled = @ \/ cl[i].key # finger.on, !.released = @ \/ finger.how = "up"]
           held == IF finger.how # "up" /\ ~claim.cancelled /\ screen = "play" THEN acc.held \union IndexOf(claim.key) ELSE acc.held
<1>0. c \in Cursors BY FingersAre
<1>1. acc.claims \in ClaimLists /\ acc.held \subseteq Pressed(fingers) BY DEF Polls
<1>2. cl \in ClaimLists
  <2>1. CASE mayClaim
    <3>1. region \in RegionsAt(finger.on) BY <2>1 DEF MayClaim
    <3>1a. region \in (ModActions \ RadialKeys) \X BOOLEAN BY <3>1 DEF RegionsAt, InputTypes, RegionSets
    <3>2. ClaimOf(acc.claims, c) = {} BY <2>1 DEF MayClaim
    <3> HIDE DEF finger, region
    <3>3. NewClaim(acc.claims, c, region) \in ClaimLists BY <1>0, <1>1, <3>1a, <3>2, NewClaimIs
    <3> QED BY <2>1, <3>3
  <2>2. CASE ~mayClaim BY <1>1, <2>2
  <2> QED BY <2>1, <2>2
<1>3. PollCursor(acc, c, finger) = IF ClaimOf(cl, c) = {} THEN acc ELSE [claims |-> [cl EXCEPT ![i] = claim], held |-> held]
  BY DEF PollCursor
<1> HIDE DEF mayClaim, cl
<1>4. CASE ClaimOf(cl, c) = {} BY <1>3, <1>4
<1>5. CASE ClaimOf(cl, c) # {}
  <2>1. i \in ClaimOf(cl, c) BY <1>5
  <2> HIDE DEF i
  <2>2. i \in DOMAIN cl /\ cl[i] \in BtClaim /\ cl[i].cursor = c BY <1>2, <2>1, ClaimsTyped DEF ClaimOf
  <2> DEFINE x == cl[i]  gone == x.cancelled \/ x.key # finger.on  up == x.released \/ finger.how = "up"
  <2>3. claim = [cursor |-> x.cursor, key |-> x.key, multi |-> x.multi, released |-> up, cancelled |-> gone]
    <3>1. x = [cursor |-> x.cursor, key |-> x.key, multi |-> x.multi, released |-> x.released, cancelled |-> x.cancelled]
      BY <2>2 DEF BtClaim
    <3>2. claim = [x EXCEPT !.cancelled = gone, !.released = up] OBVIOUS
    <3> HIDE DEF x, gone, up, claim
    <3> QED BY <3>1, <3>2
  <2>4. gone \in BOOLEAN /\ up \in BOOLEAN /\ (x.cancelled => gone) /\ (x.released => up) BY <1>0, <2>2 DEF BtClaim
  <2>5. x.cursor \in Cursors /\ x.key \in ModActions /\ x.multi \in BOOLEAN BY <2>2 DEF BtClaim
  <2>6. ~gone => x.key = finger.on OBVIOUS
  <2> HIDE DEF gone, up, finger, x
  <2>7. claim \in BtClaim /\ claim.cursor = x.cursor /\ claim.cancelled = gone /\ claim.key = x.key
    BY <2>3, <2>4, <2>5 DEF BtClaim
  <2>7a. claim.released = up /\ claim.multi = x.multi BY <2>3
  <2> HIDE DEF claim
  <2>7b. Later(claim, x) BY <2>4, <2>7, <2>7a DEF Later, HoldsAlone
  <2>8. [cl EXCEPT ![i] = claim] \in ClaimLists BY <1>2, <2>2, <2>7, <2>7b, ClaimChanged DEF x
  <2>9. held \subseteq Pressed(fingers)
    <3>1. ASSUME finger.how # "up", ~claim.cancelled, NEW j \in IndexOf(claim.key) PROVE j \in Pressed(fingers)
      <4>1. ~gone BY <2>4, <2>7, <3>1
      <4>2. claim.key = finger.on BY <2>6, <2>7, <4>1
      <4>3. j \in DOMAIN actions /\ actions[j].key = finger.on BY <3>1, <4>2 DEF IndexOf
      <4> QED BY <3>1, <4>3 DEF Pressed, finger
    <3> QED BY <1>1, <3>1
  <2> HIDE DEF held
  <2>10. [claims |-> [cl EXCEPT ![i] = claim], held |-> held] \in Polls(fingers) BY <2>8, <2>9 DEF Polls
  <2> QED BY <1>3, <1>5, <2>10 DEF finger
<1> QED BY <1>4, <1>5

\* The loop over the game's list.
LEMMA PollAllIs ==
  ASSUME InputTypes, NEW fingers \in Fingers, NEW cl \in ClaimLists
  PROVE  PollAll(cl, fingers) \in Polls(fingers)
<1> DEFINE n == Cardinality(Cursors)
           D == Polls(fingers)
           b == [claims |-> cl, held |-> {}]
           turn(c, acc) == IF c \in DOMAIN fingers THEN PollCursor(acc, c, fingers[c]) ELSE acc
           step == [x \in (1..n) \X D |-> turn(x[1], x[2])]
           Body(f) == [c \in 0..n |-> IF c = 0 THEN b
                                      ELSE IF c \in DOMAIN fingers THEN PollCursor(f[c-1], c, fingers[c]) ELSE f[c-1]]
           pass == CHOOSE f : f = Body(f)
<1>0. n \in Nat BY InputAssumption, FS_CardinalityType DEF InputAssumption
<1>1. b \in D BY DEF Polls
<1>2. ASSUME NEW c, NEW acc \in D PROVE turn(c, acc) \in D BY PollCursorIs
<1> HIDE DEF D, b
<1>3. step \in [(1..n) \X D -> D]
  <2> HIDE DEF turn, n
  <2>1. \A x \in (1..n) \X D : x[2] \in D OBVIOUS
  <2> QED BY <1>2, <2>1
<1>4. PICK f \in [0..n -> D] : Solves(f, n, b, step)
  <2> HIDE DEF step, n
  <2> QED BY <1>0, <1>1, <1>3, Recursion
<1>5. f = Body(f)
  <2>1. \A m \in 0..n : m # 0 => m \in 1..n /\ m - 1 \in 0..n BY <1>0
  <2>2. \A m \in 0..n : m # 0 => f[m-1] \in D /\ step[<<m, f[m-1]>>] = turn(m, f[m-1])
    <3>1. \A m \in 0..n : m # 0 => f[m-1] \in D BY <1>4, <2>1
    <3> HIDE DEF turn, n
    <3> QED BY <2>1, <3>1
  <2>3. \A m \in 0..n : f[m] = IF m = 0 THEN b ELSE step[<<m, f[m-1]>>] BY <1>4 DEF Solves
  <2>4. \A m \in 0..n : f[m] = IF m = 0 THEN b ELSE turn(m, f[m-1])
    <3> HIDE DEF step, turn, n
    <3> QED BY <2>2, <2>3
  <2> HIDE DEF step, n
  <2> QED BY <1>4, <2>4
<1>6. pass = Body(pass) BY <1>5
<1>7. PollAll(cl, fingers) = pass[n] BY DEF PollAll, b
<1> HIDE DEF pass
<1>8. \A m \in 0..n : m \in {k \in 0..n : pass[k] \in D}
  <2> DEFINE P == {k \in 0..n : pass[k] \in D}
  <2>1. \A m \in 0..n : pass[m] = IF m = 0 THEN b ELSE turn(m, pass[m-1])
    <3> HIDE DEF n
    <3> QED BY <1>6
  <2> HIDE DEF turn
  <2>2. 0 \in P BY <1>0, <1>1, <2>1
  <2>3. ASSUME NEW m \in 0..n, m # n, m \in P PROVE m + 1 \in P
    <3>1. m + 1 \in 0..n /\ m + 1 # 0 /\ (m + 1) - 1 = m BY <1>0, <2>3
    <3>2. pass[m] \in D BY <2>3
    <3>3. pass[m+1] = turn(m + 1, pass[m]) BY <2>1, <3>1
    <3>4. pass[m+1] \in D BY <1>2, <3>2, <3>3
    <3> QED BY <3>1, <3>4
  <2> HIDE DEF P, n
  <2> QED BY <1>0, <2>2, <2>3, Climb DEF P
<1>9. n \in 0..n BY <1>0
<1> QED BY <1>7, <1>8, <1>9 DEF D

\* The loop that drops claims of cursors that are gone leaves the first of them.
LEMMA DropGoneIs ==
  ASSUME NEW cl \in ClaimLists, NEW listed PROVE DropGone(cl, listed) \in ClaimLists
<1> DEFINE gone == {i \in DOMAIN cl : cl[i].cursor \notin listed}
           m == Min(gone)
           r == SubSeq(cl, 1, m - 1)
<1>1. cl \in Seq(BtClaim) /\ Len(cl) \in Nat /\ DOMAIN cl = 1..Len(cl) /\ \A i \in 1..Len(cl) : cl[i] \in BtClaim BY ClaimsTyped
<1>2. CASE gone = {} BY <1>2 DEF DropGone
<1>3. CASE gone # {}
  <2>1. gone \in SUBSET Nat BY <1>1
  <2>1a. gone \subseteq 1..Len(cl) BY <1>1
  <2> HIDE DEF gone
  <2>2. \E x \in gone : \A y \in gone : x <= y BY <1>3, <2>1, Least
  <2>3. m \in gone BY <2>2 DEF Min
  <2>4. m \in 1..Len(cl) BY <2>1a, <2>3
  <2> HIDE DEF m
  <2>5. /\ r \in Seq(BtClaim) /\ Len(r) = (IF 1 <= m - 1 THEN (m - 1) - 1 + 1 ELSE 0)
        /\ \A k \in 1..((m - 1) - 1 + 1) : r[k] = cl[1 + k - 1]
    <3>1. 1 \in Int /\ m - 1 \in Int /\ \A j \in 1..(m - 1) : cl[j] \in BtClaim BY <1>1, <2>4
    <3> QED BY <3>1, SubSeqProperties
  <2> HIDE DEF r
  <2>6. Len(r) = m - 1 /\ \A k \in 1..(m - 1) : r[k] = cl[k]
    <3> DEFINE l == Len(r)
    <3>1. l = (IF 1 <= m - 1 THEN (m - 1) - 1 + 1 ELSE 0) BY <2>5
    <3> HIDE DEF l
    <3>2. l = m - 1 BY <2>4, <3>1
    <3>3. \A k \in 1..(m - 1) : k \in 1..((m - 1) - 1 + 1) /\ 1 + k - 1 = k BY <2>4
    <3> QED BY <2>5, <3>2, <3>3 DEF l
  <2>7. r \in PicksOf(BtClaim, cl)
    <3> DEFINE f == [k \in 1..Len(r) |-> k]
    <3>1. Picked(r, cl, f) BY <1>1, <2>4, <2>6 DEF Picked
    <3>2. Len(r) <= Len(cl) BY <1>1, <2>4, <2>6
    <3> QED BY <2>5, <3>1, <3>2 DEF PicksOf
  <2>8. DropGone(cl, listed) = r BY <1>3 DEF DropGone, gone, m, r
  <2> QED BY <2>7, <2>8, ClaimsPicked
<1> QED BY <1>2, <1>3

\* The actions with other modes, or held otherwise.
LEMMA ActionsChanged ==
  ASSUME NEW as \in ActionLists, NEW r, DOMAIN r = DOMAIN as, r = [i \in DOMAIN r |-> r[i]],
         \A i \in DOMAIN as : r[i] \in BtAction /\ r[i].key = as[i].key
  PROVE  r \in ActionLists
<1>1. Len(as) \in Nat /\ DOMAIN as = 1..Len(as) /\ KeysOnce(as) BY IndexesSuffice DEF ActionLists
<1>2. r \in [1..Len(as) -> BtAction] BY <1>1
<1>3. r \in Seq(BtAction)
  <2> DEFINE n == Len(as)
  <2>1. n \in Nat /\ r \in [1..n -> BtAction] BY <1>1, <1>2
  <2> HIDE DEF n
  <2> QED BY <2>1
<1>4. KeysOnce(r) BY <1>1 DEF KeysOnce
<1> QED BY <1>3, <1>4 DEF ActionLists

\* button_state_sync_input keeps keys and modes; it holds no more than it is told.
LEMMA SyncStateIs ==
  ASSUME NEW as \in ActionLists, NEW held \in [Indexes -> BOOLEAN]
  PROVE  /\ SyncState(as, held) \in ActionLists /\ DOMAIN SyncState(as, held) = DOMAIN as
         /\ \A i \in DOMAIN as : SyncState(as, held)[i].key = as[i].key /\ (SyncState(as, held)[i].held => held[i])
<1> DEFINE r == SyncState(as, held)
<1>1. DOMAIN as \subseteq Indexes /\ \A i \in DOMAIN as : as[i] \in BtAction BY IndexesSuffice
<1>2. DOMAIN r = DOMAIN as /\ r = [i \in DOMAIN r |-> r[i]] BY DEF SyncState
<1>3. ASSUME NEW i \in DOMAIN as PROVE r[i] \in BtAction /\ r[i].key = as[i].key /\ (r[i].held => held[i])
  <2> DEFINE a == as[i]  h == held[i] /\ as[i].mode = "on"
  <2>1. r[i] = [a EXCEPT !.held = h] BY DEF SyncState
  <2>2. a \in BtAction /\ h \in BOOLEAN /\ (h => held[i]) BY <1>1
  <2>3. a = [key |-> a.key, mode |-> a.mode, held |-> a.held] /\ a.key \in ModActions /\ a.mode \in Modes BY <2>2 DEF BtAction
  <2> HIDE DEF a, h, r
  <2>4. r[i] = [key |-> a.key, mode |-> a.mode, held |-> h] BY <2>1, <2>3
  <2>5. r[i] \in BtAction BY <2>2, <2>3, <2>4 DEF BtAction
  <2>6. r[i].key = a.key /\ r[i].held = h BY <2>4
  <2> QED BY <2>2, <2>5, <2>6 DEF a
<1> HIDE DEF r
<1>4. r \in ActionLists BY <1>2, <1>3, ActionsChanged
<1> QED BY <1>2, <1>3, <1>4 DEF r

\* button_state_reset_input lets all of them go.
LEMMA ResetInputIs ==
  ASSUME NEW as \in ActionLists
  PROVE  /\ ResetInput(as) \in ActionLists /\ DOMAIN ResetInput(as) = DOMAIN as
         /\ \A i \in DOMAIN as : ResetInput(as)[i].key = as[i].key /\ ~ResetInput(as)[i].held
<1> DEFINE r == ResetInput(as)
<1>1. \A i \in DOMAIN as : as[i] \in BtAction BY IndexesSuffice
<1>2. DOMAIN r = DOMAIN as /\ r = [i \in DOMAIN r |-> r[i]] BY DEF ResetInput
<1>3. ASSUME NEW i \in DOMAIN as PROVE r[i] \in BtAction /\ r[i].key = as[i].key /\ ~r[i].held
  <2> DEFINE a == as[i]
  <2>1. r[i] = [a EXCEPT !.held = FALSE] BY DEF ResetInput
  <2>2. a \in BtAction BY <1>1
  <2>3. a = [key |-> a.key, mode |-> a.mode, held |-> a.held] /\ a.key \in ModActions /\ a.mode \in Modes BY <2>2 DEF BtAction
  <2> HIDE DEF a, r
  <2>4. r[i] = [key |-> a.key, mode |-> a.mode, held |-> FALSE] BY <2>1, <2>3
  <2>5. r[i] \in BtAction BY <2>3, <2>4 DEF BtAction
  <2>6. r[i].key = a.key /\ r[i].held = FALSE BY <2>4
  <2> QED BY <2>5, <2>6 DEF a
<1> HIDE DEF r
<1>4. r \in ActionLists BY <1>2, <1>3, ActionsChanged
<1> QED BY <1>2, <1>3, <1>4 DEF r

\* sync_input: what is held is plainly held, or radially.
LEMMA SyncInputIs ==
  ASSUME InputTypes, NEW as \in ActionLists, DOMAIN as = DOMAIN actions, \A i \in DOMAIN as : as[i].key = actions[i].key,
         NEW normal \in [Indexes -> BOOLEAN], NEW radial \in SUBSET (RadialKeys \X (0..2)), SyncInput(as, normal, radial)
  PROVE  /\ radialHeld' \subseteq RadialKeys \X (0..2) /\ actions' \in ActionLists /\ DOMAIN actions' = DOMAIN actions
         /\ \A i \in DOMAIN actions : /\ actions'[i].key = actions[i].key
                                      /\ actions'[i].held => normal[i] \/ \E r \in radialHeld' : r[1] = actions[i].key
<1> DEFINE still == StillRadial(radial)  h == HeldNow(normal, still)
<1>1. radialHeld' = still /\ actions' = SyncState(as, h) BY DEF SyncInput
<1>2. still \subseteq radial BY DEF StillRadial
<1> HIDE DEF still
<1>3. h \in [Indexes -> BOOLEAN] BY DEF HeldNow
<1>4. \A i \in Indexes : h[i] => normal[i] \/ \E r \in still : i \in IndexOf(r[1]) BY DEF HeldNow
<1>4a. DOMAIN as \subseteq Indexes BY IndexesSuffice
<1> HIDE DEF h
<1>5. /\ actions' \in ActionLists /\ DOMAIN actions' = DOMAIN as
      /\ \A i \in DOMAIN as : actions'[i].key = as[i].key /\ (actions'[i].held => h[i])
  BY <1>1, <1>3, SyncStateIs
<1>6. ASSUME NEW i \in DOMAIN actions, actions'[i].held PROVE normal[i] \/ \E r \in radialHeld' : r[1] = actions[i].key
  <2>1. h[i] /\ i \in Indexes BY <1>4a, <1>5, <1>6
  <2>2. normal[i] \/ \E r \in still : i \in IndexOf(r[1]) BY <1>4, <2>1
  <2> QED BY <1>1, <2>2 DEF IndexOf
<1> QED BY <1>1, <1>2, <1>5, <1>6

\* The invariant depends on no more of an action than its key and whether it is held.
LEMMA HeldOf ==
  ASSUME InputIInv
  PROVE  \A i \in DOMAIN actions : actions[i].held => (\E u \in under : u[2] = actions[i].key) \/ \E r \in radialHeld : r[1] = actions[i].key
BY DEF InputIInv, HeldIsTouched, HeldKeys, Touched

\* The same of the state after a step, to be shown one action at a time.
LEMMA HeldNext ==
  ASSUME \A i \in DOMAIN actions' : actions'[i].held => (\E u \in under' : u[2] = actions'[i].key) \/ \E r \in radialHeld' : r[1] = actions'[i].key
  PROVE  HeldIsTouched'
<1> SUFFICES ASSUME NEW k, k \in HeldKeys' PROVE Touched(k)' \/ \E r \in radialHeld' : r[1] = k
  BY DEF HeldIsTouched
<1> QED BY DEF HeldKeys, Touched
\* And what normal_held says after a step, one index at a time.
LEMMA PlainNext ==
  ASSUME \A i \in Indexes : normalHeld'[i] => i \in DOMAIN actions' /\ \E u \in under' : u[2] = actions'[i].key
  PROVE  PlainHeld'
BY DEF PlainHeld, Touched

\* invalidate_action leaves nothing held by index.
LEMMA InvalidateKeeps ==
  ASSUME InputTypes, NEW k, InvalidateAction(k)
  PROVE  /\ claims' \in ClaimLists /\ normalHeld' = NoneHeld /\ normalHeld' \in [Indexes -> BOOLEAN]
         /\ radialHeld' \subseteq RadialKeys \X (0..2) /\ regions' \in RegionSets
         /\ \A r \in radialHeld : r[1] # k => r \in radialHeld'
<1> DEFINE new(i) == [claims[i] EXCEPT !.cancelled = @ \/ claims[i].key = k]
           r == [i \in DOMAIN claims |-> new(i)]
<1>1. /\ claims' = r /\ normalHeld' = NoneHeld /\ radialHeld' = {x \in radialHeld : x[1] # k}
      /\ regions' = {x \in regions : x[1] # k}
  BY DEF InvalidateAction
<1>2. claims \in ClaimLists /\ \A i \in DOMAIN claims : claims[i] \in BtClaim BY ClaimsTyped DEF InputTypes
<1>3. ASSUME NEW i \in DOMAIN claims PROVE new(i) \in BtClaim /\ Later(new(i), claims[i])
  <2> DEFINE c == claims[i]  gone == c.cancelled \/ c.key = k
  <2>1. c \in BtClaim BY <1>2
  <2>2. new(i) = [c EXCEPT !.cancelled = gone] /\ gone \in BOOLEAN /\ (c.cancelled => gone) BY <2>1 DEF BtClaim
  <2>3. /\ c = [cursor |-> c.cursor, key |-> c.key, multi |-> c.multi, released |-> c.released, cancelled |-> c.cancelled]
        /\ c.cursor \in Cursors /\ c.key \in ModActions /\ c.multi \in BOOLEAN /\ c.released \in BOOLEAN
    BY <2>1 DEF BtClaim
  <2> HIDE DEF c, gone, new
  <2>4. new(i) = [cursor |-> c.cursor, key |-> c.key, multi |-> c.multi, released |-> c.released, cancelled |-> gone]
    BY <2>2, <2>3
  <2>5. new(i) \in BtClaim BY <2>2, <2>3, <2>4 DEF BtClaim
  <2>6. Later(new(i), c) BY <2>2, <2>4 DEF Later, HoldsAlone
  <2> QED BY <2>5, <2>6 DEF c
<1> HIDE DEF new
<1>4. r \in ClaimLists
  <2>1. DOMAIN r = DOMAIN claims /\ r = [i \in DOMAIN r |-> r[i]] /\ \A i \in DOMAIN claims : r[i] = new(i) OBVIOUS
  <2> HIDE DEF r
  <2> QED BY <1>2, <1>3, <2>1, ClaimsChanged
<1>5. regions' \in RegionSets BY <1>1 DEF InputTypes, RegionSets
<1> QED BY <1>1, <1>4, <1>5 DEF InputTypes, NoneHeld

\* Nothing is registered, held or touched at the start.
LEMMA InputStart == InputInit => InputIInv
<1> SUFFICES ASSUME InputInit PROVE InputIInv OBVIOUS
<1>1. actions = <<>> /\ claims = <<>> /\ DOMAIN actions = {} /\ DOMAIN claims = {} /\ <<>> \in Seq(BtAction) /\ <<>> \in Seq(BtClaim)
  BY DEF InputInit
<1>2. actions \in ActionLists /\ claims \in ClaimLists BY <1>1 DEF ActionLists, ClaimLists, KeysOnce, CursorsOnce, KeysAlone
<1>3. HeldIsTouched BY <1>1 DEF HeldIsTouched, HeldKeys
<1> QED BY <1>2, <1>3 DEF InputInit, InputIInv, InputTypes, RegionSets, PlainHeld, NoneHeld

\* clear_input: whatever list it finds, nothing is held in it afterwards.
LEMMA ClearKeeps ==
  ASSUME InputTypes, NEW as \in ActionLists, ClearInput(as), wasDown' \subseteq Cursors PROVE InputIInv'
<1>1. /\ regions' = {} /\ claims' = <<>> /\ normalHeld' = NoneHeld /\ radialHeld' = {}
      /\ actions' = ResetInput(as)
  BY DEF ClearInput
<1>2. /\ actions' \in ActionLists /\ DOMAIN actions' = DOMAIN as
      /\ \A i \in DOMAIN as : ~actions'[i].held
  BY <1>1, ResetInputIs
<1>3. claims' \in ClaimLists
  <2>1. <<>> \in Seq(BtClaim) /\ DOMAIN <<>> = {} OBVIOUS
  <2> QED BY <1>1, <2>1 DEF ClaimLists, CursorsOnce, KeysAlone
<1>4. regions' \in RegionSets BY <1>1 DEF RegionSets
<1>5. InputTypes' BY <1>1, <1>2, <1>3, <1>4 DEF InputTypes, NoneHeld
<1>6. PlainHeld' BY <1>1 DEF PlainHeld, NoneHeld
<1>7. HeldIsTouched' BY <1>2, HeldNext
<1> QED BY <1>5, <1>6, <1>7 DEF InputIInv

\* A new action comes last, with a key of its own.
LEMMA RegisterKeeps == ASSUME InputIInv, NEW k \in ModActions, Register(k) PROVE InputIInv'
<1> DEFINE x == [key |-> k, mode |-> "on", held |-> FALSE]  n == Len(actions)
           as == Append(actions, x)
<1>1. IndexOf(k) = {} /\ ClearInput(as) /\ UNCHANGED <<screen, wasDown, under>> BY DEF Register
<1>2. InputTypes /\ actions \in Seq(BtAction) /\ KeysOnce(actions) /\ wasDown \subseteq Cursors
  BY DEF InputIInv, InputTypes, ActionLists
<1>3. n \in Nat /\ DOMAIN actions = 1..n BY <1>2, LenProperties
<1>4. x \in BtAction /\ x.key = k BY DEF BtAction, Modes
<1> HIDE DEF x
<1>5. as \in Seq(BtAction) /\ Len(as) = n + 1 /\ as[n+1] = x /\ \A i \in 1..n : as[i] = actions[i]
  BY <1>2, <1>4, AppendProperties
<1> HIDE DEF as
<1>6. DOMAIN as = 1..(n+1) BY <1>5, LenProperties
<1>7. \A i \in 1..n : actions[i].key # k BY <1>1, <1>3 DEF IndexOf
<1> HIDE DEF n
<1>8. \A i \in DOMAIN as : (i \in DOMAIN actions /\ as[i] = actions[i] /\ actions[i].key # k) \/ (i = n + 1 /\ as[i].key = k)
  <2> SUFFICES ASSUME NEW i \in DOMAIN as
               PROVE  (i \in DOMAIN actions /\ as[i] = actions[i] /\ actions[i].key # k) \/ (i = n + 1 /\ as[i].key = k)
    OBVIOUS
  <2>1. CASE i = n + 1 BY <1>4, <1>5, <2>1
  <2>2. CASE i \in 1..n BY <1>3, <1>5, <1>7, <2>2
  <2>3. n \in Nat /\ i \in 1..(n+1) BY <1>3, <1>6
  <2> HIDE DEF n
  <2>4. i = n + 1 \/ i \in 1..n BY <2>3
  <2> QED BY <2>1, <2>2, <2>4
<1>9. KeysOnce(as)
  <2> SUFFICES ASSUME NEW i \in DOMAIN as, NEW j \in DOMAIN as, as[i].key = as[j].key PROVE i = j BY DEF KeysOnce
  <2>1. CASE i \in DOMAIN actions /\ j \in DOMAIN actions
    <3>1. as[i] = actions[i] /\ as[j] = actions[j] BY <1>3, <1>5, <2>1
    <3> QED BY <1>2, <2>1, <3>1 DEF KeysOnce
  <2>2. CASE i \notin DOMAIN actions \/ j \notin DOMAIN actions BY <1>8, <2>2
  <2> QED BY <2>1, <2>2
<1>10. as \in ActionLists BY <1>5, <1>9 DEF ActionLists
<1> QED BY <1>1, <1>2, <1>10, ClearKeeps

\* The actions behind move down.
LEMMA UnregisterKeeps == ASSUME InputIInv, NEW k \in ModActions, Unregister(k) PROVE InputIInv'
<1> DEFINE n == Len(actions)
<1>1. PICK i \in IndexOf(k) : ClearInput(RemoveAt(actions, i)) /\ UNCHANGED <<screen, wasDown, under>> BY DEF Unregister
<1> DEFINE as == RemoveAt(actions, i)
<1>2. InputTypes /\ actions \in Seq(BtAction) /\ KeysOnce(actions) /\ wasDown \subseteq Cursors
  BY DEF InputIInv, InputTypes, ActionLists
<1>3. n \in Nat /\ DOMAIN actions = 1..n BY <1>2, LenProperties
<1>4. i \in DOMAIN actions BY DEF IndexOf
<1>5. /\ as \in Seq(BtAction) /\ Len(as) = n - 1
      /\ \A j \in 1..(n-1) : as[j] = actions[IF j < i THEN j ELSE j + 1]
  BY <1>2, <1>4, EntryRemoved
<1> HIDE DEF as
<1>6. DOMAIN as = 1..(n-1) BY <1>5, LenProperties
<1> DEFINE old(j) == IF j < i THEN j ELSE j + 1
<1>7. \A j \in 1..(n-1) : old(j) \in 1..n BY <1>3, <1>4
<1>8. \A j, l \in 1..(n-1) : old(j) = old(l) => j = l BY <1>3, <1>4
<1>9. \A j \in DOMAIN as : as[j] = actions[old(j)] /\ old(j) \in DOMAIN actions BY <1>3, <1>5, <1>6, <1>7
<1> HIDE DEF old
<1>10. KeysOnce(as)
  <2> SUFFICES ASSUME NEW j \in DOMAIN as, NEW l \in DOMAIN as, as[j].key = as[l].key PROVE j = l BY DEF KeysOnce
  <2>1. old(j) = old(l) BY <1>2, <1>9 DEF KeysOnce
  <2> QED BY <1>6, <1>8, <2>1
<1>11. as \in ActionLists BY <1>5, <1>10 DEF ActionLists
<1>12. ClearInput(as) /\ wasDown' \subseteq Cursors BY <1>1, <1>2 DEF as
<1> QED BY <1>2, <1>11, <1>12, ClearKeeps

\* shutdown_manager
LEMMA ShutdownKeeps == ASSUME InputIInv, ManagerShutdown PROVE InputIInv'
<1>1. <<>> \in Seq(BtAction) /\ DOMAIN <<>> = {} OBVIOUS
<1>2. <<>> \in ActionLists BY <1>1 DEF ActionLists, KeysOnce
<1>3. ClearInput(<<>>) /\ wasDown' \subseteq Cursors /\ InputTypes BY DEF ManagerShutdown, InputIInv, InputTypes
<1> QED BY <1>2, <1>3, ClearKeeps

\* The editor, where it lets the actions go and no more.
LEMMA ResetsKeep == ASSUME InputIInv, EditorResets PROVE InputIInv'
<1>1. /\ actions' = ResetInput(actions)
      /\ UNCHANGED <<normalHeld, radialHeld, claims, regions, screen, wasDown, under>>
  BY DEF EditorResets
<1>2. InputTypes /\ PlainHeld /\ actions \in ActionLists BY DEF InputIInv, InputTypes
<1>3. /\ actions' \in ActionLists /\ DOMAIN actions' = DOMAIN actions
      /\ \A i \in DOMAIN actions : actions'[i].key = actions[i].key /\ ~actions'[i].held
  BY <1>1, <1>2, ResetInputIs
<1>4. InputTypes' BY <1>1, <1>2, <1>3 DEF InputTypes
<1>5. PlainHeld' BY <1>1, <1>2, <1>3, PlainNext DEF PlainHeld, Touched
<1>6. HeldIsTouched' BY <1>3, HeldNext
<1> QED BY <1>4, <1>5, <1>6 DEF InputIInv

\* set_enabled, set_visible
LEMMA SetModeKeeps ==
  ASSUME InputIInv, NEW k \in ModActions, NEW mode \in Modes, SetMode(k, mode) PROVE InputIInv'
<1>1. PICK i \in IndexOf(k) :
        /\ actions[i].mode # mode
        /\ IF mode = "on" THEN /\ actions' = [actions EXCEPT ![i].mode = "on"]
                               /\ UNCHANGED <<normalHeld, radialHeld, claims, regions>>
                          ELSE /\ actions' = [actions EXCEPT ![i] = [@ EXCEPT !.mode = mode, !.held = FALSE]]
                               /\ InvalidateAction(k)
        /\ UNCHANGED <<screen, wasDown, under>>
  BY DEF SetMode
<1>2. InputTypes /\ PlainHeld /\ actions \in ActionLists BY DEF InputIInv, InputTypes
<1>3. i \in DOMAIN actions /\ actions[i].key = k BY DEF IndexOf
<1>4. \A j \in DOMAIN actions : actions[j] \in BtAction BY <1>2, IndexesSuffice
<1> DEFINE a == actions[i]
<1>5. a \in BtAction /\ a = [key |-> k, mode |-> a.mode, held |-> a.held] /\ a.held \in BOOLEAN BY <1>3, <1>4 DEF BtAction
<1>6. ASSUME NEW x \in BtAction, x.key = k, actions' = [actions EXCEPT ![i] = x]
      PROVE  /\ actions' \in ActionLists /\ DOMAIN actions' = DOMAIN actions
             /\ \A j \in DOMAIN actions : j # i => actions'[j] = actions[j]
             /\ actions'[i] = x
  <2> DEFINE r == [actions EXCEPT ![i] = x]
  <2>1. /\ DOMAIN r = DOMAIN actions /\ r = [j \in DOMAIN r |-> r[j]] /\ r[i] = x
        /\ \A j \in DOMAIN actions : j # i => r[j] = actions[j]
    BY <1>3
  <2>2. actions' = r BY <1>6
  <2> HIDE DEF r
  <2>3. \A j \in DOMAIN actions : r[j] \in BtAction /\ r[j].key = actions[j].key BY <1>3, <1>4, <1>6, <2>1
  <2>4. r \in ActionLists BY <1>2, <2>1, <2>3, ActionsChanged
  <2> QED BY <2>1, <2>2, <2>4
<1>7. CASE mode = "on"
  <2> DEFINE x == [key |-> k, mode |-> "on", held |-> a.held]
  <2>1. x \in BtAction /\ x.key = k /\ x.held = a.held BY <1>5 DEF BtAction, Modes
  <2>2. actions' = [actions EXCEPT ![i] = x]
    <3>1. actions' = [actions EXCEPT ![i] = [a EXCEPT !.mode = "on"]] BY <1>1, <1>7
    <3>2. [a EXCEPT !.mode = "on"] = x
      <4> DEFINE h == a.held  m == a.mode
      <4>1. a = [key |-> k, mode |-> m, held |-> h] BY <1>5
      <4> HIDE DEF a, h, m
      <4>2. [a EXCEPT !.mode = "on"] = [key |-> k, mode |-> "on", held |-> h] BY <4>1
      <4> QED BY <4>2 DEF h
    <3> QED BY <3>1, <3>2
  <2>3. UNCHANGED <<normalHeld, radialHeld, claims, regions, screen, wasDown, under>> BY <1>1, <1>7
  <2> HIDE DEF x
  <2>4. /\ actions' \in ActionLists /\ DOMAIN actions' = DOMAIN actions
        /\ \A j \in DOMAIN actions : actions'[j].key = actions[j].key /\ actions'[j].held = actions[j].held
    BY <1>3, <1>6, <2>1, <2>2 DEF a
  <2>5. InputTypes' BY <1>2, <2>3, <2>4 DEF InputTypes
  <2>6. PlainHeld' BY <1>2, <2>3, <2>4, PlainNext DEF PlainHeld, Touched
  <2>7. HeldIsTouched' BY <2>3, <2>4, HeldOf, HeldNext
  <2> QED BY <2>5, <2>6, <2>7 DEF InputIInv
<1>8. CASE mode # "on"
  <2> DEFINE x == [key |-> k, mode |-> mode, held |-> FALSE]
  <2>1. x \in BtAction /\ x.key = k /\ ~x.held BY <1>8 DEF BtAction
  <2>2. actions' = [actions EXCEPT ![i] = x]
    <3>1. actions' = [actions EXCEPT ![i] = [a EXCEPT !.mode = mode, !.held = FALSE]] BY <1>1, <1>8
    <3>2. [a EXCEPT !.mode = mode, !.held = FALSE] = x
      <4> DEFINE h == a.held  m == a.mode  r == [a EXCEPT !.mode = mode, !.held = FALSE]
      <4>1. a = [key |-> k, mode |-> m, held |-> h] BY <1>5
      <4> HIDE DEF a, h, m
      <4>2. DOMAIN r = {"key", "mode", "held"} /\ r.key = k /\ r.mode = mode /\ r.held = FALSE BY <4>1
      <4>3. r = [y \in DOMAIN r |-> r[y]] OBVIOUS
      <4> HIDE DEF r
      <4>4. r = [key |-> k, mode |-> mode, held |-> FALSE] BY <4>2, <4>3
      <4> QED BY <4>4 DEF r
    <3> QED BY <3>1, <3>2
  <2>3. InvalidateAction(k) /\ UNCHANGED <<screen, wasDown, under>> BY <1>1, <1>8
  <2> HIDE DEF x
  <2>4. /\ actions' \in ActionLists /\ DOMAIN actions' = DOMAIN actions /\ ~actions'[i].held
        /\ \A j \in DOMAIN actions : j # i => actions'[j] = actions[j] /\ actions[j].key # k
    <3>1. \A j \in DOMAIN actions : j # i => actions[j].key # k BY <1>2, <1>3 DEF ActionLists, KeysOnce
    <3> QED BY <1>6, <2>1, <2>2, <3>1
  <2>5. /\ claims' \in ClaimLists /\ normalHeld' = NoneHeld /\ normalHeld' \in [Indexes -> BOOLEAN]
        /\ radialHeld' \subseteq RadialKeys \X (0..2) /\ regions' \in RegionSets
        /\ \A r \in radialHeld : r[1] # k => r \in radialHeld'
    BY <1>2, <2>3, InvalidateKeeps
  <2>6. InputTypes' BY <1>2, <2>3, <2>4, <2>5 DEF InputTypes
  <2>7. PlainHeld' BY <2>5 DEF PlainHeld, NoneHeld
  <2>8. HeldIsTouched'
    <3> SUFFICES ASSUME NEW j \in DOMAIN actions', actions'[j].held
                 PROVE  (\E u \in under' : u[2] = actions'[j].key) \/ \E r \in radialHeld' : r[1] = actions'[j].key
      BY HeldNext
    <3>1. j # i /\ j \in DOMAIN actions /\ actions'[j] = actions[j] /\ actions[j].key # k BY <2>4
    <3>2. (\E u \in under : u[2] = actions[j].key) \/ \E r \in radialHeld : r[1] = actions[j].key BY <3>1, HeldOf
    <3> QED BY <2>3, <2>5, <3>1, <3>2
  <2> QED BY <2>6, <2>7, <2>8 DEF InputIInv
<1> QED BY <1>7, <1>8

\* What is drawn, and the screen, are no matter of what is held.
LEMMA DrawKeeps ==
  ASSUME InputIInv, UNCHANGED <<actions, normalHeld, radialHeld, claims, wasDown, under>>,
         regions' \in RegionSets
  PROVE  InputIInv'
<1>1. InputTypes' BY DEF InputIInv, InputTypes
<1>2. PlainHeld' BY PlainNext DEF InputIInv, PlainHeld, Touched
<1>3. HeldIsTouched' BY HeldOf, HeldNext
<1> QED BY <1>1, <1>2, <1>3 DEF InputIInv

\* A group that is drawn: pressed keys are in the radial list, the others as normal_held says.
LEMMA DrawGroupKeeps ==
  ASSUME InputIInv, NEW k \in ModActions, NEW pressed \in BOOLEAN, DrawGroup(k, pressed) PROVE InputIInv'
<1> DEFINE older == {r \in radialHeld : r[1] = k /\ r[2] > 0}
           choices == IF ~Visible(k) THEN {radialHeld}
                      ELSE IF pressed /\ Enabled(k) THEN {radialHeld \union {<<k, 0>>}}
                      ELSE IF older = {} THEN {radialHeld} ELSE {radialHeld \ {r} : r \in older}
<1>0. InputTypes /\ PlainHeld BY DEF InputIInv
<1>1. k \in RadialKeys /\ UNCHANGED <<normalHeld, claims, regions, screen, wasDown, under>> BY DEF DrawGroup
<1>2. PICK radial \in choices : SyncInput(actions, normalHeld, radial) BY DEF DrawGroup
<1>3. radial \in SUBSET (RadialKeys \X (0..2))
  <2>1. radialHeld \subseteq RadialKeys \X (0..2) /\ <<k, 0>> \in RadialKeys \X (0..2) BY <1>0, <1>1 DEF InputTypes
  <2>2. radial = radialHeld \/ radial = radialHeld \union {<<k, 0>>} \/ \E r \in older : radial = radialHeld \ {r} BY <1>2
  <2> HIDE DEF older
  <2> QED BY <2>1, <2>2
<1>4. actions \in ActionLists /\ normalHeld \in [Indexes -> BOOLEAN] BY <1>0 DEF InputTypes
<1>5. /\ radialHeld' \subseteq RadialKeys \X (0..2) /\ actions' \in ActionLists /\ DOMAIN actions' = DOMAIN actions
      /\ \A i \in DOMAIN actions : /\ actions'[i].key = actions[i].key
                                   /\ actions'[i].held => normalHeld[i] \/ \E r \in radialHeld' : r[1] = actions[i].key
  BY <1>0, <1>2, <1>3, <1>4, SyncInputIs
<1>6. InputTypes' BY <1>0, <1>1, <1>5 DEF InputTypes
<1>7. PlainHeld' BY <1>0, <1>1, <1>5, PlainNext DEF PlainHeld, Touched
<1>8. HeldIsTouched'
  <2> SUFFICES ASSUME NEW i \in DOMAIN actions', actions'[i].held
               PROVE  (\E u \in under' : u[2] = actions'[i].key) \/ \E r \in radialHeld' : r[1] = actions'[i].key
    BY HeldNext
  <2>1. i \in Indexes BY <1>4, <1>5, IndexesSuffice
  <2> QED BY <1>0, <1>1, <1>5, <2>1 DEF PlainHeld, Touched
<1> QED BY <1>6, <1>7, <1>8 DEF InputIInv

\* A tick: the radial entries grow older, and outside of play nothing is held.
LEMMA TickKeeps == ASSUME InputIInv, Tick PROVE InputIInv'
<1> DEFINE older(r) == <<r[1], IF r[2] < 2 THEN r[2] + 1 ELSE 2>>
<1>0. InputTypes /\ PlainHeld /\ actions \in ActionLists BY DEF InputIInv, InputTypes
<1>1. /\ radialHeld' = {older(r) : r \in radialHeld}
      /\ actions' = IF screen \in {"menu", "edit"} THEN SyncState(actions, NoneHeld) ELSE actions
      /\ UNCHANGED <<normalHeld, claims, regions, screen, wasDown, under>>
  BY DEF Tick
<1>2. NoneHeld \in [Indexes -> BOOLEAN] BY DEF NoneHeld
<1>3. /\ actions' \in ActionLists /\ DOMAIN actions' = DOMAIN actions
      /\ \A i \in DOMAIN actions : actions'[i].key = actions[i].key /\ (actions'[i].held => actions[i].held)
  <2>1. CASE screen \in {"menu", "edit"}
    <3>1. actions' = SyncState(actions, NoneHeld) BY <1>1, <2>1
    <3>2. DOMAIN actions \subseteq Indexes /\ \A i \in Indexes : ~NoneHeld[i] BY <1>0, IndexesSuffice DEF NoneHeld
    <3> QED BY <1>0, <1>2, <3>1, <3>2, SyncStateIs
  <2>2. CASE screen \notin {"menu", "edit"} BY <1>0, <1>1, <2>2
  <2> QED BY <2>1, <2>2
<1>4. \A r \in RadialKeys \X (0..2) : older(r) \in RadialKeys \X (0..2) /\ older(r)[1] = r[1] OBVIOUS
<1> HIDE DEF older
<1>5. radialHeld' \subseteq RadialKeys \X (0..2) /\ \A r \in radialHeld : \E s \in radialHeld' : s[1] = r[1]
  BY <1>0, <1>1, <1>4 DEF InputTypes
<1>6. InputTypes' BY <1>0, <1>1, <1>3, <1>5 DEF InputTypes
<1>7. PlainHeld' BY <1>0, <1>1, <1>3, PlainNext DEF PlainHeld, Touched
<1>8. HeldIsTouched'
  <2> SUFFICES ASSUME NEW i \in DOMAIN actions', actions'[i].held
               PROVE  (\E u \in under' : u[2] = actions'[i].key) \/ \E r \in radialHeld' : r[1] = actions'[i].key
    BY HeldNext
  <2>1. (\E u \in under : u[2] = actions[i].key) \/ \E r \in radialHeld : r[1] = actions[i].key BY <1>3, HeldOf
  <2> QED BY <1>1, <1>3, <1>5, <2>1
<1> QED BY <1>6, <1>7, <1>8 DEF InputIInv

\* While the interface is blocked every claim is given up.
LEMMA BlockedClaims ==
  ASSUME NEW cl \in ClaimLists PROVE [i \in DOMAIN cl |-> [cl[i] EXCEPT !.cancelled = TRUE]] \in ClaimLists
<1> DEFINE r == [i \in DOMAIN cl |-> [cl[i] EXCEPT !.cancelled = TRUE]]
<1>1. DOMAIN r = DOMAIN cl /\ r = [i \in DOMAIN r |-> r[i]] OBVIOUS
<1>2. ASSUME NEW i \in DOMAIN cl PROVE r[i] \in BtClaim /\ Later(r[i], cl[i])
  <2> DEFINE c == cl[i]
  <2>1. r[i] = [c EXCEPT !.cancelled = TRUE] /\ c \in BtClaim BY ClaimsTyped
  <2>2. /\ c = [cursor |-> c.cursor, key |-> c.key, multi |-> c.multi, released |-> c.released, cancelled |-> c.cancelled]
        /\ c.cursor \in Cursors /\ c.key \in ModActions /\ c.multi \in BOOLEAN /\ c.released \in BOOLEAN
    BY <2>1 DEF BtClaim
  <2> HIDE DEF c, r
  <2>3. r[i] = [cursor |-> c.cursor, key |-> c.key, multi |-> c.multi, released |-> c.released, cancelled |-> TRUE]
    BY <2>1, <2>2
  <2>4. r[i] \in BtClaim BY <2>2, <2>3 DEF BtClaim
  <2>5. Later(r[i], c) BY <2>3 DEF Later, HoldsAlone
  <2> QED BY <2>4, <2>5 DEF c
<1> HIDE DEF r
<1>3. r \in ClaimLists BY <1>1, <1>2, ClaimsChanged
<1> QED BY <1>3 DEF r

\* A poll: what is held plainly is under a finger of this poll.
LEMMA PollKeeps == ASSUME InputIInv, NEW fingers \in Fingers, Poll(fingers) PROVE InputIInv'
<1> DEFINE blocked == screen = "blocked"
           old    == IF blocked THEN [i \in DOMAIN claims |-> [claims[i] EXCEPT !.cancelled = TRUE]] ELSE claims
           done   == {x \in ToSet(old) : x.released}
           left   == Without(old, done)
           polled == PollAll(left, fingers)
           normal == [i \in Indexes |-> i \in polled.held]
           as     == IF blocked THEN ResetInput(actions) ELSE actions
           radial == IF blocked THEN {} ELSE radialHeld
<1>0. InputTypes /\ actions \in ActionLists /\ claims \in ClaimLists BY DEF InputIInv, InputTypes
<1>1. /\ wasDown' = {c \in DOMAIN fingers : fingers[c].how # "up"}
      /\ under' = {<<c, fingers[c].on>> : c \in {d \in wasDown' : fingers[d].on # Nothing}}
  BY DEF Poll
<1>2. wasDown' \subseteq Cursors BY <1>1, FingersAre
<1>3. CASE screen = "menu"
  <2>1. ClearInput(actions) BY <1>3 DEF Poll
  <2> QED BY <1>0, <1>2, <2>1, ClearKeeps
<1>4. CASE screen # "menu"
  <2>1. /\ claims' = DropGone(polled.claims, DOMAIN fingers) /\ normalHeld' = normal /\ regions' = regions
        /\ SyncInput(as, normal, radial)
    BY <1>4 DEF Poll
  <2>2. old \in ClaimLists
    <3>1. CASE blocked BY <1>0, <3>1, BlockedClaims
    <3>2. CASE ~blocked BY <1>0, <3>2
    <3> QED BY <3>1, <3>2
  <2> HIDE DEF old, done
  <2>3. left \in ClaimLists
    <3>1. old \in Seq(BtClaim) BY <2>2 DEF ClaimLists
    <3>2. left \in PicksOf(BtClaim, old) BY <3>1, WithoutPicks
    <3> QED BY <2>2, <3>2, ClaimsPicked
  <2> HIDE DEF left
  <2>4. polled \in Polls(fingers) BY <1>0, <2>3, PollAllIs
  <2> HIDE DEF polled
  <2>5. polled.claims \in ClaimLists /\ polled.held \subseteq Pressed(fingers) BY <2>4 DEF Polls
  <2>6. claims' \in ClaimLists BY <2>1, <2>5, DropGoneIs
  <2>7. normal \in [Indexes -> BOOLEAN] /\ \A i \in Indexes : normal[i] => i \in Pressed(fingers)
    <3> DEFINE h == polled.held
    <3>1. h \subseteq Pressed(fingers) BY <2>5
    <3> HIDE DEF h
    <3>2. normal = [i \in Indexes |-> i \in h] BY DEF h
    <3> HIDE DEF normal
    <3>3. normal \in [Indexes -> BOOLEAN] BY <3>2
    <3>4. \A i \in Indexes : normal[i] => i \in h BY <3>2
    <3> QED BY <3>1, <3>3, <3>4
  <2>8. as \in ActionLists /\ DOMAIN as = DOMAIN actions /\ \A i \in DOMAIN as : as[i].key = actions[i].key
    <3>1. CASE blocked BY <1>0, <3>1, ResetInputIs
    <3>2. CASE ~blocked BY <1>0, <3>2
    <3> QED BY <3>1, <3>2
  <2>9. radial \in SUBSET (RadialKeys \X (0..2)) BY <1>0 DEF InputTypes
  <2> HIDE DEF normal, as, radial
  <2>10. /\ radialHeld' \subseteq RadialKeys \X (0..2) /\ actions' \in ActionLists /\ DOMAIN actions' = DOMAIN actions
         /\ \A i \in DOMAIN actions : /\ actions'[i].key = actions[i].key
                                      /\ actions'[i].held => normal[i] \/ \E r \in radialHeld' : r[1] = actions[i].key
    BY <1>0, <2>1, <2>7, <2>8, <2>9, SyncInputIs
  <2>11. ASSUME NEW i \in Pressed(fingers) PROVE i \in DOMAIN actions /\ \E u \in under' : u[2] = actions[i].key
    <3>1. i \in DOMAIN actions /\ actions[i] \in BtAction BY <1>0, <2>11, IndexesSuffice DEF Pressed
    <3>2. PICK c \in DOMAIN fingers : fingers[c].how # "up" /\ fingers[c].on = actions[i].key BY <2>11 DEF Pressed
    <3>3. fingers[c].on # Nothing BY <3>1, <3>2, InputAssumption DEF BtAction, InputAssumption
    <3>4. <<c, fingers[c].on>> \in under' BY <1>1, <3>2, <3>3
    <3>5. <<c, fingers[c].on>>[2] = actions[i].key BY <3>2
    <3> QED BY <3>1, <3>4, <3>5
  <2>12. InputTypes' BY <1>0, <1>2, <2>1, <2>6, <2>7, <2>10 DEF InputTypes
  <2>13. PlainHeld'
    <3> SUFFICES ASSUME NEW i \in Indexes, normalHeld'[i]
                 PROVE  i \in DOMAIN actions' /\ \E u \in under' : u[2] = actions'[i].key
      BY PlainNext
    <3>1. i \in Pressed(fingers) BY <2>1, <2>7
    <3> QED BY <2>10, <2>11, <3>1
  <2>14. HeldIsTouched'
    <3> SUFFICES ASSUME NEW i \in DOMAIN actions', actions'[i].held
                 PROVE  (\E u \in under' : u[2] = actions'[i].key) \/ \E r \in radialHeld' : r[1] = actions'[i].key
      BY HeldNext
    <3>1. i \in DOMAIN actions /\ i \in Indexes BY <1>0, <2>10, IndexesSuffice
    <3>2. actions'[i].key = actions[i].key /\ (normal[i] \/ \E r \in radialHeld' : r[1] = actions[i].key) BY <2>10, <3>1
    <3>3. CASE normal[i]
      <4>1. i \in Pressed(fingers) BY <2>7, <3>1, <3>3
      <4> QED BY <2>11, <3>2, <4>1
    <3> QED BY <3>2, <3>3
  <2> QED BY <2>12, <2>13, <2>14 DEF InputIInv
<1> QED BY <1>3, <1>4

\* No step of the game or of a mod breaks the invariant.
LEMMA InputStep == InputIInv /\ [InputNext]_inputVars => InputIInv'
<1> SUFFICES ASSUME InputIInv, [InputNext]_inputVars PROVE InputIInv' OBVIOUS
<1>0. InputTypes /\ regions \in RegionSets /\ actions \in ActionLists BY DEF InputIInv, InputTypes
<1>1. ASSUME NEW k \in ModActions, Register(k) PROVE InputIInv' BY <1>1, RegisterKeeps
<1>2. ASSUME NEW k \in ModActions, Unregister(k) PROVE InputIInv' BY <1>2, UnregisterKeeps
<1>3. ASSUME NEW k \in ModActions, NEW m \in BOOLEAN, DrawButton(k, m) PROVE InputIInv'
  <2>1. regions' = {r \in regions : r[1] # k} \union {<<k, m>>} /\ k \in ModActions \ RadialKeys BY <1>3 DEF DrawButton
  <2>2. regions' \in RegionSets BY <1>0, <2>1 DEF RegionSets
  <2> QED BY <1>3, <2>2, DrawKeeps DEF DrawButton
<1>4. ASSUME NEW r, RegionExpires(r) PROVE InputIInv'
  <2>1. regions' \in RegionSets BY <1>0, <1>4 DEF RegionExpires, RegionSets
  <2> QED BY <1>4, <2>1, DrawKeeps DEF RegionExpires
<1>5. ASSUME NEW k \in ModActions, NEW m \in Modes, SetMode(k, m) PROVE InputIInv' BY <1>5, SetModeKeeps
<1>6. ASSUME NEW k \in ModActions, NEW p \in BOOLEAN, DrawGroup(k, p) PROVE InputIInv' BY <1>6, DrawGroupKeeps
<1>7. ASSUME NEW s, SetScreen(s) PROVE InputIInv' BY <1>0, <1>7, DrawKeeps DEF SetScreen
<1>8. CASE Tick BY <1>8, TickKeeps
<1>9. CASE Frame
  <2>1. CASE NoManager
    <3>1. ClearInput(actions) /\ wasDown' \subseteq Cursors BY <2>1 DEF NoManager
    <3> QED BY <1>0, <3>1, ClearKeeps
  <2> QED BY <1>9, <2>1, PollKeeps DEF Frame
<1>10. CASE EditorClears
  <2>1. ClearInput(actions) /\ wasDown' \subseteq Cursors BY <1>0, <1>10 DEF EditorClears, InputTypes
  <2> QED BY <1>0, <2>1, ClearKeeps
<1>11. CASE EditorResets BY <1>11, ResetsKeep
<1>12. CASE ManagerShutdown BY <1>12, ShutdownKeeps
<1>13. CASE UNCHANGED inputVars BY <1>0, <1>13, DrawKeeps DEF inputVars
<1> QED BY <1>1, <1>2, <1>3, <1>4, <1>5, <1>6, <1>7, <1>8, <1>9, <1>10, <1>11, <1>12, <1>13 DEF InputNext, Modes

\* The invariant says that the types hold and that what is held is touched.
LEMMA InputHolds == InputIInv => InputTypeOK /\ HeldIsTouched /\ OneFinger
<1> SUFFICES ASSUME InputIInv PROVE InputTypeOK /\ HeldIsTouched /\ OneFinger OBVIOUS
<1>1. InputTypes /\ HeldIsTouched BY DEF InputIInv
<1>2. \A i \in DOMAIN actions : actions[i] \in BtAction BY <1>1, IndexesSuffice DEF InputTypes
<1>3. \A i \in DOMAIN actions : actions[i].mode \in {"on", "disabled", "hidden"} /\ actions[i].held \in BOOLEAN
  BY <1>2 DEF BtAction, Modes
<1>4. \A i \in DOMAIN actions : IndexOf(actions[i].key) = {i} BY <1>1 DEF IndexOf, InputTypes, ActionLists, KeysOnce
<1>5. OneFinger BY <1>1 DEF OneFinger, InputTypes, ClaimLists, KeysAlone
<1>6. \A r1, r2 \in regions : r1[1] = r2[1] => r1 = r2 BY <1>1 DEF InputTypes, RegionSets
<1>7. regions \subseteq (ModActions \ RadialKeys) \X BOOLEAN BY <1>1 DEF InputTypes, RegionSets
<1> QED BY <1>1, <1>3, <1>4, <1>5, <1>6, <1>7 DEF InputTypeOK, InputTypes, ClaimLists, CursorsOnce

\* Property InputTypeOK: an action is registered once and a cursor has at most one claim, whatever
\* is registered, drawn and touched.
THEOREM InputTypeCorrect == InputSpec => []InputTypeOK
BY InputStart, InputStep, InputHolds, PTL DEF InputSpec

\* Property HeldIsTouched: a button counts as held only under a finger, or pressed in a radial group;
\* mods, menus and the editor may come and go between a reading of the cursors and the next group drawn.
THEOREM HeldUnderFinger == InputSpec => []HeldIsTouched
BY InputStart, InputStep, InputHolds, PTL DEF InputSpec

\* Property OneFinger: at most one finger holds a button whose slot takes one, whatever becomes of the
\* list of claims.
THEOREM OneFingerHolds == InputSpec => []OneFinger
BY InputStart, InputStep, InputHolds, PTL DEF InputSpec

--------------------------------------------------------------------------------
(* The four side by side.                                                     *)
DeviceIInv == VoiceIInv /\ CrashIInv /\ InputIInv /\ BIInv

\* A step of the device is a step of one of the four and a stutter of the others.
LEMMA DeviceStep == DeviceIInv /\ [DeviceNext]_deviceVars => DeviceIInv'
<1> SUFFICES ASSUME DeviceIInv, [DeviceNext]_deviceVars PROVE DeviceIInv' OBVIOUS
<1>1. [VoiceNext]_voiceVars /\ [CrashNext]_crashVars /\ [InputNext]_inputVars /\ [BindNext]_bindVars
  BY DEF DeviceNext, OnButtons, deviceVars
<1>2. VoiceIInv' BY <1>1, VoiceStepInv DEF DeviceIInv
<1>3. CrashIInv' BY <1>1, CrashStepInv DEF DeviceIInv
<1>4. InputIInv' BY <1>1, InputStep DEF DeviceIInv
<1>5. BIInv' BY <1>1, BindNextIInv DEF DeviceIInv
<1> QED BY <1>2, <1>3, <1>4, <1>5 DEF DeviceIInv

\* Property DeviceInv: the types of the voices, the crash handler, the buttons and their editor, what
\* a held button promises and the bound on the two histories of the editor hold side by side.
THEOREM DeviceIsTyped == DeviceSpec => []DeviceInv
<1>1. DeviceInit => DeviceIInv
  BY VoiceInitInv, CrashInitInv, InputStart, BindInitIInv DEF DeviceInit, DeviceIInv
<1>2. DeviceIInv => DeviceInv
  <2>1. VoiceIInv => VoiceTypeOK BY DEF VoiceIInv, VoiceShape, VoiceTypeOK, VoiceRecord, MixerRecord, PlayRecord, Sources
  <2>2. CrashIInv => CrashTypeOK BY DEF CrashIInv
  <2>3. BIInv => BindTypeOK /\ HistoryFits BY DEF BIInv
  <2> QED BY <2>1, <2>2, <2>3, InputHolds DEF DeviceIInv, DeviceInv
<1> QED BY <1>1, <1>2, DeviceStep, PTL DEF DeviceSpec
================================================================================
