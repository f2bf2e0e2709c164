---------------------------- MODULE AudioVoices ----------------------------
(* The table of voices of src/terraria/common/content/audio_manager.c: the  *)
(* game's threads play, pause, resume and stop by atomic stores, and the    *)
(* device thread walks the table without a lock.  One callback advances a   *)
(* voice by one frame; volume, pitch, resampling and the samples are left   *)
(* out, and so is the list of registered sources, which no step reads.      *)
EXTENDS Naturals, FiniteSets

CONSTANTS
  Voices,    \* how many slots the table has (48 in the code)
  Tracks,    \* the sources
  NoTrack,   \* no source
  Looping,   \* those that start again at the end
  Frames,    \* frames in a source
  Users      \* threads that call the interface

ASSUME AudioAssumption == Voices \in Nat \ {0} /\ NoTrack \notin Tracks /\ Looping \subseteq Tracks /\ Frames \in Nat \ {0}

VARIABLES
  voice,     \* g_voices
  mixer,     \* the callback: the slot it is at, and what it has read of it
  playing,   \* the play that holds g_sources_mtx: its user, slot and source
  request,   \* per user: the pause, resume or stop between its test and its store
  quiet      \* history: slots that were stopped or paused when this callback began

voiceVars == <<voice, mixer, playing, request, quiet>>

VoiceSlot == 1..Voices
MixerIdle == [at |-> "idle", slot |-> 1, audio |-> NoTrack, pos |-> 0]
NoPlay    == [at |-> "none", user |-> CHOOSE u \in Users : TRUE, slot |-> 1, audio |-> NoTrack]
NoRequest == [op |-> "none", slot |-> 1, audio |-> NoTrack, hit |-> FALSE]
FreeVoice == [state |-> "free", ready |-> FALSE, audio |-> NoTrack, pos |-> 0,
              paused |-> FALSE, stop |-> FALSE]

VoiceInit == /\ voice = [s \in VoiceSlot |-> FreeVoice]
             /\ mixer = MixerIdle
             /\ playing = NoPlay
             /\ request = [u \in Users |-> NoRequest]
             /\ quiet = {}

Hushed(s) == voice[s].stop \/ voice[s].paused
Idle(u)   == request[u] = NoRequest /\ ~(playing.at # "none" /\ playing.user = u)

(***************************************************************************)
(* terraria_audio_manager_play.  The slot becomes ACTIVE first, its ready   *)
(* flag, which is still set when another play used the slot before, is      *)
(* cleared second, and the fields come last.                                *)
(***************************************************************************)
PlayReserve(u, t, s) ==
  /\ Idle(u) /\ playing.at = "none"
  /\ voice[s].state = "free" /\ \A r \in 1..(s-1) : voice[r].state # "free"
  /\ voice' = [voice EXCEPT ![s].state = "active"]
  /\ playing' = [at |-> "unready", user |-> u, slot |-> s, audio |-> t]
  /\ quiet' = quiet \ {s}
  /\ UNCHANGED <<mixer, request>>

PlayUnready == /\ playing.at = "unready"
               /\ voice' = [voice EXCEPT ![playing.slot].ready = FALSE]
               /\ playing' = [playing EXCEPT !.at = "audio"]
               /\ UNCHANGED <<mixer, request, quiet>>

PlayAudio == /\ playing.at = "audio"
             /\ voice' = [voice EXCEPT ![playing.slot].audio = playing.audio]
             /\ playing' = [playing EXCEPT !.at = "publish"]
             /\ UNCHANGED <<mixer, request, quiet>>

PlayPublish ==
  /\ playing.at = "publish"
  /\ voice' = [voice EXCEPT ![playing.slot] =
                 [@ EXCEPT !.pos = 0, !.paused = FALSE, !.stop = FALSE, !.ready = TRUE]]
  /\ quiet' = quiet \ {playing.slot}
  /\ playing' = NoPlay
  /\ UNCHANGED <<mixer, request>>

(***************************************************************************)
(* stop, pause and resume of an id, stop_all of a source: the state is      *)
(* tested in one step and the flag stored in another.                       *)
(***************************************************************************)
AskVoice(u, op, s) ==
  /\ Idle(u) /\ op \in {"stop", "pause", "resume"} /\ voice[s].state = "active"
  /\ request' = [request EXCEPT ![u] = [op |-> op, slot |-> s, audio |-> NoTrack, hit |-> TRUE]]
  /\ UNCHANGED <<voice, mixer, playing, quiet>>

AskAll(u, t) == /\ Idle(u)
                /\ request' = [request EXCEPT ![u] =
                                 [op |-> "stop_all", slot |-> 1, audio |-> t, hit |-> FALSE]]
                /\ UNCHANGED <<voice, mixer, playing, quiet>>

NextRequest(r) == IF r.op = "stop_all" /\ r.slot < Voices
                  THEN [r EXCEPT !.slot = @ + 1, !.hit = FALSE]
                  ELSE NoRequest

TestOfAll(u) ==
  LET r == request[u]
      match == voice[r.slot].state = "active" /\ voice[r.slot].audio = r.audio
  IN /\ r.op = "stop_all" /\ ~r.hit
     /\ request' = [request EXCEPT ![u] = IF match THEN [r EXCEPT !.hit = TRUE] ELSE NextRequest(r)]
     /\ UNCHANGED <<voice, mixer, playing, quiet>>

StoreFlag(u) ==
  LET r == request[u] IN
  /\ r.hit
  /\ voice' = [voice EXCEPT ![r.slot] =
                 CASE r.op = "pause"  -> [@ EXCEPT !.paused = TRUE]
                   [] r.op = "resume" -> [@ EXCEPT !.paused = FALSE]
                   [] OTHER           -> [@ EXCEPT !.stop = TRUE]]
  /\ quiet' = IF r.op = "resume" THEN quiet \ {r.slot} ELSE quiet
  /\ request' = [request EXCEPT ![u] = NextRequest(r)]
  /\ UNCHANGED <<mixer, playing>>

IsPlaying(s) == voice[s].state = "active" /\ ~Hushed(s)

(***************************************************************************)
(* terraria_audio_manager_shutdown: the device is stopped, so no callback    *)
(* runs, and every slot is freed.  The next play opens the device again.    *)
(***************************************************************************)
Shutdown == /\ \A u \in Users : Idle(u)
            /\ mixer.at = "idle"
            /\ voice' = [s \in VoiceSlot |-> [voice[s] EXCEPT !.state = "free", !.ready = FALSE, !.audio = NoTrack]]
            /\ UNCHANGED <<mixer, playing, request, quiet>>

(***************************************************************************)
(* tef_audio_callback: one pass over the slots.                             *)
(***************************************************************************)
PassBegin == /\ mixer.at = "idle"
             /\ mixer' = [MixerIdle EXCEPT !.at = "look"]
             /\ quiet' = {s \in VoiceSlot : Hushed(s)}
             /\ UNCHANGED <<voice, playing, request>>

NextSlot == IF mixer.slot = Voices THEN MixerIdle ELSE [MixerIdle EXCEPT !.at = "look", !.slot = mixer.slot + 1]

PassLook ==
  LET s == mixer.slot IN
  /\ mixer.at = "look"
  /\ voice' = IF voice[s].state = "stopping" THEN [voice EXCEPT ![s].state = "free"] ELSE voice
  /\ mixer' = IF voice[s].state = "active" /\ voice[s].ready THEN [mixer EXCEPT !.at = "flags"] ELSE NextSlot
  /\ UNCHANGED <<playing, request, quiet>>

\* Mutant: the flags are not looked at.
PassFlags_Skipped == mixer.at = "flags" /\ mixer' = [mixer EXCEPT !.at = "take"] /\ UNCHANGED <<voice, playing, request, quiet>>
PassFlags == /\ mixer.at = "flags"
             /\ mixer' = IF Hushed(mixer.slot) THEN NextSlot ELSE [mixer EXCEPT !.at = "take"]
             /\ UNCHANGED <<voice, playing, request, quiet>>

PassTake == LET v == voice[mixer.slot] IN
            /\ mixer.at = "take"
            /\ mixer' = [mixer EXCEPT !.at = "mix", !.audio = v.audio, !.pos = v.pos]
            /\ UNCHANGED <<voice, playing, request, quiet>>

\* Mutant: every source starts again at its end.
PassMix_NeverEnds ==
  /\ mixer.at = "mix"
  /\ voice' = [voice EXCEPT ![mixer.slot].pos = IF @ >= Frames THEN 0 ELSE @ + 1]
  /\ mixer' = NextSlot
  /\ UNCHANGED <<playing, request, quiet>>
PassMix ==
  LET s     == mixer.slot
      atEnd == mixer.pos >= Frames
  IN /\ mixer.at = "mix"
     /\ voice' = CASE atEnd /\ mixer.audio \notin Looping -> [voice EXCEPT ![s].state = "stopping"]
                   [] atEnd /\ mixer.audio \in Looping    -> [voice EXCEPT ![s].pos = 1]
                   [] OTHER                               -> [voice EXCEPT ![s].pos = mixer.pos + 1]
     /\ mixer' = NextSlot
     /\ UNCHANGED <<playing, request, quiet>>

PlayStep  == PlayUnready \/ PlayAudio \/ PlayPublish
PassStep  == PassLook \/ PassFlags \/ PassTake \/ PassMix
VoiceCallback == PassBegin \/ PassStep
AskStep(u) == TestOfAll(u) \/ StoreFlag(u)

VoiceNext == \/ \E u \in Users, t \in Tracks, s \in VoiceSlot : PlayReserve(u, t, s)
             \/ PlayStep
             \/ \E u \in Users, op \in {"stop", "pause", "resume"}, s \in VoiceSlot : AskVoice(u, op, s)
             \/ \E u \in Users, t \in Tracks : AskAll(u, t)
             \/ \E u \in Users : AskStep(u)
             \/ Shutdown
             \/ VoiceCallback

\* The device calls back as long as it runs, and a call of the interface returns.
VoiceFairness == /\ WF_voiceVars(VoiceCallback)
                 /\ WF_voiceVars(PlayStep)
                 /\ \A u \in Users : WF_voiceVars(AskStep(u))

VoiceSpec == VoiceInit /\ [][VoiceNext]_voiceVars /\ VoiceFairness

-----------------------------------------------------------------------------
(* What a slot holds, and what the callback and the calls may be at. *)
VoiceTypeOK ==
  /\ voice \in [VoiceSlot -> [state : {"free", "active", "stopping"}, ready : BOOLEAN,
                              audio : Tracks \union {NoTrack}, pos : 0..Frames,
                              paused : BOOLEAN, stop : BOOLEAN]]
  /\ mixer.at \in {"idle", "look", "flags", "take", "mix"} /\ mixer.slot \in VoiceSlot
  /\ playing.at \in {"none", "unready", "audio", "publish"}
  /\ quiet \subseteq VoiceSlot

(* A voice that was stopped or paused when a callback began, and is not      *)
(* resumed or played anew, is not mixed by it: the delay is at most one      *)
(* callback (audio_manager.h:214), whatever the calls are in the middle of.  *)
SilentAfterOnePeriod == mixer.at = "mix" => mixer.slot \notin quiet

(* A source that does not loop ends: as long as nobody pauses or stops its   *)
(* voice, the slot becomes free again, the race of play with the callback    *)
(* included.                                                                 *)
PlaysToTheEnd ==
  \A s \in VoiceSlot :
    (voice[s].state = "active" /\ voice[s].audio \notin Looping)
      ~> (voice[s].state = "free" \/ voice[s].audio \in Looping \/ Hushed(s))

(* Expected to fail: audio_manager.h:236 says that a stopped voice goes back *)
(* to FREE in one of the following callbacks.  The callback skips it.        *)
StopFreesTheSlot ==
  \A s \in VoiceSlot : (voice[s].state = "active" /\ voice[s].ready /\ voice[s].stop)
                         ~> voice[s].state = "free"

(* Expected to fail: the comment of `ready' (audio_manager.c:50) says that   *)
(* the callback reads the fields only once they are filled.  A slot used     *)
(* before is ACTIVE with its old ready flag and its old source for a moment. *)
ReadsOnlyWhatIsFilled == ~(mixer.at = "mix" /\ playing.at # "none" /\ playing.slot = mixer.slot)

=============================================================================
