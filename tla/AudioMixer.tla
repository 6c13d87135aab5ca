------------------------------ MODULE AudioMixer ------------------------------
(***************************************************************************)
(* The audio mixer (src/audio/raylib_lite_audio_mixer.c) under the Raylib  *)
(* Sound/Music facade (examples_audio/game_audio.c).  The game thread      *)
(* loads, plays and unloads clips; the audio worker mixes chunks.  They    *)
(* share one mutex, but an asset is opened and closed outside it.  A game  *)
(* call's critical section is one step; the worker's is one step a frame.  *)
(*                                                                         *)
(* A lease is the number of an opened asset.  Gains and samples are left   *)
(* out: they decide neither which voice plays nor which asset is read.     *)
(***************************************************************************)
EXTENDS Integers, FiniteSets, Sequences

CONSTANTS MaxClips,     \* config.max_clips
          MaxVoices,    \* config.max_sfx_voices
          ClipFrames,   \* frames in a clip
          ChunkFrames,  \* AUDIO_CHUNK_FRAMES
          GenMod,       \* 2^32: the generation is a uint32_t
          SerialMod,    \* 2^32: the serial is a uint32_t
          MaxLoads,     \* bound: assets the game opens
          MaxPlays      \* bound: sounds the game starts

ASSUME MixerAssumption ==
  /\ MaxClips \in Nat \ {0} /\ MaxVoices \in Nat \ {0}
  /\ ClipFrames \in Nat \ {0} /\ ChunkFrames \in Nat
  /\ GenMod \in Nat \ {0, 1} /\ SerialMod \in Nat \ {0}
  /\ MaxLoads \in Nat /\ MaxPlays \in Nat

Slots  == 0 .. MaxClips - 1
Voices == 0 .. MaxVoices - 1
Kinds  == {"sound", "music"}

VARIABLES
  clips,                  \* mixer_clip_t: used, generation, asset lease
  voices, music,          \* mixer_voice_t, with the lease and the number of
                          \* the play that started it
  serial, steals,         \* mixer->serial, stats.voice_steals
  mixing, chunk,          \* the worker holds the mutex; frames left to mix
  opened, leases,         \* assets opened so far; those not closed yet
  gpc, hold, handle, kind, \* game thread: where it is, the asset it holds
                           \* outside the mixer, the clip being loaded
  tickets,                \* Sound and Music values ever handed out
  plays                   \* play_sound calls

table == <<clips, opened, leases, hold, handle, kind, tickets, gpc>>
vars  == <<clips, voices, music, serial, steals, mixing, chunk, opened,
           leases, gpc, hold, handle, kind, tickets, plays>>

NoLease == 0
Silent  == [active |-> FALSE, slot |-> 0, gen |-> 0, serial |-> 0,
            cursor |-> 0, lease |-> NoLease, play |-> 0]
NoClip  == [slot |-> MaxClips, gen |-> 0]        \* AUDIO_CLIP_INVALID

Init ==
  /\ clips = [s \in Slots |-> [used |-> FALSE, gen |-> 1, lease |-> NoLease]]
  /\ voices = [v \in Voices |-> Silent] /\ music = Silent
  /\ serial = 0 /\ steals = 0
  /\ mixing = FALSE /\ chunk = 0
  /\ opened = 0 /\ leases = {}
  /\ gpc = "idle" /\ hold = NoLease /\ handle = NoClip /\ kind = "sound"
  /\ tickets = << >>
  /\ plays = 0

------------------------------------------------------------------------------
(* Clips, voices and handles.                                              *)

NextGeneration(g) == IF (g + 1) % GenMod = 0 THEN 1 ELSE g + 1

\* find_clip succeeds.
Finds(h) ==
  /\ h.slot \in Slots
  /\ clips[h.slot].used
  /\ clips[h.slot].gen = h.gen

\* voice_clip succeeds: the voice's clip is still the one it started.
HasClip(voice) == voice.active /\ Finds(voice)

\* Slip: a voice that plays the clip goes on.
KeepPlaying(voice, h) == voice

\* Stop the voice if it plays this clip.
Silence(voice, h) ==
  IF voice.active /\ voice.slot = h.slot /\ voice.gen = h.gen
    THEN [voice EXCEPT !.active = FALSE] ELSE voice

\* reset_voice
Started(h) ==
  [Silent EXCEPT !.active = TRUE, !.slot = h.slot, !.gen = h.gen,
                 !.lease = clips[h.slot].lease]

\* ticket_find succeeds.
Live(t, k) == tickets[t].active /\ tickets[t].kind = k

------------------------------------------------------------------------------
(* Loading a sound or music clip.                                          *)

\* The asset is opened; its header is good, or the asset is closed again.
LoadOpen(k) ==
  /\ gpc = "idle" /\ opened < MaxLoads
  /\ opened' = opened + 1
  /\ hold' = opened'
  /\ leases' = leases \cup {opened'}
  /\ kind' = k
  /\ gpc' \in {"insert", "drop"}
  /\ UNCHANGED <<clips, voices, music, serial, steals, mixing, chunk, handle,
                 tickets, plays>>

\* The first unused slot takes the asset, or there is none.
LoadInsert ==
  /\ gpc = "insert" /\ ~mixing
  /\ \/ \E s \in Slots :
          /\ ~clips[s].used
          /\ \A r \in Slots : r < s => clips[r].used
          /\ clips' = [clips EXCEPT ![s] = [used |-> TRUE, gen |-> @.gen, lease |-> hold]]
          /\ handle' = [slot |-> s, gen |-> clips[s].gen]
          /\ hold' = NoLease
          /\ gpc' = "ticket"
     \/ /\ \A s \in Slots : clips[s].used
        /\ gpc' = "drop"
        /\ UNCHANGED <<clips, handle, hold>>
  /\ UNCHANGED <<voices, music, serial, steals, mixing, chunk, opened, leases,
                 kind, tickets, plays>>

\* ticket_create; without memory for it the clip is unloaded.
LoadTicket ==
  /\ gpc = "ticket"
  /\ \/ /\ tickets' = Append(tickets,
                        [slot |-> handle.slot, gen |-> handle.gen,
                         kind |-> kind, active |-> TRUE,
                         lease |-> clips[handle.slot].lease])
        /\ handle' = NoClip
        /\ gpc' = "idle"
     \/ gpc' = "undo" /\ UNCHANGED <<tickets, handle>>
  /\ UNCHANGED <<clips, voices, music, serial, steals, mixing, chunk, opened,
                 leases, hold, kind, plays>>

\* asset_close, outside the mutex.
CloseAsset ==
  /\ gpc = "drop"
  /\ leases' = leases \ {hold}
  /\ hold' = NoLease
  /\ gpc' = "idle"
  /\ UNCHANGED <<clips, voices, music, serial, steals, mixing, chunk, opened,
                 handle, kind, tickets, plays>>

------------------------------------------------------------------------------
(* Unloading.                                                              *)

\* mixer_unload of a handle, up to mixer_unlock.
Unloaded(h) ==
  IF Finds(h)
    THEN /\ voices' = [v \in Voices |-> Silence(voices[v], h)]
         /\ music' = Silence(music, h)
         /\ hold' = clips[h.slot].lease
         /\ clips' = [clips EXCEPT ![h.slot] =
                        [used |-> FALSE, gen |-> NextGeneration(@.gen),
                         lease |-> NoLease]]
         /\ gpc' = "drop"
    ELSE /\ gpc' = "idle"
         /\ UNCHANGED <<voices, music, hold, clips>>

LoadUndo ==
  /\ gpc = "undo" /\ ~mixing
  /\ Unloaded(handle)
  /\ handle' = NoClip
  /\ UNCHANGED <<serial, steals, mixing, chunk, opened, leases, kind, tickets,
                 plays>>

\* Slip: the ticket stays usable.
KeepTicket(t) == UNCHANGED tickets

RetireTicket(t) == tickets' = [tickets EXCEPT ![t].active = FALSE]

\* unload_sound, unload_music with a copy of any Sound or Music.
Unload(t) ==
  /\ gpc = "idle" /\ ~mixing
  /\ \E k \in Kinds : Live(t, k)
  /\ Unloaded(tickets[t])
  /\ RetireTicket(t)
  /\ UNCHANGED <<serial, steals, mixing, chunk, opened, leases, handle, kind,
                 plays>>

------------------------------------------------------------------------------
(* Playing.                                                                *)

\* Slip: the comparison of the serials is swapped.
NewestVoice(v) ==
  \/ ~voices[v].active /\ \A u \in Voices : u < v => voices[u].active
  \/ /\ \A u \in Voices : voices[u].active
     /\ \A u \in Voices : /\ voices[v].serial >= voices[u].serial
                          /\ u < v => voices[v].serial > voices[u].serial

\* The voice play_sound takes: the first idle one, else the first with the
\* smallest serial below UINT32_MAX, else the first.
Selected(v) ==
  \/ ~voices[v].active /\ \A u \in Voices : u < v => voices[u].active
  \/ /\ \A u \in Voices : voices[u].active
     /\ \/ /\ voices[v].serial < SerialMod - 1
           /\ \A u \in Voices : /\ voices[v].serial <= voices[u].serial
                                /\ u < v => voices[v].serial < voices[u].serial
        \/ v = 0 /\ \A u \in Voices : voices[u].serial = SerialMod - 1

PlaySound(t) ==
  /\ gpc = "idle" /\ ~mixing
  /\ plays < MaxPlays
  /\ Live(t, "sound") /\ Finds(tickets[t])
  /\ serial' = (serial + 1) % SerialMod
  /\ plays' = plays + 1
  /\ \E v \in Voices :
       /\ Selected(v)
       /\ steals' = IF voices[v].active /\ voices[v].serial # 0
                      THEN steals + 1 ELSE steals
       /\ voices' = [voices EXCEPT ![v] =
                       [Started(tickets[t]) EXCEPT !.serial = serial',
                                                   !.play = plays']]
  /\ UNCHANGED <<music, mixing, chunk, table>>

StopSound(t) ==
  /\ gpc = "idle" /\ ~mixing
  /\ Live(t, "sound") /\ Finds(tickets[t])
  /\ voices' = [v \in Voices |-> Silence(voices[v], tickets[t])]
  /\ UNCHANGED <<music, serial, steals, mixing, chunk, plays, table>>

PlayMusic(t) ==
  /\ gpc = "idle" /\ ~mixing
  /\ Live(t, "music") /\ Finds(tickets[t])
  /\ music' = Started(tickets[t])
  /\ UNCHANGED <<voices, serial, steals, mixing, chunk, plays, table>>

StopMusic(t) ==
  /\ gpc = "idle" /\ ~mixing
  /\ Live(t, "music") /\ Finds(tickets[t])
  /\ music' = Silence(music, tickets[t])
  /\ UNCHANGED <<voices, serial, steals, mixing, chunk, plays, table>>

------------------------------------------------------------------------------
(* The worker (pull_audio, raylib_lite_audio_mixer_mix).                   *)

MixBegin ==
  /\ ~mixing
  /\ mixing' = TRUE
  /\ chunk' = ChunkFrames
  /\ UNCHANGED <<voices, music, serial, steals, plays, table>>

\* Slip: a voice plays past the end of its clip.
NeverEnds(voice) ==
  IF ~voice.active THEN voice
  ELSE [voice EXCEPT !.cursor = IF @ < ClipFrames THEN @ + 1 ELSE @,
                     !.active = HasClip(voice)]

\* A sound plays one frame; it ends with its clip, or if the clip is gone.
PlayFrame(voice) ==
  IF ~voice.active THEN voice
  ELSE IF HasClip(voice) /\ voice.cursor < ClipFrames
    THEN [voice EXCEPT !.cursor = @ + 1, !.active = @ /\ voice.cursor + 1 < ClipFrames]
    ELSE [voice EXCEPT !.active = FALSE]

\* Music starts again where it ends.
LoopFrame(voice) ==
  IF ~voice.active THEN voice
  ELSE IF HasClip(voice)
    THEN [voice EXCEPT !.cursor = IF @ < ClipFrames THEN @ + 1 ELSE 1]
    ELSE [voice EXCEPT !.active = FALSE]

MixFrame ==
  /\ mixing /\ chunk > 0
  /\ chunk' = chunk - 1
  /\ voices' = [v \in Voices |-> PlayFrame(voices[v])]
  /\ music' = LoopFrame(music)
  /\ UNCHANGED <<serial, steals, mixing, plays, table>>

MixEnd ==
  /\ mixing /\ chunk = 0
  /\ mixing' = FALSE
  /\ UNCHANGED <<voices, music, serial, steals, chunk, plays, table>>

------------------------------------------------------------------------------
(* The specification.                                                      *)

Load == (\E k \in Kinds : LoadOpen(k)) \/ LoadInsert \/ LoadTicket \/ LoadUndo

UseTicket ==
  \E t \in DOMAIN tickets :
    Unload(t) \/ PlaySound(t) \/ StopSound(t) \/ PlayMusic(t) \/ StopMusic(t)

Mix == MixBegin \/ MixFrame \/ MixEnd

Next == Load \/ CloseAsset \/ UseTicket \/ Mix

Spec == Init /\ [][Next]_vars

\* The audio worker pulls chunk after chunk.
FairSpec == Spec /\ WF_vars(Mix)

------------------------------------------------------------------------------
(* Properties.                                                             *)

ClipType == [used : BOOLEAN, gen : 1 .. GenMod - 1, lease : 0 .. MaxLoads]

VoiceType ==
  [active : BOOLEAN, slot : Slots, gen : 0 .. GenMod - 1,
   serial : 0 .. SerialMod - 1, cursor : 0 .. ClipFrames,
   lease : 0 .. MaxLoads, play : 0 .. MaxPlays]

TicketType ==
  [slot : Slots, gen : 1 .. GenMod - 1, kind : Kinds, active : BOOLEAN,
   lease : 1 .. MaxLoads]

MixerType ==
  /\ clips \in [Slots -> ClipType]
  /\ voices \in [Voices -> VoiceType] /\ music \in VoiceType
  /\ mixing \in BOOLEAN

CounterType ==
  /\ serial \in 0 .. SerialMod - 1
  /\ plays \in 0 .. MaxPlays /\ steals \in 0 .. plays
  /\ chunk \in 0 .. ChunkFrames
  /\ opened \in 0 .. MaxLoads /\ leases \subseteq 1 .. opened

GameType ==
  /\ gpc \in {"idle", "insert", "ticket", "undo", "drop"}
  /\ hold \in 0 .. MaxLoads /\ kind \in Kinds
  /\ handle \in [slot : Slots \cup {MaxClips}, gen : 0 .. GenMod - 1]
  /\ tickets \in Seq(TicketType)

TypeOK == MixerType /\ CounterType /\ GameType

Sources == {voices[v] : v \in Voices} \cup {music}

\* Whatever the worker mixes is the clip the voice was started with, and its
\* asset is still open: unloading closes the asset outside the mutex, and
\* slots and generations are used again.
MixesLeasedClip ==
  \A p \in Sources : HasClip(p) => /\ clips[p.slot].lease = p.lease
                                   /\ p.lease \in leases

\* Every open asset belongs to exactly one clip or is in the game thread's
\* hands between mutex and asset_close: none leaks, none is closed twice.
LeasesAccounted ==
  /\ leases = {clips[s].lease : s \in {r \in Slots : clips[r].used}}
                \cup ({hold} \ {NoLease})
  /\ \A s \in Slots : clips[s].used => clips[s].lease # hold
  /\ \A r, s \in Slots : clips[r].used /\ clips[s].used
                           /\ clips[r].lease = clips[s].lease => r = s

\* What the mixer's mutex and the game thread's order of calls are for.
Safety == TypeOK /\ MixesLeasedClip /\ LeasesAccounted

\* A Sound or Music value that still works denotes the clip it was loaded as,
\* and every loaded clip can still be reached by exactly one.
TicketsFaithful ==
  /\ \A t \in DOMAIN tickets :
       tickets[t].active => /\ Finds(tickets[t])
                            /\ clips[tickets[t].slot].lease = tickets[t].lease
  /\ \A s \in Slots :
       clips[s].used /\ gpc \notin {"ticket", "undo"}
         => \E t \in DOMAIN tickets : tickets[t].active /\ tickets[t].slot = s

\* play_sound cuts a sound off only when every voice is busy, it cuts off the
\* one started first, and voice_steals counts exactly these.
StealsOldest ==
  [][LET cut == {v \in Voices : voices[v].active /\ voices'[v].play # voices[v].play}
     IN /\ steals' = steals + Cardinality(cut)
        /\ cut # {} => /\ \A u \in Voices : voices[u].active
                       /\ \A v \in cut, u \in Voices :
                            voices[v].play <= voices[u].play]_vars

\* A sound that plays ends, or is cut off for another one.
SoundsEnd ==
  \A v \in Voices : \A n \in 1 .. MaxPlays :
    voices[v].active /\ voices[v].play = n
      ~> ~(voices[v].active /\ voices[v].play = n)
==============================================================================
