---------------------------- MODULE AudioMixerProofs ----------------------------
(***************************************************************************)
(* Proofs about AudioMixer: what is mixed is leased, every lease has one   *)
(* owner and every ticket its clip, for any number of slots, voices, loads *)
(* and plays, and however early the generations repeat.                    *)
(***************************************************************************)
EXTENDS AudioMixer, SequenceTheorems, FiniteSetTheorems, TLAPS

\* A voice that is active plays the clip it was started with.
Plays(p) == p.active => Finds(p) /\ clips[p.slot].lease = p.lease
VoicesLive == Plays(music) /\ \A v \in Voices : Plays(voices[v])

\* The leases, and where the game thread has the one it holds.
Held ==
  /\ hold # NoLease <=> gpc \in {"insert", "drop"}
  /\ hold # NoLease => hold \in leases
  /\ gpc \in {"ticket", "undo"} => Finds(handle)

Owned ==
  /\ \A s \in Slots : clips[s].used => clips[s].lease \in leases /\ clips[s].lease # hold
  /\ \A r, s \in Slots : clips[r].used /\ clips[s].used
                           /\ clips[r].lease = clips[s].lease => r = s
  /\ \A l \in leases : l = hold \/ \E s \in Slots : clips[s].used /\ clips[s].lease = l

\* A clip has one ticket that works, except while it is being loaded.
Tickets ==
  /\ \A t \in DOMAIN tickets :
       tickets[t].active => /\ Finds(tickets[t])
                            /\ clips[tickets[t].slot].lease = tickets[t].lease
                            /\ gpc \in {"ticket", "undo"} => tickets[t].slot # handle.slot
  /\ \A t, u \in DOMAIN tickets :
       tickets[t].active /\ tickets[u].active /\ tickets[t].slot = tickets[u].slot => t = u
  /\ \A s \in Slots :
       clips[s].used => \/ \E t \in DOMAIN tickets : tickets[t].active /\ tickets[t].slot = s
                        \/ gpc \in {"ticket", "undo"} /\ handle.slot = s

Inductive == TypeOK /\ VoicesLive /\ Held /\ Owned /\ Tickets

USE MixerAssumption
USE DEF Slots, Voices, Kinds, NoLease, table

\* A generation stays below the width and is never 0.
LEMMA GenerationBounded ==
  ASSUME NEW g \in 1 .. GenMod - 1 PROVE NextGeneration(g) \in 1 .. GenMod - 1
<1>1. CASE g + 1 = GenMod
  <2>1. GenMod % GenMod = 0
    OBVIOUS
  <2> QED
    BY <1>1, <2>1 DEF NextGeneration
<1>2. CASE g + 1 < GenMod
  BY <1>2 DEF NextGeneration
<1> QED
  BY <1>1, <1>2

LEMMA LeasesBounded == CounterType => leases \subseteq 1 .. MaxLoads
BY DEF CounterType

\* Before anything is loaded.
LEMMA InitInductive == Init => Inductive
<1> SUFFICES ASSUME Init PROVE Inductive
  OBVIOUS
<1> USE DEF Init
<1>1. MixerType
  <2>1. Silent \in VoiceType
    BY DEF Silent, VoiceType
  <2>2. [used |-> FALSE, gen |-> 1, lease |-> NoLease] \in ClipType
    BY DEF ClipType
  <2> QED
    BY <2>1, <2>2 DEF MixerType
<1>2. CounterType
  BY DEF CounterType
<1>3. GameType
  BY DEF GameType, NoClip
<1>4. VoicesLive
  BY DEF VoicesLive, Plays, Silent
<1>5. Held
  BY DEF Held
<1>6. Owned
  BY DEF Owned
<1>7. Tickets
  BY DEF Tickets
<1> QED
  BY <1>1, <1>2, <1>3, <1>4, <1>5, <1>6, <1>7 DEF Inductive, TypeOK

\* Step LoadOpen: the new lease is nobody's yet.
LEMMA LoadOpenInductive == ASSUME Inductive, NEW k \in Kinds, LoadOpen(k) PROVE Inductive'
<1> USE DEF Inductive, TypeOK, LoadOpen
<1>1. MixerType'
  BY DEF MixerType
<1>2. CounterType'
  BY DEF CounterType
<1>3. GameType'
  BY DEF GameType, CounterType
<1>4. VoicesLive'
  BY DEF VoicesLive, Plays, Finds
<1>5. Held'
  BY DEF Held, CounterType
<1>6. Owned'
  <2>1. \A l \in leases : l # opened + 1 /\ l # NoLease
    BY DEF CounterType
  <2>2. hold = NoLease /\ hold' = opened + 1 /\ leases' = leases \cup {opened + 1}
    BY DEF Held
  <2> QED
    BY <2>1, <2>2 DEF Owned
<1>7. Tickets'
  BY DEF Tickets, Finds
<1> QED
  BY <1>1, <1>2, <1>3, <1>4, <1>5, <1>6, <1>7

\* Step LoadInsert: a slot that nothing refers to takes the lease.
LEMMA LoadInsertInductive == ASSUME Inductive, LoadInsert PROVE Inductive'
<1> USE DEF Inductive, TypeOK, LoadInsert
<1>1. CASE UNCHANGED <<clips, handle, hold>> /\ gpc' = "drop"
  <2> USE <1>1
  <2>1. MixerType'
    BY DEF MixerType
  <2>2. CounterType'
    BY DEF CounterType
  <2>3. GameType'
    BY DEF GameType
  <2>4. VoicesLive'
    BY DEF VoicesLive, Plays, Finds
  <2>5. Held'
    BY DEF Held
  <2>6. Owned'
    BY DEF Owned
  <2>7. Tickets'
    BY DEF Tickets, Finds
  <2> QED
    BY <2>1, <2>2, <2>3, <2>4, <2>5, <2>6, <2>7
<1>2. ASSUME NEW s \in Slots, ~clips[s].used,
             clips' = [clips EXCEPT ![s] = [used |-> TRUE, gen |-> @.gen, lease |-> hold]],
             handle' = [slot |-> s, gen |-> clips[s].gen],
             hold' = NoLease, gpc' = "ticket"
      PROVE  Inductive'
  <2> USE <1>2
  <2>a. clips[s] \in ClipType /\ clips \in [Slots -> ClipType]
    BY DEF MixerType
  <2>b. hold \in 1 .. MaxLoads
    BY DEF GameType, Held
  <2>c. /\ \A r \in Slots \ {s} : clips'[r] = clips[r]
        /\ clips'[s].used /\ clips'[s].gen = clips[s].gen /\ clips'[s].lease = hold
    BY <2>a
  <2>d. clips' \in [Slots -> ClipType]
    BY <2>a, <2>b DEF ClipType
  <2>1. MixerType'
    BY <2>d DEF MixerType
  <2>2. CounterType'
    BY DEF CounterType
  <2>3. GameType'
    BY <2>a DEF GameType, ClipType
  <2>4. VoicesLive'
    BY <2>c DEF VoicesLive, Plays, Finds
  <2>5. Held'
    BY <2>c DEF Held, Finds
  <2>6. Owned'
    <3>1. \A r \in Slots : clips'[r].used => clips'[r].lease \in leases' /\ clips'[r].lease # hold'
      BY <2>b, <2>c DEF Owned, Held, CounterType
    <3>2. \A r, q \in Slots : clips'[r].used /\ clips'[q].used
                               /\ clips'[r].lease = clips'[q].lease => r = q
      BY <2>c DEF Owned
    <3>3. \A l \in leases' : l = hold' \/ \E r \in Slots : clips'[r].used /\ clips'[r].lease = l
      BY <2>c DEF Owned
    <3> QED
      BY <3>1, <3>2, <3>3 DEF Owned
  <2>7. Tickets'
    BY <2>c DEF Tickets, Finds, Held
  <2> QED
    BY <2>1, <2>2, <2>3, <2>4, <2>5, <2>6, <2>7
<1> QED
  BY <1>1, <1>2

\* Step LoadTicket: the clip just loaded gets its only ticket.
LEMMA LoadTicketInductive == ASSUME Inductive, LoadTicket PROVE Inductive'
<1> USE DEF Inductive, TypeOK, LoadTicket
<1>1. MixerType' /\ CounterType'
  BY DEF MixerType, CounterType
<1>2. VoicesLive'
  BY DEF VoicesLive, Plays, Finds
<1>3. Held'
  BY DEF Held, Finds
<1>4. Owned'
  BY DEF Owned
<1>5. CASE gpc' = "undo" /\ UNCHANGED <<tickets, handle>>
  BY <1>1, <1>2, <1>3, <1>4, <1>5 DEF GameType, Tickets, Finds
<1>6. ASSUME tickets' = Append(tickets,
                  [slot |-> handle.slot, gen |-> handle.gen, kind |-> kind, active |-> TRUE,
                   lease |-> clips[handle.slot].lease]),
             handle' = NoClip, gpc' = "idle"
      PROVE  GameType' /\ Tickets'
  <2> USE <1>6
  <2> DEFINE new == [slot |-> handle.slot, gen |-> handle.gen, kind |-> kind, active |-> TRUE,
                     lease |-> clips[handle.slot].lease]
  <2>1. Finds(handle)
    BY DEF Held
  <2>2. new \in TicketType
    <3>1. handle.slot \in Slots /\ clips[handle.slot] \in ClipType /\ clips[handle.slot].used
      BY <2>1 DEF Finds, MixerType
    <3>2. handle.gen \in 1 .. GenMod - 1
      BY <2>1, <3>1 DEF Finds, ClipType
    <3>3. clips[handle.slot].lease \in 1 .. MaxLoads
      <4>1. clips[handle.slot].lease \in leases
        BY <3>1 DEF Owned
      <4> QED
        BY <4>1, LeasesBounded
    <3> QED
      BY <3>1, <3>2, <3>3 DEF TicketType, GameType
  <2>3. tickets \in Seq(TicketType)
    BY DEF GameType
  <2>4. /\ DOMAIN tickets' = DOMAIN tickets \cup {Len(tickets) + 1}
        /\ \A t \in DOMAIN tickets : tickets'[t] = tickets[t]
        /\ tickets'[Len(tickets) + 1] = new
        /\ Len(tickets) + 1 \notin DOMAIN tickets
        /\ tickets' \in Seq(TicketType)
    BY <2>2, <2>3
  <2>5. GameType'
    BY <2>4 DEF GameType, NoClip
  <2>6. /\ new.active /\ new.slot = handle.slot /\ new.gen = handle.gen
        /\ new.lease = clips[handle.slot].lease
    OBVIOUS
  <2> HIDE DEF new
  <2>7. \A t \in DOMAIN tickets' :
          tickets'[t].active => /\ Finds(tickets'[t])
                                /\ clips[tickets'[t].slot].lease = tickets'[t].lease
    BY <2>1, <2>4, <2>6 DEF Tickets, Finds
  <2>8. \A t, u \in DOMAIN tickets' :
          tickets'[t].active /\ tickets'[u].active /\ tickets'[t].slot = tickets'[u].slot => t = u
    BY <2>4, <2>6 DEF Tickets
  <2>9. \A s \in Slots : clips[s].used
          => \E t \in DOMAIN tickets' : tickets'[t].active /\ tickets'[t].slot = s
    BY <2>4, <2>6 DEF Tickets
  <2> QED
    BY <2>5, <2>7, <2>8, <2>9 DEF Tickets, Finds
<1> QED
  BY <1>1, <1>2, <1>3, <1>4, <1>5, <1>6

\* Step CloseAsset: the lease that is closed is nobody else's.
LEMMA CloseAssetInductive == ASSUME Inductive, CloseAsset PROVE Inductive'
<1> USE DEF Inductive, TypeOK, CloseAsset
<1>1. MixerType' /\ CounterType'
  BY DEF MixerType, CounterType
<1>2. GameType'
  BY DEF GameType
<1>3. VoicesLive'
  BY DEF VoicesLive, Plays, Finds
<1>4. Held'
  BY DEF Held
<1>5. Owned'
  <2>1. NoLease \notin leases
    BY DEF CounterType
  <2> QED
    BY <2>1 DEF Owned
<1>6. Tickets'
  BY DEF Tickets, Finds
<1> QED
  BY <1>1, <1>2, <1>3, <1>4, <1>5, <1>6

------------------------------------------------------------------------------
(* Unloading.                                                              *)

\* Stopping a voice keeps its type and leaves what it plays alone.
LEMMA Silenced ==
  ASSUME NEW h, NEW p \in VoiceType
  PROVE  /\ Silence(p, h) \in VoiceType
         /\ Silence(p, h).active => Silence(p, h) = p /\ ~(p.slot = h.slot /\ p.gen = h.gen)
BY DEF Silence, VoiceType

\* No voice plays the slot that is emptied, and its lease goes to the game.
LEMMA UnloadedKeeps ==
  ASSUME Inductive, NEW h, Finds(h), hold = NoLease, Unloaded(h),
         UNCHANGED <<opened, leases, mixing>>
  PROVE  /\ MixerType' /\ VoicesLive' /\ Owned'
         /\ gpc' = "drop" /\ hold' \in leases
         /\ ~clips'[h.slot].used
         /\ \A s \in Slots \ {h.slot} : clips'[s] = clips[s]
<1> USE DEF Inductive, TypeOK, Unloaded
<1>1. h.slot \in Slots /\ clips \in [Slots -> ClipType] /\ clips[h.slot].used
  BY DEF Finds, MixerType
<1>2. [used |-> FALSE, gen |-> NextGeneration(clips[h.slot].gen), lease |-> NoLease] \in ClipType
  <2>1. clips[h.slot].gen \in 1 .. GenMod - 1
    BY <1>1 DEF ClipType
  <2>2. NextGeneration(clips[h.slot].gen) \in 1 .. GenMod - 1
    BY <2>1, GenerationBounded
  <2> QED
    BY <2>2 DEF ClipType
<1>a. /\ voices' = [v \in Voices |-> Silence(voices[v], h)] /\ music' = Silence(music, h)
      /\ hold' = clips[h.slot].lease /\ gpc' = "drop"
      /\ clips' = [clips EXCEPT ![h.slot] =
                     [used |-> FALSE, gen |-> NextGeneration(clips[h.slot].gen), lease |-> NoLease]]
  OBVIOUS
<1> HIDE DEF Unloaded
<1>3. /\ \A s \in Slots \ {h.slot} : clips'[s] = clips[s]
      /\ ~clips'[h.slot].used
  BY <1>1, <1>a
<1>4. MixerType'
  <2>1. clips' \in [Slots -> ClipType]
    BY <1>1, <1>2, <1>a
  <2> QED
    BY <1>a, <2>1, Silenced DEF MixerType
<1>5. VoicesLive'
  <2>1. \A p \in VoiceType : Plays(p) /\ Silence(p, h).active
          => p.slot \in Slots \ {h.slot} /\ clips[p.slot].used /\ clips[p.slot].gen = p.gen
             /\ clips[p.slot].lease = p.lease /\ Silence(p, h) = p
    BY Silenced DEF Plays, Finds
  <2>2. ASSUME NEW p \in VoiceType, Plays(p), Silence(p, h).active
        PROVE  /\ Silence(p, h).slot \in Slots
               /\ clips'[Silence(p, h).slot].used
               /\ clips'[Silence(p, h).slot].gen = Silence(p, h).gen
               /\ clips'[Silence(p, h).slot].lease = Silence(p, h).lease
    BY <1>3, <2>1, <2>2
  <2> QED
    BY <1>a, <2>2 DEF VoicesLive, Plays, Finds, MixerType
<1>6. hold' \in leases
  BY <1>1, <1>a DEF Owned
<1>7. Owned'
  <2>1. \A s \in Slots : clips'[s].used
          => clips[s].used /\ s # h.slot /\ clips'[s].lease = clips[s].lease
    BY <1>3
  <2>2. \A l \in leases : l = hold' \/ \E s \in Slots \ {h.slot} : clips[s].used /\ clips[s].lease = l
    BY <1>a, <1>1, NoLease \notin leases DEF Owned, CounterType
  <2> QED
    BY <1>1, <1>a, <1>3, <2>1, <2>2 DEF Owned
<1> QED
  BY <1>3, <1>4, <1>5, <1>6, <1>7, <1>a

\* Step LoadUndo: the clip that got no ticket is unloaded.
LEMMA LoadUndoInductive == ASSUME Inductive, LoadUndo PROVE Inductive'
<1> USE DEF Inductive, TypeOK, LoadUndo
<1>1. Finds(handle) /\ hold = NoLease
  BY DEF Held
<1>2. /\ MixerType' /\ VoicesLive' /\ Owned'
      /\ gpc' = "drop" /\ hold' \in leases
      /\ ~clips'[handle.slot].used
      /\ \A s \in Slots \ {handle.slot} : clips'[s] = clips[s]
  BY <1>1, UnloadedKeeps
<1>3. CounterType'
  BY DEF CounterType
<1>4. GameType'
  <2>1. hold' \in 0..MaxLoads
    BY <1>2 DEF CounterType
  <2>2. handle' \in [slot : Slots \cup {MaxClips}, gen : 0..GenMod - 1]
    BY MixerAssumption DEF NoClip
  <2> QED
    BY <1>2, <2>1, <2>2 DEF GameType
<1>5. Held'
  BY <1>2 DEF Held, CounterType
<1>6. Tickets'
  BY <1>2 DEF Tickets, Finds
<1> QED
  BY <1>2, <1>3, <1>4, <1>5, <1>6

\* Step Unload: the ticket is retired with its clip.
LEMMA UnloadInductive == ASSUME Inductive, NEW t \in DOMAIN tickets, Unload(t) PROVE Inductive'
<1> USE DEF Inductive, TypeOK, Unload, RetireTicket
<1>1. tickets[t].active /\ Finds(tickets[t]) /\ hold = NoLease
  BY DEF Held, Tickets, Live
<1>2. /\ MixerType' /\ VoicesLive' /\ Owned'
      /\ gpc' = "drop" /\ hold' \in leases
      /\ ~clips'[tickets[t].slot].used
      /\ \A s \in Slots \ {tickets[t].slot} : clips'[s] = clips[s]
  BY <1>1, UnloadedKeeps
<1>3. CounterType'
  BY DEF CounterType
<1>4. /\ tickets' \in Seq(TicketType) /\ DOMAIN tickets' = DOMAIN tickets
      /\ ~tickets'[t].active
      /\ \A u \in DOMAIN tickets \ {t} : tickets'[u] = tickets[u]
  <2>1. tickets \in Seq(TicketType) /\ tickets[t] \in TicketType
    BY DEF GameType
  <2>2. [tickets[t] EXCEPT !.active = FALSE] \in TicketType
    BY <2>1 DEF TicketType
  <2>3. tickets' = [tickets EXCEPT ![t] = [tickets[t] EXCEPT !.active = FALSE]]
    OBVIOUS
  <2>4. tickets' \in Seq(TicketType) /\ Len(tickets') = Len(tickets)
    BY <2>1, <2>2, <2>3, ExceptSeq
  <2>5. tickets'[t] = [tickets[t] EXCEPT !.active = FALSE]
    BY <2>1, <2>3
  <2>6. ~tickets'[t].active
    BY <2>1, <2>5 DEF TicketType
  <2> QED
    BY <2>1, <2>3, <2>4, <2>6
<1>5. GameType'
  <2>1. hold' \in 0 .. MaxLoads
    BY <1>2 DEF CounterType
  <2> QED
    BY <1>2, <1>4, <2>1 DEF GameType
<1>6. Held'
  BY <1>2 DEF Held, CounterType
<1>7. Tickets'
  <2>1. \A u \in DOMAIN tickets \ {t} : tickets[u].active => tickets[u].slot # tickets[t].slot
    BY <1>1 DEF Tickets
  <2>2. \A u \in DOMAIN tickets : tickets'[u].active
          => u # t /\ tickets'[u] = tickets[u] /\ tickets[u].active /\ clips'[tickets[u].slot] = clips[tickets[u].slot]
    BY <1>2, <1>4, <2>1 DEF Tickets, Finds
  <2>3. \A s \in Slots : clips'[s].used
          => s # tickets[t].slot /\ clips[s].used
    BY <1>2
  <2>4. \A s \in Slots : clips'[s].used => \E u \in DOMAIN tickets' : tickets'[u].active /\ tickets'[u].slot = s
    BY <1>4, <2>3 DEF Tickets
  <2>5. \A u, w \in DOMAIN tickets' :
          tickets'[u].active /\ tickets'[w].active /\ tickets'[u].slot = tickets'[w].slot => u = w
    BY <1>4, <2>2 DEF Tickets
  <2>6. \A u \in DOMAIN tickets' : tickets'[u].active
          => /\ tickets'[u].slot \in Slots
             /\ clips'[tickets'[u].slot].used /\ clips'[tickets'[u].slot].gen = tickets'[u].gen
             /\ clips'[tickets'[u].slot].lease = tickets'[u].lease
    <3>1. ASSUME NEW u \in DOMAIN tickets, tickets[u].active
          PROVE  /\ tickets[u].slot \in Slots
                 /\ clips[tickets[u].slot].used /\ clips[tickets[u].slot].gen = tickets[u].gen
                 /\ clips[tickets[u].slot].lease = tickets[u].lease
      BY <3>1 DEF Tickets, Finds
    <3>2. SUFFICES ASSUME NEW u \in DOMAIN tickets, tickets'[u].active
                   PROVE  /\ tickets'[u].slot \in Slots
                          /\ clips'[tickets'[u].slot].used /\ clips'[tickets'[u].slot].gen = tickets'[u].gen
                          /\ clips'[tickets'[u].slot].lease = tickets'[u].lease
      BY <1>4
    <3>3. tickets'[u] = tickets[u] /\ tickets[u].active /\ clips'[tickets[u].slot] = clips[tickets[u].slot]
      BY <2>2, <3>2
    <3> QED
      BY <3>1, <3>3
  <2> QED
    BY <1>2, <2>4, <2>5, <2>6 DEF Tickets, Finds
<1> QED
  BY <1>2, <1>3, <1>5, <1>6, <1>7

------------------------------------------------------------------------------
(* Playing and mixing, which leave clips, leases and tickets alone.        *)

LEMMA TableUntouched ==
  ASSUME Inductive, UNCHANGED table
  PROVE  GameType' /\ Held' /\ Owned' /\ Tickets' /\ \A p : Finds(p) => p.slot \in Slots
<1> USE DEF Inductive, TypeOK
<1>1. GameType'
  BY DEF GameType
<1>2. Held'
  BY DEF Held, Finds
<1>3. Owned'
  BY DEF Owned
<1>4. Tickets'
  BY DEF Tickets, Finds
<1> QED
  BY <1>1, <1>2, <1>3, <1>4 DEF Finds

\* A voice started on a clip that is there plays that clip.
LEMMA StartedPlays ==
  ASSUME MixerType, NEW h, Finds(h), h.gen \in 0 .. GenMod - 1
  PROVE  Started(h) \in VoiceType /\ Plays(Started(h))
<1>1. h.slot \in Slots /\ clips[h.slot] \in ClipType
  BY DEF Finds, MixerType
<1>2. clips[h.slot].lease \in 0 .. MaxLoads
  BY <1>1 DEF ClipType
<1>3. Silent \in VoiceType
  BY DEF Silent, VoiceType
<1>4. /\ Started(h) \in VoiceType
      /\ Started(h).slot = h.slot /\ Started(h).gen = h.gen
      /\ Started(h).lease = clips[h.slot].lease
  BY <1>1, <1>2, <1>3 DEF Started, VoiceType
<1> QED
  BY <1>4 DEF Plays, Finds

\* Step PlaySound: one voice is started.
LEMMA PlaySoundInductive ==
  ASSUME Inductive, NEW t \in DOMAIN tickets, PlaySound(t) PROVE Inductive'
<1> USE DEF Inductive, TypeOK, PlaySound
<1>1. tickets[t].gen \in 0 .. GenMod - 1
  <2>1. tickets[t] \in TicketType
    BY DEF GameType
  <2> QED
    BY <2>1 DEF TicketType
<1>2. Started(tickets[t]) \in VoiceType /\ Plays(Started(tickets[t]))
  BY <1>1, StartedPlays
<1>3. serial' \in 0 .. SerialMod - 1
  BY DEF CounterType
<1>4. plays' \in 0 .. MaxPlays
  BY DEF CounterType
<1>5. PICK v \in Voices :
        /\ steals' = IF voices[v].active /\ voices[v].serial # 0 THEN steals + 1 ELSE steals
        /\ voices' = [voices EXCEPT ![v] = [Started(tickets[t]) EXCEPT !.serial = serial', !.play = plays']]
  OBVIOUS
<1> DEFINE new == [Started(tickets[t]) EXCEPT !.serial = serial', !.play = plays']
<1>6. /\ new \in VoiceType /\ new.slot = Started(tickets[t]).slot
      /\ new.gen = Started(tickets[t]).gen /\ new.lease = Started(tickets[t]).lease
      /\ new.active = Started(tickets[t]).active
  BY <1>2, <1>3, <1>4 DEF VoiceType
<1> HIDE DEF new
<1>7. MixerType'
  BY <1>5, <1>6 DEF MixerType, new
<1>8. CounterType'
  BY <1>3, <1>4, <1>5 DEF CounterType
<1>9. VoicesLive'
  BY <1>2, <1>5, <1>6 DEF VoicesLive, Plays, Finds, MixerType, new
<1> QED
  BY <1>7, <1>8, <1>9, TableUntouched

\* Step StopSound: voices are only stopped.
LEMMA StopSoundInductive ==
  ASSUME Inductive, NEW t \in DOMAIN tickets, StopSound(t) PROVE Inductive'
<1> USE DEF Inductive, TypeOK, StopSound
<1>1. MixerType'
  BY Silenced DEF MixerType
<1>2. CounterType'
  BY DEF CounterType
<1>3. VoicesLive'
  BY Silenced DEF MixerType, VoicesLive, Plays, Finds
<1> QED
  BY <1>1, <1>2, <1>3, TableUntouched

\* Step PlayMusic: the music is started anew.
LEMMA PlayMusicInductive ==
  ASSUME Inductive, NEW t \in DOMAIN tickets, PlayMusic(t) PROVE Inductive'
<1> USE DEF Inductive, TypeOK, PlayMusic
<1>1. tickets[t].gen \in 0 .. GenMod - 1
  <2>1. tickets[t] \in TicketType
    BY DEF GameType
  <2> QED
    BY <2>1 DEF TicketType
<1>2. Started(tickets[t]) \in VoiceType /\ Plays(Started(tickets[t]))
  BY <1>1, StartedPlays
<1>3. MixerType'
  BY <1>2 DEF MixerType
<1>4. CounterType'
  BY DEF CounterType
<1>5. VoicesLive'
  BY <1>2 DEF VoicesLive, Plays, Finds
<1> QED
  BY <1>3, <1>4, <1>5, TableUntouched

\* Step StopMusic: the music is only stopped.
LEMMA StopMusicInductive ==
  ASSUME Inductive, NEW t \in DOMAIN tickets, StopMusic(t) PROVE Inductive'
<1> USE DEF Inductive, TypeOK, StopMusic
<1>1. MixerType'
  BY Silenced DEF MixerType
<1>2. CounterType'
  BY DEF CounterType
<1>3. VoicesLive'
  BY Silenced DEF MixerType, VoicesLive, Plays, Finds
<1> QED
  BY <1>1, <1>2, <1>3, TableUntouched

\* A frame moves a cursor or ends a voice, and never changes its clip.
LEMMA FrameKeeps ==
  ASSUME NEW p \in VoiceType, NEW q \in {PlayFrame(p), LoopFrame(p)}
  PROVE  /\ q \in VoiceType
         /\ q.active => p.active
         /\ q.slot = p.slot /\ q.gen = p.gen /\ q.lease = p.lease
<1>1. CASE q = PlayFrame(p)
  <2>1. CASE ~p.active
    BY <1>1, <2>1 DEF PlayFrame
  <2>2. CASE p.active /\ HasClip(p) /\ p.cursor < ClipFrames
    <3> DEFINE more == p.active /\ p.cursor + 1 < ClipFrames
    <3>1. q = [p EXCEPT !.cursor = @ + 1, !.active = more]
      BY <1>1, <2>2 DEF PlayFrame
    <3>2. more \in BOOLEAN /\ p.cursor + 1 \in 0 .. ClipFrames
      BY <2>2 DEF VoiceType
    <3> HIDE DEF more
    <3> QED
      BY <2>2, <3>1, <3>2 DEF VoiceType
  <2>3. CASE p.active /\ ~(HasClip(p) /\ p.cursor < ClipFrames)
    BY <1>1, <2>3 DEF PlayFrame, VoiceType
  <2> QED
    BY <2>1, <2>2, <2>3
<1>2. CASE q = LoopFrame(p)
  <2>1. CASE ~p.active
    BY <1>2, <2>1 DEF LoopFrame
  <2>2. CASE p.active /\ HasClip(p)
    BY <1>2, <2>2 DEF LoopFrame, VoiceType
  <2>3. CASE p.active /\ ~HasClip(p)
    BY <1>2, <2>3 DEF LoopFrame, VoiceType
  <2> QED
    BY <2>1, <2>2, <2>3
<1> QED
  BY <1>1, <1>2

\* Step MixFrame: every voice plays a frame.
LEMMA MixFrameInductive == ASSUME Inductive, MixFrame PROVE Inductive'
<1> USE DEF Inductive, TypeOK, MixFrame
<1>1. MixerType'
  BY FrameKeeps DEF MixerType
<1>2. CounterType'
  BY DEF CounterType
<1>3. VoicesLive'
  BY FrameKeeps DEF MixerType, VoicesLive, Plays, Finds
<1> QED
  BY <1>1, <1>2, <1>3, TableUntouched

\* Steps MixBegin, MixEnd: the worker takes and returns the mutex.
LEMMA MixBoundsInductive == ASSUME Inductive, MixBegin \/ MixEnd PROVE Inductive'
<1> USE DEF Inductive, TypeOK, MixBegin, MixEnd
<1>1. MixerType'
  BY DEF MixerType
<1>2. CounterType'
  <2>1. chunk' \in 0 .. ChunkFrames
    BY DEF CounterType
  <2> QED
    BY <2>1 DEF CounterType
<1>3. VoicesLive'
  BY DEF VoicesLive, Plays, Finds
<1> QED
  BY <1>1, <1>2, <1>3, TableUntouched

------------------------------------------------------------------------------
(* What follows.                                                           *)

\* Every step keeps the invariant.
LEMMA StepInductive == Inductive /\ [Next]_vars => Inductive'
<1> SUFFICES ASSUME Inductive, [Next]_vars PROVE Inductive'
  OBVIOUS
<1>1. CASE Load
  BY <1>1, LoadOpenInductive, LoadInsertInductive, LoadTicketInductive, LoadUndoInductive DEF Load
<1>2. CASE CloseAsset
  BY <1>2, CloseAssetInductive
<1>3. CASE UseTicket
  BY <1>3, UnloadInductive, PlaySoundInductive, StopSoundInductive, PlayMusicInductive,
     StopMusicInductive DEF UseTicket
<1>4. CASE Mix
  BY <1>4, MixFrameInductive, MixBoundsInductive DEF Mix
<1>5. CASE UNCHANGED vars
  <2>1. MixerType' /\ CounterType'
    BY <1>5 DEF vars, Inductive, TypeOK, MixerType, CounterType
  <2>2. VoicesLive'
    BY <1>5 DEF vars, Inductive, VoicesLive, Plays, Finds
  <2> QED
    BY <1>5, <2>1, <2>2, TableUntouched DEF vars, Inductive, TypeOK
<1> QED
  BY <1>1, <1>2, <1>3, <1>4, <1>5 DEF Next

\* The inductive invariant holds, whatever fails to load and in whatever order
\* clips are played, stopped and unloaded while the worker mixes.
THEOREM InductiveHolds == Spec => []Inductive
<1>1. Inductive /\ [Next]_vars => Inductive'
  BY StepInductive
<1> QED
  BY <1>1, InitInductive, PTL DEF Spec

\* Every variable keeps its type.
THEOREM TypeCorrect == Spec => []TypeOK
<1>1. Inductive => TypeOK
  BY DEF Inductive
<1> QED
  BY <1>1, InductiveHolds, PTL

\* The worker mixes only the clip a voice was started with, and only while its
\* asset is open, even when generations repeat.
THEOREM MixingIsSafe == Spec => []MixesLeasedClip
<1>1. Inductive => MixesLeasedClip
  BY DEF Inductive, VoicesLive, Plays, Owned, MixesLeasedClip, Sources, HasClip, Finds
<1> QED
  BY <1>1, InductiveHolds, PTL

\* No asset leaks and none is closed twice.
THEOREM LeasesBalance == Spec => []LeasesAccounted
<1>1. Inductive => LeasesAccounted
  <2> SUFFICES ASSUME Inductive PROVE LeasesAccounted
    OBVIOUS
  <2> DEFINE owned == {clips[s].lease : s \in {r \in Slots : clips[r].used}}
  <2>1. leases \subseteq owned \cup ({hold} \ {NoLease})
    BY DEF Inductive, TypeOK, CounterType, Owned
  <2>2. owned \cup ({hold} \ {NoLease}) \subseteq leases
    BY DEF Inductive, Held, Owned
  <2> QED
    BY <2>1, <2>2 DEF Inductive, Owned, LeasesAccounted
<1> QED
  BY <1>1, InductiveHolds, PTL

\* Types, mixed clips and leases are right at once.
THEOREM SafetyHolds == Spec => []Safety
BY TypeCorrect, MixingIsSafe, LeasesBalance, PTL DEF Safety

\* A Sound or Music that works denotes the clip it was loaded as, and every
\* clip can be reached by one.
THEOREM TicketsDenote == Spec => []TicketsFaithful
<1>1. Inductive => TicketsFaithful
  BY DEF Inductive, Tickets, TicketsFaithful
<1> QED
  BY <1>1, InductiveHolds, PTL

------------------------------------------------------------------------------
(* Stealing, while fewer sounds have been started than the serial counts.  *)

\* The serial of a voice is the number of the play that started it.
Serials ==
  /\ serial = plays
  /\ \A v \in Voices : /\ voices[v].play <= plays
                       /\ voices[v].active => voices[v].serial = voices[v].play
                                              /\ voices[v].serial > 0

\* Whatever a step other than play_sound does to a voice, it stays the voice of
\* its play.
SamePlays ==
  /\ UNCHANGED <<serial, plays, steals>>
  /\ \A v \in Voices : /\ voices'[v].play = voices[v].play
                       /\ voices'[v].serial = voices[v].serial
                       /\ voices'[v].active => voices[v].active

LEMMA OthersKeepPlays ==
  ASSUME Inductive, [Next]_vars, ~\E t \in DOMAIN tickets : PlaySound(t)
  PROVE  SamePlays
<1>3. voices \in [Voices -> VoiceType]
  BY DEF Inductive, TypeOK, MixerType
<1>4. CASE UNCHANGED <<voices, serial, plays, steals>>
  BY <1>4 DEF SamePlays
<1>5. ASSUME NEW h, voices' = [v \in Voices |-> Silence(voices[v], h)],
             UNCHANGED <<serial, plays, steals>>
      PROVE  SamePlays
  <2>1. ASSUME NEW v \in Voices
        PROVE  /\ voices'[v].play = voices[v].play /\ voices'[v].serial = voices[v].serial
               /\ voices'[v].active => voices[v].active
    <3>1. voices'[v] = Silence(voices[v], h) /\ voices[v] \in VoiceType
      BY <1>3, <1>5
    <3>2. CASE Silence(voices[v], h) = voices[v]
      BY <3>1, <3>2
    <3>3. CASE Silence(voices[v], h) = [voices[v] EXCEPT !.active = FALSE]
      BY <3>1, <3>3 DEF VoiceType
    <3> QED
      BY <3>2, <3>3 DEF Silence
  <2> QED
    BY <1>5, <2>1 DEF SamePlays
<1>6. CASE MixFrame
  <2>1. ASSUME NEW v \in Voices
        PROVE  /\ voices'[v].play = voices[v].play /\ voices'[v].serial = voices[v].serial
               /\ voices'[v].active => voices[v].active
    <3>1. voices'[v] = PlayFrame(voices[v]) /\ voices[v] \in VoiceType
      BY <1>3, <1>6 DEF MixFrame
    <3>2. CASE ~voices[v].active
      BY <3>1, <3>2 DEF PlayFrame
    <3>3. CASE voices[v].active
      BY <3>1, <3>3 DEF PlayFrame, VoiceType
    <3> QED
      BY <3>2, <3>3
  <2> QED
    BY <1>6, <2>1 DEF MixFrame, SamePlays
<1>7. CASE Load \/ CloseAsset
  BY <1>4, <1>5, <1>7 DEF Load, CloseAsset, LoadOpen, LoadInsert, LoadTicket, LoadUndo, Unloaded
<1>8. CASE UseTicket
  BY <1>4, <1>5, <1>8 DEF UseTicket, Unload, Unloaded, StopSound, PlayMusic, StopMusic
<1>9. CASE MixBegin \/ MixEnd \/ UNCHANGED vars
  BY <1>4, <1>9 DEF MixBegin, MixEnd, vars
<1> QED
  BY <1>6, <1>7, <1>8, <1>9 DEF Next, Mix

\* What play_sound does, without a wrap of the serial.
LEMMA PlaySoundSteals ==
  ASSUME SerialMod > MaxPlays, Inductive, Serials, NEW t \in DOMAIN tickets, PlaySound(t)
  PROVE  \E v \in Voices :
           /\ Selected(v)
           /\ plays' = plays + 1 /\ serial' = plays'
           /\ voices'[v].play = plays' /\ voices'[v].serial = plays'
           /\ \A u \in Voices \ {v} : voices'[u] = voices[u]
           /\ steals' = IF voices[v].active THEN steals + 1 ELSE steals
<1> USE DEF Inductive, TypeOK, PlaySound
<1>1. serial' = plays + 1 /\ plays' = plays + 1
  BY DEF Serials, CounterType
<1>2. PICK v \in Voices :
        /\ Selected(v)
        /\ steals' = IF voices[v].active /\ voices[v].serial # 0 THEN steals + 1 ELSE steals
        /\ voices' = [voices EXCEPT ![v] = [Started(tickets[t]) EXCEPT !.serial = serial', !.play = plays']]
  OBVIOUS
<1>3. Started(tickets[t]) \in VoiceType
  <2>1. tickets[t] \in TicketType
    BY DEF GameType
  <2> QED
    BY <2>1, StartedPlays DEF TicketType
<1>4. /\ voices'[v].play = plays' /\ voices'[v].serial = plays'
      /\ \A u \in Voices \ {v} : voices'[u] = voices[u]
  BY <1>1, <1>2, <1>3 DEF MixerType, VoiceType
<1> QED
  BY <1>1, <1>2, <1>4 DEF Serials

LEMMA SerialsInductive ==
  ASSUME SerialMod > MaxPlays, Inductive, Serials, [Next]_vars PROVE Serials'
<1>1. CASE SamePlays
  BY <1>1 DEF SamePlays, Serials
<1>2. ASSUME NEW t \in DOMAIN tickets, PlaySound(t) PROVE Serials'
  <2>1. plays \in Nat /\ \A v \in Voices : voices[v].play \in Nat
    BY DEF Inductive, TypeOK, CounterType, MixerType, VoiceType
  <2> QED
    BY <1>2, <2>1, PlaySoundSteals DEF Serials
<1> QED
  BY <1>1, <1>2, OthersKeepPlays

\* While fewer sounds have been started than the serial counts, a sound is cut
\* off only when every voice is busy, it is the one started first, and
\* voice_steals counts these cuts.
THEOREM OldestIsCut == SerialMod > MaxPlays => (Spec => StealsOldest)
<1> SUFFICES ASSUME SerialMod > MaxPlays PROVE Spec => StealsOldest
  OBVIOUS
<1> DEFINE cut == {v \in Voices : voices[v].active /\ voices'[v].play # voices[v].play}
           Oldest == /\ steals' = steals + Cardinality(cut)
                     /\ cut # {} => /\ \A u \in Voices : voices[u].active
                                    /\ \A v \in cut, u \in Voices : voices[v].play <= voices[u].play
<1>1. Init => Serials
  BY DEF Init, Serials, Silent
<1>2. Inductive /\ Serials /\ [Next]_vars => Serials'
  BY SerialsInductive
<1>3. ASSUME Inductive, Serials, [Next]_vars PROVE [Oldest]_vars
  <2>a. /\ plays \in Nat /\ steals \in Nat
        /\ \A u \in Voices : voices[u] \in VoiceType
    BY <1>3 DEF Inductive, TypeOK, CounterType, MixerType
  <2>b. \A u \in Voices : voices[u].play \in Nat /\ voices[u].serial \in 0 .. SerialMod - 1
    BY <2>a DEF VoiceType
  <2>1. CASE SamePlays
    <3>1. cut = {}
      BY <2>1 DEF SamePlays
    <3>2. Cardinality(cut) = 0
      BY <3>1, FS_EmptySet
    <3> QED
      BY <2>1, <2>a, <3>1, <3>2 DEF SamePlays
  <2>2. ASSUME NEW t \in DOMAIN tickets, PlaySound(t) PROVE Oldest
    <3>1. PICK v \in Voices :
            /\ Selected(v)
            /\ plays' = plays + 1
            /\ voices'[v].play = plays'
            /\ \A u \in Voices \ {v} : voices'[u] = voices[u]
            /\ steals' = IF voices[v].active THEN steals + 1 ELSE steals
      BY <1>3, <2>2, PlaySoundSteals
    <3>2. voices[v].play # plays'
      BY <1>3, <2>a, <2>b, <3>1 DEF Serials
    <3>3. CASE ~voices[v].active
      <4>1. cut = {}
        BY <3>1, <3>3
      <4>2. Cardinality(cut) = 0
        BY <4>1, FS_EmptySet
      <4> QED
        BY <2>a, <3>1, <3>3, <4>1, <4>2
    <3>4. CASE voices[v].active
      <4>1. cut = {v}
        BY <3>1, <3>2, <3>4
      <4>2. Cardinality(cut) = 1
        BY <4>1, FS_Singleton
      <4>3. \A u \in Voices : voices[u].active /\ voices[v].serial <= voices[u].serial
        BY <2>b, <3>1, <3>4 DEF Selected
      <4>4. \A u \in Voices : voices[v].play <= voices[u].play
        BY <1>3, <4>3 DEF Serials
      <4> QED
        BY <3>1, <3>4, <4>1, <4>2, <4>3, <4>4
    <3> QED
      BY <3>3, <3>4
  <2> HIDE DEF Oldest
  <2> QED
    BY <1>3, <2>1, <2>2, OthersKeepPlays
<1> QED
  BY <1>1, <1>2, <1>3, InductiveHolds, PTL DEF Spec, StealsOldest
================================================================================
