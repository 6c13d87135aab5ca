-------------------------- MODULE InputPipelineProofs --------------------------
(***************************************************************************)
(* Proofs about InputPipeline: nothing is forgotten between the table of   *)
(* the touch worker and that of the action mapper, for any number of       *)
(* fingers, places and touch points and any length of the queue.           *)
(***************************************************************************)
EXTENDS InputPipeline, SequenceTheorems, FiniteSetTheorems, WellFoundedInduction, TLAPS

Event == [type : {"touch"}, track : Track \cup {0}, cell : Cell, pressed : BOOLEAN]
           \cup [type : {"axis"}, tilt : Tilts]
Table == [Slots -> Tracked \cup {None}]

About(e, t) == e.type = "touch" /\ e.track = t

\* A finger has one contact in a table.
Apart(table) ==
  \A r, s \in Slots :
    table[r] # None /\ table[s] # None /\ table[r].track = table[s].track => r = s

\* What an event makes of a table, of the worker as of the mapper.
Replayed(table, e) ==
  IF e.type = "touch"
    THEN [table EXCEPT ![SlotFor(table, e.track, e.pressed)] =
            IF e.pressed THEN [track |-> e.track, cell |-> e.cell] ELSE None]
    ELSE table
Fits(table, e) == e.type = "touch" => SlotFor(table, e.track, e.pressed) # 0

\* The contacts of a finger.
Of(table, t) == { c \in View(table) : c.track = t }

\* history[i] is the worker's table as it was when the i-th event that waits
\* was pushed, and the mapper's table as it will be when that event is seen.
Replays(history) ==
  /\ history \in [0 .. Len(queue) -> Table]
  /\ history[0] = contacts /\ history[Len(queue)] = old
  /\ \A i \in 0 .. Len(queue) : Apart(history[i])
  /\ \A i \in 1 .. Len(queue) :
       Fits(history[i - 1], queue[i]) /\ history[i] = Replayed(history[i - 1], queue[i])

Replayable == \E history \in [0 .. Len(queue) -> Table] : Replays(history)

\* A board with one touch point has one contact, whose track is 0.
Single ==
  /\ wpc = "single" => max = 1
  /\ max = 1 => /\ wpc \in {"read", "single"}
                /\ \A s \in Slots : old[s] # None => s = 1 /\ old[s].track = 0

Inductive == TypeOK /\ queue \in Seq(Event) /\ Single /\ Replayable

\* A set of numbers has a least and a greatest one.
LEMMA LeastExists ==
  ASSUME NEW n \in Nat, NEW S \in SUBSET (1 .. n), S # {}
  PROVE  \E i \in S : \A j \in S : i <= j
<1> DEFINE Below == {1 .. i : i \in S}
<1>1. IsWellFoundedOn(StrictSubsetOrdering(1 .. n), SUBSET (1 .. n))
  <2>1. 1 \in Int /\ n \in Int
    OBVIOUS
  <2>2. IsFiniteSet(1 .. n)
    BY <2>1, FS_Interval, Zenon
  <2> QED
    BY <2>2, FS_FiniteSubsetsOfFinite, FS_StrictSubsetOrderingWellFounded
<1>2. Below \subseteq SUBSET (1 .. n) /\ Below # {}
  <2>1. \A i \in S : 1 .. i \subseteq 1 .. n
    OBVIOUS
  <2> QED
    BY <2>1
<1>3. PICK low \in Below : \A b \in Below : <<b, low>> \notin StrictSubsetOrdering(1 .. n)
  <2> HIDE DEF Below
  <2> QED
    BY <1>1, <1>2, WFMin
<1>4. PICK i \in S : low = 1 .. i
  OBVIOUS
<1>5. ASSUME NEW j \in S, j < i PROVE FALSE
  <2>1. 1 .. j \in Below /\ 1 .. j \subseteq 1 .. i /\ i \in 1 .. i /\ i \notin 1 .. j
    BY <1>5
  <2>2. <<1 .. j, low>> \in StrictSubsetOrdering(1 .. n)
    BY <1>2, <1>4, <2>1 DEF StrictSubsetOrdering
  <2> QED
    BY <1>3, <2>1, <2>2
<1> QED
  BY <1>5

\* Counted down from n, its least number is its greatest.
LEMMA GreatestExists ==
  ASSUME NEW n \in Nat, NEW S \in SUBSET (1 .. n), S # {}
  PROVE  \E i \in S : \A j \in S : j <= i
<1> DEFINE Mirror == {j \in 1 .. n : n + 1 - j \in S}
<1>1. \A i \in S : n + 1 - i \in Mirror
  OBVIOUS
<1>2. PICK j \in Mirror : \A k \in Mirror : j <= k
  <2>1. Mirror # {} /\ Mirror \in SUBSET (1 .. n)
    BY <1>1
  <2> HIDE DEF Mirror
  <2> QED
    BY <2>1, LeastExists
<1>3. ASSUME NEW i \in S PROVE i <= n + 1 - j
  <2>1. n + 1 - i \in Mirror
    BY <1>1
  <2> HIDE DEF Mirror
  <2>2. j <= n + 1 - i
    BY <1>2, <2>1
  <2>3. i \in Int /\ j \in Int
    BY <1>2 DEF Mirror
  <2> QED
    BY <2>2, <2>3
<1>4. n + 1 - j \in S
  BY <1>2
<1> QED
  BY <1>3, <1>4

USE InputAssumption
USE DEF Slots

\* Lowest picks a slot of the set it is given.
LEMMA LowestIsIn == ASSUME NEW S \in SUBSET Slots, S # {} PROVE Lowest(S) \in S
<1>1. \E i \in S : \A j \in S : i <= j
  BY LeastExists
<1> QED
  BY <1>1 DEF Lowest

\* The slot that is found has the finger's contact, or none when the finger
\* has no contact in the table.
LEMMA SlotFound ==
  ASSUME NEW table \in Table, NEW t, NEW pressed \in BOOLEAN,
         SlotFor(table, t, pressed) # 0
  PROVE  LET slot == SlotFor(table, t, pressed)
         IN  /\ slot \in Slots
             /\ \/ table[slot] # None /\ table[slot].track = t
                \/ /\ pressed /\ table[slot] = None
                   /\ \A s \in Slots : table[s] # None => table[s].track # t
<1> DEFINE same == { i \in Slots : table[i] # None /\ table[i].track = t }
           free == { i \in Slots : table[i] = None }
<1>1. CASE same # {}
  <2>1. Lowest(same) \in same
    BY <1>1, LowestIsIn
  <2> QED
    BY <1>1, <2>1 DEF SlotFor
<1>2. CASE same = {}
  <2>1. pressed /\ free # {} /\ SlotFor(table, t, pressed) = Lowest(free)
    BY <1>2 DEF SlotFor
  <2>2. Lowest(free) \in free
    BY <2>1, LowestIsIn
  <2> QED
    BY <1>2, <2>1, <2>2
<1> QED
  BY <1>1, <1>2

\* An event changes the contact of its finger and no other.
LEMMA ReplayKeeps ==
  ASSUME NEW table \in Table, Apart(table), NEW e \in Event, Fits(table, e)
  PROVE  /\ Replayed(table, e) \in Table /\ Apart(Replayed(table, e))
         /\ \A t : ~About(e, t) => Of(Replayed(table, e), t) = Of(table, t)
         /\ e.type = "touch" =>
              /\ Of(Replayed(table, e), e.track) =
                   IF e.pressed THEN {[track |-> e.track, cell |-> e.cell]} ELSE {}
              /\ ~e.pressed => Of(table, e.track) # {}
<1> DEFINE next == Replayed(table, e)
<1>1. CASE e.type # "touch"
  BY <1>1 DEF Replayed, About
<1>2. CASE e.type = "touch"
  <2> DEFINE slot == SlotFor(table, e.track, e.pressed)
             new == IF e.pressed THEN [track |-> e.track, cell |-> e.cell] ELSE None
  <2>1. e.track \in Track \cup {0} /\ e.cell \in Cell /\ e.pressed \in BOOLEAN
    BY <1>2 DEF Event
  <2>2. /\ slot \in Slots
        /\ \/ table[slot] # None /\ table[slot].track = e.track
           \/ /\ e.pressed /\ table[slot] = None
              /\ \A s \in Slots : table[s] # None => table[s].track # e.track
    BY <1>2, <2>1, SlotFound DEF Fits
  <2>3. next = [table EXCEPT ![slot] = new]
    BY <1>2 DEF Replayed
  <2>4. new \in Tracked \cup {None} /\ (e.pressed => new # None)
    BY <2>1 DEF Tracked
  <2> HIDE DEF slot, next
  <2>5. /\ next \in Table /\ next[slot] = new
        /\ \A s \in Slots \ {slot} : next[s] = table[s]
    BY <2>2, <2>3, <2>4 DEF Table
  <2>6. \A s \in Slots \ {slot} : table[s] # None => table[s].track # e.track
    BY <2>2 DEF Apart
  <2>7. Apart(next)
    BY <2>4, <2>5, <2>6 DEF Apart
  <2>8. ASSUME NEW t, ~About(e, t) PROVE Of(next, t) = Of(table, t)
    <3>1. t # e.track
      BY <1>2, <2>8 DEF About
    <3>2. \A c : c \in Of(next, t) <=> \E s \in Slots : next[s] # None /\ c = next[s] /\ c.track = t
      BY DEF Of, View
    <3>3. \A c : c \in Of(table, t) <=> \E s \in Slots : table[s] # None /\ c = table[s] /\ c.track = t
      BY DEF Of, View
    <3>4. next[slot] # None => next[slot].track # t
      BY <2>5, <3>1
    <3>5. table[slot] # None => table[slot].track # t
      BY <2>2, <3>1
    <3>6. \A c : c \in Of(next, t) <=> c \in Of(table, t)
      BY <2>5, <3>2, <3>3, <3>4, <3>5
    <3> QED
      BY <3>6
  <2>9. Of(next, e.track) = IF e.pressed THEN {new} ELSE {}
    <3>1. \A c : c \in Of(next, e.track) <=>
                   \E s \in Slots : next[s] # None /\ c = next[s] /\ c.track = e.track
      BY DEF Of, View
    <3>2. \A c : c \in Of(next, e.track) <=> new # None /\ c = new
      BY <2>2, <2>4, <2>5, <2>6, <3>1
    <3> QED
      BY <2>4, <3>2
  <2>10. ~e.pressed => Of(table, e.track) # {}
    BY <2>2 DEF Of, View
  <2> QED
    BY <2>5, <2>7, <2>8, <2>9, <2>10 DEF next
<1> QED
  BY <1>1, <1>2

LEMMA OthersKept ==
  ASSUME NEW table \in Table, Apart(table), NEW e \in Event, Fits(table, e),
         NEW t, ~About(e, t)
  PROVE  Of(Replayed(table, e), t) = Of(table, t)
<1>1. \A u : ~About(e, u) => Of(Replayed(table, e), u) = Of(table, u)
  BY ReplayKeeps
<1> QED
  BY <1>1

LEMMA FingerTold ==
  ASSUME NEW table \in Table, Apart(table), NEW e \in Event, Fits(table, e), e.type = "touch"
  PROVE  /\ Of(Replayed(table, e), e.track) =
              IF e.pressed THEN {[track |-> e.track, cell |-> e.cell]} ELSE {}
         /\ ~e.pressed => Of(table, e.track) # {}
BY ReplayKeeps

------------------------------------------------------------------------------
(* The history of the tables while events wait.                            *)

\* The history ends in tables of the right type.
LEMMA TablesAreTables ==
  queue \in Seq(Event) /\ Replayable =>
    old \in Table /\ Apart(old) /\ contacts \in Table /\ Apart(contacts)
<1> SUFFICES ASSUME queue \in Seq(Event), Replayable
             PROVE  old \in Table /\ Apart(old) /\ contacts \in Table /\ Apart(contacts)
  OBVIOUS
<1>1. PICK history \in [0 .. Len(queue) -> Table] : Replays(history)
  BY DEF Replayable
<1>2. 0 \in 0 .. Len(queue) /\ Len(queue) \in 0 .. Len(queue)
  BY LenProperties
<1> QED
  BY <1>1, <1>2 DEF Replays

\* A push that is accepted together with the table it stands for.
LEMMA PushReplays ==
  ASSUME Inductive, NEW e \in Event, contacts' = contacts,
         queue' = Append(queue, e), Fits(old, e), old' = Replayed(old, e)
  PROVE  queue' \in Seq(Event) /\ Replayable' /\ old' \in Table
<1> DEFINE n == Len(queue)
<1>1. PICK history \in [0 .. n -> Table] : Replays(history)
  BY DEF Inductive, Replayable
<1>2. n \in Nat /\ queue \in Seq(Event)
  BY LenProperties DEF Inductive
<1>3. /\ queue' \in Seq(Event) /\ Len(queue') = n + 1
      /\ queue'[n + 1] = e /\ \A i \in 1 .. n : queue'[i] = queue[i]
  BY <1>2, AppendProperties
<1>4. Replayed(old, e) \in Table /\ Apart(Replayed(old, e))
  <2>1. old \in Table /\ Apart(old)
    BY <1>1, <1>2 DEF Replays
  <2> QED
    BY <2>1, ReplayKeeps
<1>5. PICK longer \in [0 .. n + 1 -> Table] :
        longer = [i \in 0 .. n + 1 |-> IF i = n + 1 THEN Replayed(old, e) ELSE history[i]]
  <2>1. [i \in 0 .. n + 1 |-> IF i = n + 1 THEN Replayed(old, e) ELSE history[i]]
          \in [0 .. n + 1 -> Table]
    BY <1>1, <1>2, <1>4
  <2> QED
    BY <2>1
<1>6. /\ longer[0] = contacts /\ longer[n + 1] = old' /\ longer[n] = old
      /\ \A i \in 0 .. n : longer[i] = history[i]
  BY <1>1, <1>2, <1>5 DEF Replays
<1>7. \A i \in 0 .. n + 1 : Apart(longer[i])
  BY <1>1, <1>2, <1>4, <1>6 DEF Replays
<1>8. ASSUME NEW i \in 1 .. n + 1
      PROVE  /\ Fits(longer[i - 1], queue'[i])
             /\ longer[i] = Replayed(longer[i - 1], queue'[i])
  <2>1. CASE i = n + 1
    BY <1>2, <1>3, <1>6, <2>1
  <2>2. CASE i \in 1 .. n
    BY <1>1, <1>2, <1>3, <1>6, <2>2 DEF Replays
  <2> QED
    BY <1>2, <2>1, <2>2
<1>9. Replays(longer)'
  BY <1>3, <1>5, <1>6, <1>7, <1>8 DEF Replays
<1> QED
  BY <1>3, <1>4, <1>5, <1>9 DEF Replayable

\* The first event that waits finds its place in the mapper's table.
LEMMA HeadFits ==
  ASSUME Inductive, queue # <<>>
  PROVE  Head(queue) \in Event /\ Fits(contacts, Head(queue))
<1>1. PICK history \in [0 .. Len(queue) -> Table] : Replays(history)
  BY DEF Inductive, Replayable
<1>2. Len(queue) \in Nat /\ queue \in Seq(Event) /\ Len(queue) >= 1
  BY LenProperties, EmptySeq DEF Inductive
<1>3. Head(queue) = queue[1] /\ Head(queue) \in Event /\ 1 \in 1 .. Len(queue) /\ 1 - 1 = 0
  BY <1>2, HeadTailProperties
<1> QED
  BY <1>1, <1>3 DEF Replays

\* The mapper sees the first event that waits.
LEMMA PollReplays ==
  ASSUME Inductive, queue # <<>>, old' = old,
         queue' = Tail(queue), contacts' = Replayed(contacts, Head(queue))
  PROVE  queue' \in Seq(Event) /\ Replayable' /\ Len(queue') <= Len(queue)
<1> DEFINE n == Len(queue)
<1>1. PICK history \in [0 .. n -> Table] : Replays(history)
  BY DEF Inductive, Replayable
<1>2. n \in Nat /\ queue \in Seq(Event) /\ n >= 1
  BY LenProperties, EmptySeq DEF Inductive
<1>3. /\ queue' \in Seq(Event) /\ Len(queue') = n - 1
      /\ Head(queue) = queue[1] /\ Head(queue) \in Event
      /\ \A i \in 1 .. n - 1 : queue'[i] = queue[i + 1]
  BY <1>2, HeadTailProperties
<1>4. PICK shorter \in [0 .. n - 1 -> Table] : shorter = [i \in 0 .. n - 1 |-> history[i + 1]]
  <2>1. [i \in 0 .. n - 1 |-> history[i + 1]] \in [0 .. n - 1 -> Table]
    BY <1>1, <1>2
  <2> QED
    BY <2>1
<1>5. \A i \in 0 .. n - 1 : shorter[i] = history[i + 1]
  BY <1>4
<1>6. Fits(history[0], queue[1]) /\ history[1] = Replayed(history[0], queue[1])
  <2>1. 1 \in 1 .. n /\ 1 - 1 = 0
    BY <1>2
  <2> QED
    BY <1>1, <2>1 DEF Replays
<1>7. shorter[0] = contacts' /\ shorter[n - 1] = old'
  <2>1. shorter[0] = history[1] /\ shorter[n - 1] = history[n]
    BY <1>2, <1>5
  <2>2. history[0] = contacts /\ history[n] = old
    BY <1>1 DEF Replays
  <2> QED
    BY <1>3, <1>6, <2>1, <2>2
<1>8. \A i \in 0 .. n - 1 : Apart(shorter[i])
  BY <1>1, <1>2, <1>5 DEF Replays
<1>9. ASSUME NEW i \in 1 .. n - 1
      PROVE  /\ Fits(shorter[i - 1], queue'[i])
             /\ shorter[i] = Replayed(shorter[i - 1], queue'[i])
  <2>1. i + 1 \in 1 .. n /\ i - 1 \in 0 .. n - 1 /\ i \in 0 .. n - 1
        /\ (i + 1) - 1 = i /\ (i - 1) + 1 = i
    BY <1>2
  <2>2. shorter[i - 1] = history[i] /\ shorter[i] = history[i + 1]
    BY <1>5, <2>1
  <2> QED
    BY <1>1, <1>3, <2>1, <2>2 DEF Replays
<1>10. Replays(shorter)'
  BY <1>3, <1>4, <1>7, <1>8, <1>9 DEF Replays
<1> QED
  BY <1>2, <1>3, <1>4, <1>10 DEF Replayable

\* What happens elsewhere leaves the history alone.
LEMMA RestReplays ==
  ASSUME Inductive, UNCHANGED <<queue, old, contacts>>
  PROVE  queue' \in Seq(Event) /\ Replayable' /\ old' \in Table
<1>1. old \in Table
  BY TablesAreTables DEF Inductive
<1> QED
  BY <1>1 DEF Inductive, Replayable, Replays

\* No event from the i-th to the j-th is about a finger.
Silent(i, j, t) == \A k \in i + 1 .. j : ~About(queue[k], t)

\* The contact of a finger stays while no event is about it.
LEMMA StaysUntilNext ==
  ASSUME Inductive, NEW history \in [0 .. Len(queue) -> Table], Replays(history),
         NEW i \in 0 .. Len(queue), NEW j \in 0 .. Len(queue), NEW t, i <= j, Silent(i, j, t)
  PROVE  Of(history[i], t) = Of(history[j], t)
<1> DEFINE n == Len(queue)
           changed == {k \in 1 .. n : k \in i + 1 .. j /\ Of(history[k], t) # Of(history[i], t)}
<1>1. n \in Nat /\ queue \in Seq(Event)
  BY LenProperties DEF Inductive
<1>2. ASSUME changed # {} PROVE FALSE
  <2>1. PICK k \in changed : \A m \in changed : k <= m
    <3>1. changed \in SUBSET (1 .. n)
      OBVIOUS
    <3> HIDE DEF changed
    <3> QED
      BY <1>1, <1>2, <3>1, LeastExists
  <2>2. k \in 1 .. n /\ k - 1 \in i .. j /\ k - 1 \in 0 .. n
    BY <1>1
  <2>3. Of(history[k - 1], t) = Of(history[i], t)
    <3>1. k - 1 \notin changed
      BY <1>1, <2>1, <2>2
    <3> QED
      BY <1>1, <2>2, <3>1
  <2>4. /\ history[k - 1] \in Table /\ Apart(history[k - 1])
        /\ Fits(history[k - 1], queue[k]) /\ history[k] = Replayed(history[k - 1], queue[k])
    BY <2>2 DEF Replays
  <2>5. queue[k] \in Event /\ ~About(queue[k], t)
    BY <1>1, <2>2, ElementOfSeq DEF Silent
  <2>6. Of(history[k], t) = Of(history[k - 1], t)
    BY <2>4, <2>5, OthersKept
  <2> QED
    BY <2>3, <2>6
<1>3. CASE j = i
  BY <1>3
<1>4. CASE j # i
  <2>1. j \in 1 .. n /\ j \in i + 1 .. j
    BY <1>1, <1>4
  <2> QED
    BY <1>2, <2>1
<1> QED
  BY <1>3, <1>4

\* ... and after an event about it is what the event says.
LEMMA AsTold ==
  ASSUME Inductive, NEW history \in [0 .. Len(queue) -> Table], Replays(history),
         NEW i \in 1 .. Len(queue), queue[i].type = "touch"
  PROVE  /\ Of(history[i], queue[i].track) =
              IF queue[i].pressed THEN {[track |-> queue[i].track, cell |-> queue[i].cell]} ELSE {}
         /\ ~queue[i].pressed => Of(history[i - 1], queue[i].track) # {}
<1>1. Len(queue) \in Nat /\ queue \in Seq(Event)
  BY LenProperties DEF Inductive
<1>2. queue[i] \in Event /\ i - 1 \in 0 .. Len(queue)
  BY <1>1, ElementOfSeq
<1>3. /\ history[i - 1] \in Table /\ Apart(history[i - 1])
      /\ Fits(history[i - 1], queue[i]) /\ history[i] = Replayed(history[i - 1], queue[i])
  BY <1>2 DEF Replays
<1> QED
  BY <1>2, <1>3, FingerTold

\* So the inductive invariant says that nothing is forgotten.
LEMMA HistoryRemembers == Inductive => NothingForgotten
<1> SUFFICES ASSUME Inductive, NEW track \in Track \cup {0}
             PROVE  LET seen == Of(contacts, track)
                        sent == Of(old, track)
                        last == CHOOSE i \in Waiting(track) : \A j \in Waiting(track) : j <= i
                    IN  IF Waiting(track) = {} THEN seen = sent
                        ELSE IF queue[last].pressed
                             THEN sent = {[track |-> track, cell |-> queue[last].cell]}
                             ELSE sent = {}
  BY DEF NothingForgotten, Of
<1> DEFINE n == Len(queue)
<1>1. n \in Nat
  BY LenProperties DEF Inductive
<1>2. PICK history \in [0 .. n -> Table] : Replays(history)
  BY DEF Inductive, Replayable
<1>3. history[0] = contacts /\ history[n] = old
  BY <1>2 DEF Replays
<1>4. \A k \in 1 .. n : k \notin Waiting(track) => ~About(queue[k], track)
  BY DEF Waiting, About
<1>5. CASE Waiting(track) = {}
  <2>1. Of(history[0], track) = Of(history[n], track)
    <3>1. 0 \in 0 .. n /\ n \in 0 .. n /\ 0 <= n /\ Silent(0, n, track)
      BY <1>1, <1>4, <1>5 DEF Silent
    <3> QED
      BY <1>2, <3>1, StaysUntilNext
  <2> QED
    BY <1>3, <1>5, <2>1
<1>6. CASE Waiting(track) # {}
  <2> DEFINE last == CHOOSE i \in Waiting(track) : \A j \in Waiting(track) : j <= i
  <2>1. last \in Waiting(track) /\ \A j \in Waiting(track) : j <= last
    <3>1. Waiting(track) \in SUBSET (1 .. n)
      BY DEF Waiting
    <3>2. \E i \in Waiting(track) : \A j \in Waiting(track) : j <= i
      BY <1>1, <1>6, <3>1, GreatestExists
    <3> QED
      BY <3>2
  <2> HIDE DEF last
  <2>2. last \in 1 .. n /\ queue[last].type = "touch" /\ queue[last].track = track
    BY <2>1 DEF Waiting
  <2>3. Of(history[last], track) = Of(history[n], track)
    <3>1. last \in 0 .. n /\ n \in 0 .. n /\ last <= n /\ Silent(last, n, track)
      BY <1>1, <1>4, <2>1, <2>2 DEF Silent
    <3> QED
      BY <1>2, <3>1, StaysUntilNext
  <2>4. Of(history[last], track) =
          IF queue[last].pressed THEN {[track |-> track, cell |-> queue[last].cell]} ELSE {}
    BY <1>2, <2>2, AsTold
  <2> QED
    BY <1>3, <1>6, <2>3, <2>4 DEF last
<1> QED
  BY <1>5, <1>6

\* ... and that a release finds its contact.
LEMMA HistoryHasContacts == Inductive => ReleasesFindTheirContact
<1> SUFFICES ASSUME Inductive, NEW i \in 1 .. Len(queue),
                    queue[i].type = "touch", ~queue[i].pressed
             PROVE  \/ queue[i].track \in Tracks(View(contacts))
                    \/ \E j \in 1 .. i - 1 : j \in Waiting(queue[i].track) /\ queue[j].pressed
  BY DEF ReleasesFindTheirContact
<1> DEFINE n == Len(queue)
           t == queue[i].track
           before == {k \in 1 .. n : k < i /\ About(queue[k], t)}
<1>1. n \in Nat
  BY LenProperties DEF Inductive
<1>2. PICK history \in [0 .. n -> Table] : Replays(history)
  BY DEF Inductive, Replayable
<1>3. Of(history[i - 1], t) # {}
  BY <1>2, AsTold
<1>4. CASE before = {}
  <2>1. 0 \in 0 .. n /\ i - 1 \in 0 .. n /\ 0 <= i - 1 /\ Silent(0, i - 1, t)
    BY <1>1, <1>4 DEF Silent
  <2>2. Of(history[0], t) = Of(history[i - 1], t)
    BY <1>2, <2>1, StaysUntilNext
  <2>3. Of(contacts, t) # {}
    BY <1>2, <1>3, <2>2 DEF Replays
  <2> QED
    BY <2>3 DEF Of, Tracks
<1>5. CASE before # {}
  <2>1. PICK k \in before : \A m \in before : m <= k
    <3>1. before \in SUBSET (1 .. n)
      OBVIOUS
    <3> HIDE DEF before
    <3> QED
      BY <1>1, <1>5, <3>1, GreatestExists
  <2>2. k \in 1 .. n /\ k < i /\ queue[k].type = "touch" /\ queue[k].track = t
    BY DEF About
  <2>3. Of(history[k], t) = Of(history[i - 1], t)
    <3>1. k \in 0 .. n /\ i - 1 \in 0 .. n /\ k <= i - 1
      BY <1>1, <2>2
    <3>2. Silent(k, i - 1, t)
      BY <1>1, <2>1, <2>2 DEF Silent
    <3> HIDE DEF t
    <3> QED
      BY <1>2, <3>1, <3>2, StaysUntilNext
  <2>4. queue[k].pressed
    BY <1>2, <1>3, <2>2, <2>3, AsTold
  <2> QED
    BY <1>1, <2>2, <2>4 DEF Waiting
<1> QED
  BY <1>4, <1>5

------------------------------------------------------------------------------
(* The steps.                                                              *)

\* A push as the touch worker does it: the table follows what is accepted.
LEMMA TouchPushed ==
  ASSUME Inductive, NEW e \in Event, contacts' = contacts, Push(e), Fits(old, e),
         old' = IF HasRoom THEN Replayed(old, e) ELSE old
  PROVE  queue' \in Seq(Event) /\ Replayable' /\ old' \in Table /\ Len(queue') <= Capacity
<1>1. CASE HasRoom
  <2>1. queue' = Append(queue, e) /\ old' = Replayed(old, e)
    BY <1>1 DEF Push
  <2>2. queue' \in Seq(Event) /\ Replayable' /\ old' \in Table
    BY <2>1, PushReplays
  <2>3. Len(queue') = Len(queue) + 1 /\ Len(queue) < Capacity /\ Len(queue) \in Nat
    BY <1>1, <2>1, AppendProperties, LenProperties DEF Inductive, HasRoom
  <2> QED
    BY <2>2, <2>3
<1>2. CASE ~HasRoom
  BY <1>2, RestReplays DEF Push, Inductive, TypeOK
<1> QED
  BY <1>1, <1>2

\* The slot of a finger that has a contact is that contact's.
LEMMA SlotOfContact ==
  ASSUME NEW table \in Table, Apart(table), NEW s \in Slots, table[s] # None, NEW pressed \in BOOLEAN
  PROVE  SlotFor(table, table[s].track, pressed) = s
<1> DEFINE same == { i \in Slots : table[i] # None /\ table[i].track = table[s].track }
<1>1. Lowest(same) \in same
  <2>1. s \in same /\ same \in SUBSET Slots
    OBVIOUS
  <2> HIDE DEF same
  <2> QED
    BY <2>1, LowestIsIn
<1>2. SlotFor(table, table[s].track, pressed) = Lowest(same)
  BY DEF SlotFor
<1> QED
  BY <1>1, <1>2 DEF Apart

\* The first slot is that of a finger when no slot is taken.
LEMMA SlotOfFirst ==
  ASSUME NEW table \in Table, \A s \in Slots : table[s] = None, NEW t
  PROVE  SlotFor(table, t, TRUE) = 1
<1> DEFINE free == { i \in Slots : table[i] = None }
<1>1. free = Slots /\ 1 \in Slots
  OBVIOUS
<1>2. SlotFor(table, t, TRUE) = Lowest(free)
  BY <1>1 DEF SlotFor
<1>3. Lowest(Slots) \in Slots /\ \A j \in Slots : Lowest(Slots) <= j
  <2>1. \E i \in Slots : \A j \in Slots : i <= j
    BY <1>1
  <2> QED
    BY <2>1 DEF Lowest
<1>4. Lowest(Slots) = 1
  BY <1>1, <1>3
<1> QED
  BY <1>1, <1>2, <1>4

LEMMA InitInductive == Init => Inductive
<1> SUFFICES ASSUME Init PROVE Inductive
  OBVIOUS
<1> USE DEF Init
<1>1. Idle \in Table /\ \A s \in Slots : Idle[s] = None
  BY DEF Idle, Table
<1>2. {} \in Readings(max)
  BY FS_EmptySet DEF Readings
<1>3. TypeOK
  BY <1>1, <1>2 DEF TypeOK, Table
<1>4. queue \in Seq(Event) /\ Len(queue) = 0
  BY EmptySeq
<1>5. Single
  BY <1>1 DEF Single
<1>6. Replayable
  <2>1. [i \in 0 .. 0 |-> Idle] \in [0 .. Len(queue) -> Table]
    BY <1>1, <1>4
  <2>2. Apart(Idle)
    BY <1>1 DEF Apart
  <2>3. Replays([i \in 0 .. 0 |-> Idle])
    BY <1>4, <2>1, <2>2 DEF Replays
  <2> QED
    BY <2>1, <2>3 DEF Replayable
<1> QED
  BY <1>3, <1>4, <1>5, <1>6 DEF Inductive

\* Step Sample.
LEMMA SampleInductive == ASSUME Inductive, Sample PROVE Inductive'
<1> USE DEF Sample, mapper
<1>1. queue' \in Seq(Event) /\ Replayable'
  BY RestReplays
<1>2. TypeOK'
  BY DEF Inductive, TypeOK
<1>3. Single'
  BY DEF Inductive, Single
<1> QED
  BY <1>1, <1>2, <1>3 DEF Inductive

\* Step SampleSingle: the only contact is that of track 0 in the first slot.
LEMMA SingleInductive == ASSUME Inductive, SampleSingle PROVE Inductive'
<1> USE DEF mapper
<1> DEFINE points == { [track |-> 0, cell |-> p.cell] : p \in reading }
<1>1. /\ wpc = "single" /\ wpc' = "read" /\ max = 1 /\ max' = max
      /\ UNCHANGED <<hand, at, reading, contacts, zones, held, pulse, down, gpc>>
  BY DEF SampleSingle, Inductive, Single
<1>2. /\ old \in Table /\ Apart(old) /\ 1 \in Slots
      /\ \A s \in Slots : old[s] # None => s = 1 /\ old[s].track = 0
  BY <1>1, TablesAreTables DEF Inductive, Single
<1>3. \A p \in points : p \in Tracked /\ p.track = 0
  BY DEF Inductive, TypeOK, Readings, Point, Tracked
<1>4. SlotFor(old, 0, TRUE) = 1
  <2>1. CASE old[1] = None
    BY <1>2, <2>1, SlotOfFirst
  <2>2. CASE old[1] # None
    <3>1. SlotFor(old, old[1].track, TRUE) = 1
      BY <1>2, <2>2, SlotOfContact
    <3> QED
      BY <1>2, <2>2, <3>1
  <2> QED
    BY <2>1, <2>2
<1>5. CASE UNCHANGED <<queue, old>>
  <2>1. queue' \in Seq(Event) /\ Replayable'
    BY <1>1, <1>5, RestReplays
  <2>2. TypeOK'
    BY <1>1, <1>5 DEF Inductive, TypeOK
  <2>3. Single'
    BY <1>1, <1>2, <1>5 DEF Single
  <2> QED
    BY <2>1, <2>2, <2>3 DEF Inductive
<1>6. ASSUME NEW e \in Event, Push(e), e.type = "touch", SlotFor(old, e.track, e.pressed) = 1,
             NEW new, new = None \/ (new \in Tracked /\ new.track = 0), Accepted(1, new),
             Replayed(old, e) = [old EXCEPT ![1] = new]
      PROVE  Inductive'
  <2>1. queue' \in Seq(Event) /\ Replayable' /\ old' \in Table /\ Len(queue') <= Capacity
    <3>1. Fits(old, e)
      BY <1>6 DEF Fits
    <3>2. old' = IF HasRoom THEN Replayed(old, e) ELSE old
      BY <1>6 DEF Accepted
    <3>3. contacts' = contacts
      BY <1>1
    <3> QED
      BY <1>6, <3>1, <3>2, <3>3, TouchPushed
  <2>2. old' \in Table
    BY <1>2, <1>6 DEF Accepted, Table
  <2>3. TypeOK'
    BY <1>1, <2>1, <2>2 DEF Inductive, TypeOK, Table
  <2>4. Single'
    BY <1>1, <1>2, <1>6 DEF Single, Accepted, Table
  <2> QED
    BY <2>1, <2>3, <2>4 DEF Inductive
<1>7. ASSUME NEW p \in points, Push(Touch(p, TRUE)), Accepted(1, p) PROVE Inductive'
  <2>1. p \in Tracked /\ p.track = 0 /\ p = [track |-> 0, cell |-> p.cell]
    BY <1>3
  <2>2. Touch(p, TRUE) \in Event
    BY <2>1 DEF Touch, Event, Tracked
  <2>3. /\ Touch(p, TRUE).type = "touch" /\ Touch(p, TRUE).track = 0
        /\ Touch(p, TRUE).pressed = TRUE /\ Touch(p, TRUE).cell = p.cell
    BY <2>1 DEF Touch
  <2>4. Replayed(old, Touch(p, TRUE)) = [old EXCEPT ![1] = p]
    BY <1>4, <2>1, <2>3 DEF Replayed
  <2> QED
    BY <1>4, <1>6, <1>7, <2>1, <2>2, <2>3, <2>4
<1>8. ASSUME old[1] # None, Push(Touch(old[1], FALSE)), Accepted(1, None) PROVE Inductive'
  <2>1. old[1] \in Tracked /\ old[1].track = 0
    BY <1>2, <1>8 DEF Table
  <2>2. Touch(old[1], FALSE) \in Event
    BY <2>1 DEF Touch, Event, Tracked
  <2>3. /\ Touch(old[1], FALSE).type = "touch" /\ Touch(old[1], FALSE).track = 0
        /\ Touch(old[1], FALSE).pressed = FALSE
    BY <2>1 DEF Touch
  <2>4. SlotFor(old, 0, FALSE) = 1
    <3>1. SlotFor(old, old[1].track, FALSE) = 1
      BY <1>2, <1>8, SlotOfContact
    <3> QED
      BY <2>1, <3>1
  <2>5. Replayed(old, Touch(old[1], FALSE)) = [old EXCEPT ![1] = None]
    BY <2>3, <2>4 DEF Replayed
  <2> QED
    BY <1>6, <1>8, <2>2, <2>3, <2>4, <2>5
<1> QED
  BY <1>5, <1>7, <1>8 DEF SampleSingle

\* Step SampleRelease: the contact of an absent finger is found by its track.
LEMMA ReleaseInductive == ASSUME Inductive, SampleRelease PROVE Inductive'
<1> USE DEF mapper
<1>1. /\ wpc = "release" /\ wpc' \in {"press", "release"} /\ max # 1 /\ max' = max
      /\ at \in Slots /\ at' \in Slots
      /\ UNCHANGED <<hand, reading, contacts, zones, held, pulse, down, gpc>>
  BY DEF SampleRelease, Inductive, Single, TypeOK
<1>2. old \in Table /\ Apart(old)
  BY TablesAreTables DEF Inductive
<1>3. Single'
  BY <1>1 DEF Single
<1>4. queue' \in Seq(Event) /\ Replayable' /\ old' \in Table /\ Len(queue') <= Capacity
  <2>1. CASE UNCHANGED <<queue, old>>
    <3>1. Len(queue) <= Capacity
      BY DEF Inductive, TypeOK
    <3> QED
      BY <1>1, <2>1, <3>1, RestReplays
  <2>2. CASE old[at] # None /\ Push(Touch(old[at], FALSE)) /\ Accepted(at, None)
    <3> DEFINE e == Touch(old[at], FALSE)
    <3>1. old[at] \in Tracked
      BY <1>1, <1>2, <2>2 DEF Table
    <3>2. e \in Event
      BY <3>1 DEF Touch, Event, Tracked
    <3>3. e.type = "touch" /\ e.track = old[at].track /\ e.pressed = FALSE
      BY DEF Touch
    <3>4. SlotFor(old, old[at].track, FALSE) = at
      BY <1>1, <1>2, <2>2, SlotOfContact
    <3>5. Fits(old, e)
      <4>1. at # 0
        BY <1>1
      <4> QED
        BY <3>3, <3>4, <4>1 DEF Fits
    <3>6. old' = IF HasRoom THEN Replayed(old, e) ELSE old
      BY <2>2, <3>3, <3>4 DEF Accepted, Replayed
    <3>7. contacts' = contacts /\ Push(e)
      BY <1>1, <2>2
    <3> HIDE DEF e
    <3> QED
      BY <3>2, <3>5, <3>6, <3>7, TouchPushed
  <2> QED
    BY <2>1, <2>2 DEF SampleRelease
<1>5. TypeOK'
  BY <1>1, <1>4 DEF Inductive, TypeOK, Table
<1> QED
  BY <1>3, <1>4, <1>5 DEF Inductive

\* Step SamplePress: a finger that is new takes a free slot, if there is one.
LEMMA PressInductive == ASSUME Inductive, SamplePress PROVE Inductive'
<1> USE DEF mapper
<1>1. /\ wpc = "press" /\ wpc' \in {"press", "read"} /\ max # 1
      /\ UNCHANGED <<max, at, hand, contacts, zones, held, pulse, down, gpc>>
  BY DEF SamplePress, Inductive, Single
<1>2. old \in Table /\ Apart(old)
  BY TablesAreTables DEF Inductive
<1>3. Single'
  BY <1>1 DEF Single
<1>4. queue' \in Seq(Event) /\ Replayable' /\ old' \in Table /\ Len(queue') <= Capacity
  <2>1. CASE UNCHANGED <<queue, old>>
    <3>1. Len(queue) <= Capacity
      BY DEF Inductive, TypeOK
    <3> QED
      BY <1>1, <2>1, <3>1, RestReplays
  <2>2. ASSUME NEW p \in reading, SlotFor(old, p.track, TRUE) # 0,
               Push(Touch(p, TRUE)), Accepted(SlotFor(old, p.track, TRUE), p)
        PROVE  queue' \in Seq(Event) /\ Replayable' /\ old' \in Table /\ Len(queue') <= Capacity
    <3> DEFINE e == Touch(p, TRUE)
    <3>1. p \in Point /\ p = [track |-> p.track, cell |-> p.cell]
      BY DEF Inductive, TypeOK, Readings, Point
    <3>2. e \in Event
      BY <3>1 DEF Touch, Event, Point
    <3>3. e.type = "touch" /\ e.track = p.track /\ e.cell = p.cell /\ e.pressed = TRUE
      BY DEF Touch
    <3>4. Fits(old, e)
      BY <2>2, <3>3 DEF Fits
    <3>5. old' = IF HasRoom THEN Replayed(old, e) ELSE old
      BY <2>2, <3>1, <3>3 DEF Accepted, Replayed
    <3>6. contacts' = contacts /\ Push(e)
      BY <1>1, <2>2
    <3> HIDE DEF e
    <3> QED
      BY <3>2, <3>4, <3>5, <3>6, TouchPushed
  <2> QED
    BY <2>1, <2>2 DEF SamplePress
<1>5. reading' \in Readings(max)
  <2>1. reading' \subseteq reading
    BY DEF SamplePress
  <2>2. /\ reading \subseteq Point /\ Cardinality(reading) <= max /\ max \in Nat
        /\ \A p, q \in reading : p.track = q.track => p = q
    BY DEF Inductive, TypeOK, Readings
  <2>3. IsFiniteSet(reading)
    BY <2>2, FS_Subset DEF Point
  <2>4. /\ Cardinality(reading') <= Cardinality(reading)
        /\ Cardinality(reading') \in Nat /\ Cardinality(reading) \in Nat
    BY <2>1, <2>3, FS_Subset, FS_CardinalityType
  <2>5. Cardinality(reading') <= max
    BY <2>2, <2>4
  <2> QED
    BY <2>1, <2>2, <2>5 DEF Readings
<1>6. TypeOK'
  BY <1>1, <1>4, <1>5 DEF Inductive, TypeOK, Table
<1> QED
  BY <1>3, <1>4, <1>6 DEF Inductive

\* Step SampleImu: an axis event concerns no table.
LEMMA ImuInductive == ASSUME Inductive, SampleImu PROVE Inductive'
<1> USE DEF mapper, worker
<1>1. PICK tilt \in Tilts : Push(Axis(tilt))
  BY DEF SampleImu
<1>2. UNCHANGED <<hand, max, old, wpc, at, reading, contacts, zones, held, pulse, down, gpc>>
  BY DEF SampleImu
<1>3. Axis(tilt) \in Event /\ Axis(tilt).type = "axis"
  BY DEF Axis, Event
<1>4. Fits(old, Axis(tilt)) /\ Replayed(old, Axis(tilt)) = old
  BY <1>3 DEF Fits, Replayed
<1>5. queue' \in Seq(Event) /\ Replayable' /\ old' \in Table /\ Len(queue') <= Capacity
  <2>1. contacts' = contacts /\ old' = IF HasRoom THEN Replayed(old, Axis(tilt)) ELSE old
    BY <1>2, <1>4
  <2> QED
    BY <1>1, <1>3, <1>4, <2>1, TouchPushed
<1>6. TypeOK'
  BY <1>2, <1>5 DEF Inductive, TypeOK
<1>7. Single'
  BY <1>2 DEF Inductive, Single
<1> QED
  BY <1>5, <1>6, <1>7 DEF Inductive

\* Step Poll: the mapper does to its table what the worker did to its own.
LEMMA PollInductive == ASSUME Inductive, Poll PROVE Inductive'
<1> USE DEF mapper, worker
<1> DEFINE e == Head(queue)
<1>1. /\ queue # <<>> /\ queue' = Tail(queue)
      /\ UNCHANGED <<hand, max, old, wpc, at, reading, zones, down, gpc>>
      /\ IF e.type = "touch" THEN ApplyTouch(e) ELSE ApplyAxis(e)
  BY DEF Poll
<1>2. e \in Event /\ Fits(contacts, e)
  BY <1>1, HeadFits
<1>3. contacts \in Table
  BY TablesAreTables DEF Inductive
<1>4. zones \in ZoneTables /\ DOMAIN zones \subseteq Action
  BY DEF Inductive, TypeOK
<1> HIDE DEF e
<1>5. ASSUME e.type = "touch"
          PROVE contacts' = Replayed(contacts, e) /\ held' \subseteq Action /\ pulse' \subseteq Action
  <2> DEFINE slot == SlotFor(contacts, e.track, e.pressed)
  <2>1. slot # 0
    BY <1>2, <1>5 DEF Fits
  <2>2. /\ contacts' = Replayed(contacts, e)
        /\ pulse' \in {pulse, pulse \cup {"restart"}}
        /\ held' = SyncZones(contacts')
    BY <1>1, <1>5, <2>1 DEF ApplyTouch, ContactFor, Replayed
  <2>3. held' \subseteq Action
    BY <1>4, <2>2 DEF SyncZones, Inductive, TypeOK
  <2>4. pulse' \subseteq Action
    BY <2>2 DEF Action, Inductive, TypeOK
  <2> QED
    BY <2>2, <2>3, <2>4
<1>6. ASSUME e.type # "touch"
          PROVE contacts' = Replayed(contacts, e) /\ held' \subseteq Action /\ pulse' \subseteq Action
  <2>1. e.tilt \in {"left", "right", "level"}
    BY <1>2, <1>6 DEF Event
  <2>2. /\ contacts' = contacts /\ pulse' = pulse
        /\ held' = (held \ {"left", "right"}) \cup ({e.tilt} \ {"level"})
    BY <1>1, <1>6 DEF ApplyAxis
  <2>3. held' \subseteq Action /\ pulse' \subseteq Action
    BY <2>1, <2>2 DEF Action, Inductive, TypeOK
  <2>4. contacts' = Replayed(contacts, e)
    BY <1>6, <2>2 DEF Replayed
  <2> QED
    BY <2>3, <2>4
<1>7. contacts' = Replayed(contacts, e) /\ held' \subseteq Action /\ pulse' \subseteq Action
  BY <1>5, <1>6
<1>8. queue' \in Seq(Event) /\ Replayable' /\ Len(queue') <= Len(queue)
  BY <1>1, <1>7, PollReplays DEF e
<1>9. contacts' \in Table
  BY <1>2, <1>3, <1>7, ReplayKeeps, TablesAreTables DEF Inductive
<1>10. TypeOK'
  <2>1. Len(queue') <= Capacity
    BY <1>1, <1>8, LenProperties DEF Inductive, TypeOK
  <2> QED
    BY <1>1, <1>7, <1>9, <2>1 DEF Inductive, TypeOK, Table, Poll
<1>11. Single'
  BY <1>1 DEF Inductive, Single
<1> QED
  BY <1>8, <1>10, <1>11 DEF Inductive

\* Steps PollDone, Update and Pass leave the tables and the queue alone.
LEMMA LoopInductive ==
  ASSUME Inductive, PollDone \/ Update \/ Pass PROVE Inductive'
<1> USE DEF mapper, worker
<1>1. /\ UNCHANGED <<hand, max, old, wpc, at, reading, queue, contacts, held>>
      /\ gpc' \in {"poll", "update"}
      /\ zones' \in ZoneTables /\ pulse' \subseteq pulse /\ down' \subseteq Action
  BY DEF PollDone, Update, Pass, Frame, Inductive, TypeOK
<1>2. queue' \in Seq(Event) /\ Replayable'
  BY <1>1, RestReplays
<1>3. TypeOK'
  BY <1>1 DEF Inductive, TypeOK
<1>4. Single'
  BY <1>1 DEF Inductive, Single
<1> QED
  BY <1>2, <1>3, <1>4 DEF Inductive

LEMMA StepInductive == Inductive /\ [Next]_vars => Inductive'
<1> SUFFICES ASSUME Inductive, [Next]_vars PROVE Inductive'
  OBVIOUS
<1>1. CASE UNCHANGED vars
  <2>1. queue' \in Seq(Event) /\ Replayable'
    BY <1>1, RestReplays DEF vars, worker, mapper
  <2>2. TypeOK'
    BY <1>1 DEF vars, worker, mapper, Inductive, TypeOK
  <2>3. Single'
    BY <1>1 DEF vars, worker, Inductive, Single
  <2> QED
    BY <2>1, <2>2, <2>3 DEF Inductive
<1> QED
  BY <1>1, SampleInductive, SingleInductive, ReleaseInductive, PressInductive, ImuInductive,
     PollInductive, LoopInductive DEF Next, TouchWorker

\* The inductive invariant: what waits in the queue leads from the mapper's
\* table to the worker's, however often the queue has refused an event.
THEOREM InductiveHolds == Spec => []Inductive
BY InitInductive, StepInductive, PTL DEF Spec

\* Every variable keeps its type.
THEOREM TypeCorrect == Spec => []TypeOK
<1>1. Inductive => TypeOK
  BY DEF Inductive
<1> QED
  BY <1>1, InductiveHolds, PTL

\* No press, move or release is lost between the panel and the game.
THEOREM NothingIsForgotten == Spec => []NothingForgotten
BY HistoryRemembers, InductiveHolds, PTL

\* A release reaches the contact it was made for.
THEOREM ReleasesArrive == Spec => []ReleasesFindTheirContact
BY HistoryHasContacts, InductiveHolds, PTL

\* While a game keeps its zones, an action that only a zone can hold is held by
\* a contact in that zone, whatever a full queue refused.
THEOREM SafetyHolds ==
  (\A t, u \in ZoneTables : t = u) => (Spec => []Safety)
<1> SUFFICES ASSUME \A t, u \in ZoneTables : t = u PROVE Spec => []Safety
  OBVIOUS
<1>1. Init => HeldIsTouched
  BY DEF Init, HeldIsTouched
<1>2. Inductive /\ HeldIsTouched /\ [Next]_vars => HeldIsTouched'
  <2> SUFFICES ASSUME Inductive, HeldIsTouched, [Next]_vars PROVE HeldIsTouched'
    OBVIOUS
  <2> USE DEF mapper, worker
  <2>1. CASE UNCHANGED <<held, zones, contacts>>
    BY <2>1 DEF HeldIsTouched, View
  <2>2. CASE Update
    <3>1. zones' = zones /\ UNCHANGED <<held, contacts>>
      BY <2>2 DEF Update, Inductive, TypeOK
    <3> QED
      BY <3>1 DEF HeldIsTouched, View
  <2>3. CASE Poll
    <3>1. CASE Head(queue).type = "touch"
      <4>1. held' = SyncZones(contacts') /\ zones' = zones
        BY <2>3, <3>1 DEF Poll, ApplyTouch
      <4> QED
        BY <4>1 DEF SyncZones, HeldIsTouched, View
    <3>2. CASE Head(queue).type # "touch"
      <4>1. Head(queue) \in Event
        BY <2>3, HeadFits DEF Poll
      <4>2. Head(queue).tilt # "jump"
        BY <3>2, <4>1 DEF Event
      <4>3. /\ zones' = zones /\ contacts' = contacts
            /\ held' = (held \ {"left", "right"}) \cup ({Head(queue).tilt} \ {"level"})
        BY <2>3, <3>2 DEF Poll, ApplyAxis
      <4> QED
        BY <4>2, <4>3 DEF HeldIsTouched, View
    <3> QED
      BY <3>1, <3>2
  <2> QED
    BY <2>1, <2>2, <2>3 DEF vars, Next, TouchWorker, Sample, SampleSingle, SampleRelease,
       SamplePress, SampleImu, PollDone, Pass
<1>3. Spec => []HeldIsTouched
  BY <1>1, <1>2, InductiveHolds, PTL DEF Spec
<1> QED
  BY <1>3, TypeCorrect, PTL DEF Safety
==============================================================================
