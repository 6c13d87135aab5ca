----------------------------- MODULE GamesProofs -----------------------------
(***************************************************************************)
(* Theorems about the parts of Games, each in a section of its own: what   *)
(* its specification promises for all values of its constants, and what a  *)
(* theorem asks of them is its hypothesis.  Then the invariants of Games   *)
(* that say so, and the runner that times every game.                      *)
(***************************************************************************)
EXTENDS Games, Runner, Integers, Sequences, FiniteSets, FiniteSetTheorems, SequenceTheorems, WellFoundedInduction, TLAPS

\* A set of numbers has a least one.
LEMMA LeastExists ==
  ASSUME NEW n \in Nat, NEW S \in SUBSET (1 .. n), S # {}
  PROVE  \E i \in S : \A j \in S : i <= j
<1> DEFINE Below == {1 .. i : i \in S}
<1>1. IsWellFoundedOn(StrictSubsetOrdering(1 .. n), SUBSET (1 .. n))
  <2>1. 1 \in Int /\ n \in Int
    OBVIOUS
  <2>2. IsFiniteSet(1 .. n)
    BY <2>1, FS_Interval, Zenon
  <2> QED
    BY <2>2, FS_FiniteSubsetsOfFinite, FS_StrictSubsetOrderingWellFounded
<1>2. Below \subseteq SUBSET (1 .. n) /\ Below # {}
  <2>1. \A i \in S : 1 .. i \subseteq 1 .. n
    OBVIOUS
  <2> QED
    BY <2>1
<1>3. PICK low \in Below : \A b \in Below : <<b, low>> \notin StrictSubsetOrdering(1 .. n)
  <2> HIDE DEF Below
  <2> QED
    BY <1>1, <1>2, WFMin
<1>4. PICK i \in S : low = 1 .. i
  OBVIOUS
<1>5. ASSUME NEW j \in S, j < i PROVE FALSE
  <2>1. 1 .. j \in Below /\ 1 .. j \subseteq 1 .. i /\ i \in 1 .. i /\ i \notin 1 .. j
    BY <1>5
  <2>2. <<1 .. j, low>> \in StrictSubsetOrdering(1 .. n)
    BY <1>2, <1>4, <2>1 DEF StrictSubsetOrdering
  <2> QED
    BY <1>3, <2>1, <2>2
<1> QED
  BY <1>5

(***************************************************************************)
(* The records of the rally                                                *)
(***************************************************************************)

Seen(c) == Rally!TimeOf(flash.seen, c)
Kept(c) == Rally!TimeOf(flash.kept, c)

LEMMA TimesAreNumbers ==
  ASSUME RallyConstants, NEW t \in Times \cup {0}
  PROVE  t \in Nat
BY DEF RallyConstants

\* What a stored blob is made of.
LEMMA BlobShape ==
  ASSUME RallyConstants, NEW blob \in Rally!S!Stored
  PROVE  /\ blob.kind \in {"missing", "corrupt", "blob"}
         /\ blob.kind = "blob" => blob.version \in 1..2 /\ blob.data \in Rally!Record
<1>1. CASE blob = Rally!S!Missing \/ blob = Rally!S!Corrupt
  BY <1>1 DEF Rally!S!Missing, Rally!S!Corrupt
<1>2. CASE \E v \in 1..2, d \in Rally!Record : blob = Rally!S!Blob(v, d)
  BY <1>2 DEF Rally!S!Blob
<1> QED
  BY <1>1, <1>2 DEF Rally!S!Stored, Rally!Version

LEMMA Migrated ==
  ASSUME RallyConstants, NEW blob, blob.version = 1 => blob.data \in Rally!Record
  PROVE  Rally!Migrate(blob) \in Rally!Record
<1> USE DEF RallyConstants, Rally!Record, Rally!Migrate, Rally!Empty
<1>1. Rally!Empty \in Rally!Record /\ 0 \in Rally!Course
  BY DEF Rally!Course
<1>2. CASE blob.version = 1
  BY <1>1, <1>2
<1> QED
  BY <1>1, <1>2

LEMMA StoredTimes ==
  ASSUME RallyConstants, NEW blob \in Rally!S!Stored, NEW c \in Rally!Course
  PROVE  Rally!TimeOf(blob, c) \in Times \cup {0}
<1>1. CASE blob.kind # "blob"
  BY <1>1 DEF Rally!TimeOf
<1>2. CASE blob.kind = "blob" 
  <2>1. blob.data \in Rally!Record /\ Rally!Migrate(blob) \in Rally!Record
    BY <1>2, BlobShape, Migrated
  <2> QED
    BY <1>2, <2>1 DEF Rally!TimeOf, Rally!Record
<1> QED
  BY <1>1, <1>2

\* What a read answers is stored, or nothing.
LEMMA ReadFacts ==
  ASSUME RallyConstants, Rally!S!SaveTypeOK, NEW blob \in Rally!S!Reads
  PROVE  LET load == Rally!S!Loaded(blob, Rally!Migrate(blob)) IN
         /\ load.ok => load.data \in Rally!Record
         /\ \A c \in Rally!Course : Rally!BestOf(load, c) \in {0, Seen(c)}
         /\ ~Rally!Misreads(blob) => ~misread /\ \A c \in Rally!Course : Rally!BestOf(load, c) = Seen(c)
<1> DEFINE load == Rally!S!Loaded(blob, Rally!Migrate(blob))
<1>1. flash.seen \in Rally!S!Stored /\ (blob = flash.seen \/ blob.kind = "error")
  BY DEF Rally!S!SaveTypeOK, Rally!S!Reads
<1>2. CASE blob.kind \in {"error", "corrupt"}
  <2>1. ~load.ok /\ Rally!Misreads(blob)
    BY <1>2 DEF Rally!S!Loaded, Rally!Misreads
  <2> QED
    BY <2>1 DEF Rally!BestOf
<1>3. CASE blob = flash.seen /\ blob.kind = "missing"
  <2>1. load.ok /\ load.data = Rally!Empty
    BY <1>3 DEF Rally!S!Loaded
  <2>2. \A c \in Rally!Course : Seen(c) = 0 /\ Rally!Empty[c] = 0
    BY <1>3 DEF Seen, Rally!TimeOf, Rally!Empty
  <2>3. Rally!Empty \in Rally!Record
    BY DEF Rally!Empty, Rally!Record
  <2> QED
    BY <2>1, <2>2, <2>3 DEF Rally!BestOf, Rally!Misreads
<1>4. CASE blob = flash.seen /\ blob.kind = "blob"
  <2>1. blob.data \in Rally!Record /\ Rally!Migrate(blob) \in Rally!Record
    BY <1>1, <1>4, BlobShape, Migrated
  <2>2. load.ok /\ load.data = IF blob.version = Rally!Version THEN blob.data ELSE Rally!Migrate(blob)
    BY <1>4 DEF Rally!S!Loaded
  <2>3. \A c \in Rally!Course : Seen(c) = load.data[c]
    BY <1>4, <2>2 DEF Seen, Rally!TimeOf
  <2> HIDE DEF load
  <2>4. \A c \in Rally!Course : Rally!BestOf(load, c) = Seen(c)
    BY <2>2, <2>3 DEF Rally!BestOf
  <2>5. load.data \in Rally!Record
    BY <2>1, <2>2
  <2>6. ~Rally!Misreads(blob) => ~misread
    BY DEF Rally!Misreads
  <2> QED
    BY <2>4, <2>5, <2>6 DEF load
<1> QED
  BY <1>1, <1>2, <1>3, <1>4, BlobShape

Written(record) == Rally!S!Blob(Rally!Version, record)

LEMMA WrittenFacts ==
  ASSUME RallyConstants, NEW record \in Rally!Record
  PROVE  /\ Written(record) \in Rally!S!Stored
         /\ \A c \in Rally!Course : Rally!TimeOf(Written(record), c) = record[c]
BY DEF Written, Rally!S!Stored, Rally!S!Blob, Rally!TimeOf, Rally!Version

LEMMA Requests ==
  ASSUME Rally!S!SaveTypeOK, NEW record
  PROVE  Rally!S!Requested(slot, record) = [ready |-> slot.ready, dirty |-> TRUE, pending |-> record]
BY DEF Rally!S!SaveTypeOK, Rally!S!Requested

\* What a save leaves behind: the record of what was read with this course's
\* time in it, requested, and written as far as the storage took it.
LEMMA SaveFacts ==
  ASSUME RallyConstants, Rally!TypeOK, NEW t \in Times \cup {0}, NEW force \in BOOLEAN, Rally!SaveRecord(t, force)
  PROVE  \E record \in Rally!Record :
           /\ record[course] = t
           /\ \A c \in Rally!Course \ {course} : record[c] \in {0, Seen(c)}
           /\ ~misread' => ~misread /\ \A c \in Rally!Course \ {course} : record[c] = Seen(c)
           /\ \E dirty \in BOOLEAN :
                /\ slot' = [ready |-> slot.ready, dirty |-> dirty, pending |-> record]
                /\ \/ dirty /\ flash' = flash
                   \/ dirty /\ flash' = [seen |-> Written(record), kept |-> flash.kept]
                   \/ ~dirty /\ flash' = [seen |-> Written(record), kept |-> Written(record)]
<1> USE DEF Rally!TypeOK
<1>1. PICK blob \in Rally!S!Reads :
        /\ misread' = Rally!Misreads(blob)
        /\ \E due \in {force, TRUE} :
             \E after \in Rally!S!Flushed(Rally!S!Requested(slot,
                                 Rally!Merged(Rally!S!Loaded(blob, Rally!Migrate(blob)), course, t)), due) :
               slot' = after.slot /\ flash' = after.flash
  BY DEF Rally!SaveRecord
<1> DEFINE load == Rally!S!Loaded(blob, Rally!Migrate(blob))
           record == Rally!Merged(load, course, t)
           requested == Rally!S!Requested(slot, record)
<1>2. /\ load.ok => load.data \in Rally!Record
      /\ \A c \in Rally!Course : Rally!BestOf(load, c) \in {0, Seen(c)}
      /\ ~Rally!Misreads(blob) => ~misread /\ \A c \in Rally!Course : Rally!BestOf(load, c) = Seen(c)
  BY ReadFacts
<1>3. requested = [ready |-> slot.ready, dirty |-> TRUE, pending |-> record]
  BY Requests
<1>4. PICK due \in BOOLEAN : \E after \in Rally!S!Flushed(requested, due) : slot' = after.slot /\ flash' = after.flash
  BY <1>1
<1> HIDE DEF load
<1>5. /\ record \in Rally!Record /\ record[course] = t
      /\ \A c \in Rally!Course \ {course} : record[c] = Rally!BestOf(load, c)
  <2>1. Rally!Empty \in Rally!Record /\ \A c \in Rally!Course : Rally!Empty[c] = 0
    BY DEF Rally!Empty, Rally!Record
  <2> QED
    BY <1>2, <2>1 DEF Rally!Merged, Rally!BestOf, Rally!Record
<1> HIDE DEF record, requested
<1>6. \/ slot' = requested /\ flash' = flash
      \/ \E w \in Rally!S!Writes(Written(record)) : slot' = Rally!S!CleanIf(requested, w.ok) /\ flash' = w.flash
  <2>1. requested.dirty /\ requested.pending = record
    BY <1>3
  <2>2. PICK after \in Rally!S!Flushed(requested, due) : slot' = after.slot /\ flash' = after.flash
    BY <1>4
  <2>3. CASE ~due
    <3>1. after = [slot |-> requested, flash |-> flash]
      BY <2>2, <2>3 DEF Rally!S!Flushed
    <3> QED BY <2>2, <3>1
  <2>4. CASE due
    <3>1. PICK w \in Rally!S!Writes(Written(record)) :
            after = [slot |-> Rally!S!CleanIf(requested, w.ok), flash |-> w.flash]
      BY <2>1, <2>2, <2>4 DEF Rally!S!Flushed, Written
    <3> QED BY <2>2, <3>1
  <2> QED BY <2>3, <2>4
<1>7. \E dirty \in BOOLEAN :
        /\ slot' = [ready |-> slot.ready, dirty |-> dirty, pending |-> record]
        /\ \/ dirty /\ flash' = flash
           \/ dirty /\ flash' = [seen |-> Written(record), kept |-> flash.kept]
           \/ ~dirty /\ flash' = [seen |-> Written(record), kept |-> Written(record)]
  <2>1. CASE slot' = requested /\ flash' = flash
    BY <1>3, <2>1
  <2>2. ASSUME NEW w \in Rally!S!Writes(Written(record)), slot' = Rally!S!CleanIf(requested, w.ok), flash' = w.flash
        PROVE  \E dirty \in BOOLEAN :
                 /\ slot' = [ready |-> slot.ready, dirty |-> dirty, pending |-> record]
                 /\ \/ dirty /\ flash' = flash
                    \/ dirty /\ flash' = [seen |-> Written(record), kept |-> flash.kept]
                    \/ ~dirty /\ flash' = [seen |-> Written(record), kept |-> Written(record)]
    <3>1. slot' = [ready |-> slot.ready, dirty |-> ~w.ok, pending |-> record]
      BY <1>3, <2>2 DEF Rally!S!CleanIf
    <3>2. CASE w = [ok |-> TRUE, flash |-> [seen |-> Written(record), kept |-> Written(record)]]
      <4>1. w.ok = TRUE /\ w.flash = [seen |-> Written(record), kept |-> Written(record)]
        BY <3>2
      <4> QED BY <2>2, <3>1, <4>1
    <3>3. CASE w = [ok |-> FALSE, flash |-> flash]
      <4>1. w.ok = FALSE /\ w.flash = flash
        BY <3>3
      <4> QED BY <2>2, <3>1, <4>1
    <3>4. CASE w = [ok |-> FALSE, flash |-> [flash EXCEPT !.seen = Written(record)]]
      <4>1. w.ok = FALSE /\ w.flash = [seen |-> Written(record), kept |-> flash.kept]
        BY <3>4 DEF Rally!S!SaveTypeOK
      <4> QED BY <2>2, <3>1, <4>1
    <3> QED
      BY <2>2, <3>2, <3>3, <3>4 DEF Rally!S!Writes
  <2> QED
    BY <1>6, <2>1, <2>2
<1> QED
  BY <1>1, <1>2, <1>5, <1>7


----------------------------------------------------------------------------
\* Each time of a record was driven on its course.
Drove(record) == \A c \in Rally!Course : record[c] \in driven[c] \cup {0}

Known == Drove(slot.pending) /\ best \in driven[course] \cup {0}

\* As long as every read was good: what is read now is no worse than what is
\* committed, and what the game has in memory no worse than what is read.
Rising ==
  ~misread =>
    /\ \A c \in Rally!Course : Rally!NoWorse(Kept(c), Seen(c))
    /\ phase # "off" => Rally!NoWorse(Seen(course), best)

\* A race goes on until its last lap.
Unfinished == phase \in {"countdown", "racing"} => laps < TargetLaps

RallyInductive == Rally!TypeOK /\ Unfinished /\ Known /\ Rally!StoredWasDriven /\ Rally!CleanMeansKept /\ Rising

LEMMA FlashTimes ==
  ASSUME RallyConstants, Rally!TypeOK, NEW c \in Rally!Course
  PROVE  Seen(c) \in Times \cup {0} /\ Kept(c) \in Times \cup {0}
BY StoredTimes DEF Rally!TypeOK, Rally!S!SaveTypeOK, Seen, Kept

\* A save of a time that was driven, or of none, and is no worse than what the
\* storage has for the course.
LEMMA SaveKeepsRecords ==
  ASSUME RallyConstants, RallyInductive, NEW t \in Times \cup {0}, NEW force \in BOOLEAN,
         Rally!SaveRecord(t, force), course' = course, best' = t,
         driven' \in [Rally!Course -> SUBSET Times], \A c \in Rally!Course : driven[c] \subseteq driven'[c],
         t \in driven'[course] \cup {0},
         ~misread => Rally!NoWorse(Seen(course), t)
  PROVE  /\ Rally!S!SaveTypeOK'
         /\ Known' /\ Rally!StoredWasDriven' /\ Rally!CleanMeansKept' /\ Rising'
         /\ ~misread' => \A c \in Rally!Course : Rally!NoWorse(Kept(c), Kept(c)')
<1> USE DEF RallyInductive
<1>1. PICK record \in Rally!Record :
        /\ record[course] = t
        /\ \A c \in Rally!Course \ {course} : record[c] \in {0, Seen(c)}
        /\ ~misread' => ~misread /\ \A c \in Rally!Course \ {course} : record[c] = Seen(c)
        /\ \E dirty \in BOOLEAN :
             /\ slot' = [ready |-> slot.ready, dirty |-> dirty, pending |-> record]
             /\ \/ dirty /\ flash' = flash
                \/ dirty /\ flash' = [seen |-> Written(record), kept |-> flash.kept]
                \/ ~dirty /\ flash' = [seen |-> Written(record), kept |-> Written(record)]
  BY SaveFacts
<1>2. PICK dirty \in BOOLEAN :
        /\ slot' = [ready |-> slot.ready, dirty |-> dirty, pending |-> record]
        /\ \/ dirty /\ flash' = flash
           \/ dirty /\ flash' = [seen |-> Written(record), kept |-> flash.kept]
           \/ ~dirty /\ flash' = [seen |-> Written(record), kept |-> Written(record)]
  BY <1>1
<1>3. /\ flash'.seen \in {flash.seen, Written(record)} /\ flash'.kept \in {flash.kept, Written(record)}
      /\ flash' \in [seen : Rally!S!Stored, kept : Rally!S!Stored]
      /\ ~dirty => flash'.kept = Written(record)
      /\ flash'.seen = flash.seen => flash'.kept = flash.kept \/ Written(record) = flash.seen
      /\ slot'.pending = record /\ slot'.dirty = dirty /\ slot'.ready = slot.ready
      /\ slot' \in [ready : BOOLEAN, dirty : BOOLEAN, pending : Rally!Record]
  BY <1>2, WrittenFacts DEF Rally!TypeOK, Rally!S!SaveTypeOK
<1>4. course \in Rally!Course /\ \A c \in Rally!Course : Seen(c) \in Times \cup {0} /\ Kept(c) \in Times \cup {0}
  BY FlashTimes DEF Rally!TypeOK
<1>5. ASSUME NEW c \in Rally!Course PROVE Seen(c)' \in {Seen(c), record[c]} /\ Kept(c)' \in {Kept(c), record[c]}
  BY <1>3, WrittenFacts DEF Seen, Kept, Rally!TimeOf, Rally!Migrate, Rally!Empty
<1>6. Rally!S!SaveTypeOK'
  BY <1>3 DEF Rally!S!SaveTypeOK
<1>7. ASSUME NEW c \in Rally!Course
      PROVE  Seen(c) \in driven'[c] \cup {0} /\ Kept(c) \in driven'[c] \cup {0}
             /\ record[c] \in driven'[c] \cup {0}
  <2>1. Seen(c) \in driven[c] \cup {0} /\ Kept(c) \in driven[c] \cup {0}
    BY DEF Rally!StoredWasDriven, Seen, Kept
  <2> QED BY <1>1, <2>1
<1>8. Known'
  BY <1>3, <1>7 DEF Known, Drove
<1>9. Rally!StoredWasDriven'
  <2>1. ASSUME NEW c \in Rally!Course
        PROVE  Rally!TimeOf(flash.seen, c)' \in driven'[c] \cup {0} /\ Rally!TimeOf(flash.kept, c)' \in driven'[c] \cup {0}
    BY <1>5, <1>7 DEF Seen, Kept
  <2> QED BY <2>1 DEF Rally!StoredWasDriven
<1>10. Rally!CleanMeansKept'
  BY <1>3 DEF Rally!CleanMeansKept, Written
<1>12. \A c \in Rally!Course : record[c] \in Nat /\ Seen(c) \in Nat /\ Kept(c) \in Nat
  <2>1. \A u \in Times \cup {0} : u \in Nat
    BY TimesAreNumbers
  <2>2. \A c \in Rally!Course : record[c] \in Times \cup {0}
    BY DEF Rally!Record
  <2> QED BY <1>4, <2>1, <2>2
<1>11. ASSUME ~misread', NEW c \in Rally!Course
       PROVE  Rally!NoWorse(Kept(c), Seen(c)) /\ Rally!NoWorse(Seen(c), record[c])
  <2>1. Rally!NoWorse(Kept(c), Seen(c)) /\ ~misread
    BY <1>1, <1>11 DEF Rising
  <2>2. CASE c = course
    BY <1>1, <2>1, <2>2
  <2>3. CASE c # course
    <3>1. record[c] = Seen(c)
      BY <1>1, <1>11, <2>3
    <3> QED BY <1>12, <2>1, <3>1 DEF Rally!NoWorse
  <2> QED BY <2>2, <2>3
<1>13. ASSUME ~misread', NEW c \in Rally!Course
       PROVE  Rally!NoWorse(Kept(c), Kept(c)') /\ Rally!NoWorse(Kept(c)', Seen(c)') /\ Rally!NoWorse(Seen(c)', record[c])
  <2>1. flash'.seen = flash.seen => flash'.kept = flash.kept \/ Written(record) = flash.seen
    BY <1>3
  <2>2. CASE flash' = flash
    <3>1. Kept(c)' = Kept(c) /\ Seen(c)' = Seen(c)
      BY <2>2 DEF Kept, Seen, Rally!TimeOf, Rally!Migrate, Rally!Empty
    <3> QED BY <1>11, <1>12, <1>13, <3>1 DEF Rally!NoWorse
  <2>3. CASE flash'.seen = Written(record)
    <3>1. Seen(c)' = record[c] /\ Kept(c)' \in {Kept(c), record[c]}
      BY <1>5, <2>3, WrittenFacts DEF Seen, Rally!TimeOf, Rally!Migrate, Rally!Empty
    <3> QED BY <1>11, <1>12, <1>13, <3>1 DEF Rally!NoWorse
  <2> QED BY <1>2, <2>2, <2>3
<1>14. Rising'
  <2>1. ~misread' => Rally!NoWorse(Seen(course)', best')
    BY <1>1, <1>4, <1>13
  <2> QED BY <1>13, <2>1 DEF Rising
<1> QED
  BY <1>6, <1>8, <1>9, <1>10, <1>13, <1>14


LEMMA RallyInit ==
  ASSUME RallyConstants, Rally!Init
  PROVE  RallyInductive
<1> USE DEF Rally!Init
<1>1. PICK first \in {Rally!S!Missing, Rally!S!Corrupt} \cup
                   {Rally!S!Blob(1, [Rally!Empty EXCEPT ![0] = t]) : t \in Times} :
        /\ flash = [seen |-> first, kept |-> first]
        /\ driven = [c \in Rally!Course |->
                       IF first.kind = "blob" /\ first.data[c] # 0 THEN {first.data[c]} ELSE {}]
  OBVIOUS
<1>2. Rally!Empty \in Rally!Record /\ (\A c \in Rally!Course : Rally!Empty[c] = 0) /\ 0 \in Rally!Course
  BY DEF Rally!Empty, Rally!Record, Rally!Course, RallyConstants
<1>3. \A t \in Times : [Rally!Empty EXCEPT ![0] = t] \in Rally!Record
  BY <1>2 DEF Rally!Record
<1>4. first \in Rally!S!Stored
  <2>1. ASSUME NEW t \in Times PROVE Rally!S!Blob(1, [Rally!Empty EXCEPT ![0] = t]) \in Rally!S!Stored
    <3>1. ASSUME NEW d \in Rally!Record PROVE Rally!S!Blob(1, d) \in Rally!S!Stored
      BY DEF Rally!S!Stored, Rally!S!Blob, Rally!Version
    <3> QED BY <1>3, <3>1
  <2>2. Rally!S!Missing \in Rally!S!Stored /\ Rally!S!Corrupt \in Rally!S!Stored
    BY DEF Rally!S!Stored
  <2> QED BY <1>1, <2>1, <2>2
<1>5. \A c \in Rally!Course : Rally!TimeOf(first, c) \in driven[c] \cup {0}
  <2>1. CASE first.kind # "blob"
    BY <2>1 DEF Rally!TimeOf
  <2>2. CASE first.kind = "blob"
    <3>1. PICK t \in Times : first = Rally!S!Blob(1, [Rally!Empty EXCEPT ![0] = t])
      BY <1>1, <2>2 DEF Rally!S!Missing, Rally!S!Corrupt
    <3>2. first.version = 1 /\ first.data \in Rally!Record /\ first.data = [Rally!Empty EXCEPT ![0] = t]
      BY <1>3, <3>1 DEF Rally!S!Blob
    <3>3. \A c \in Rally!Course : Rally!TimeOf(first, c) \in {first.data[c], 0}
      BY <1>2, <2>2, <3>2 DEF Rally!TimeOf, Rally!Version, Rally!Migrate, Rally!Record
    <3>4. \A c \in Rally!Course : first.data[c] # 0 => first.data[c] \in driven[c]
      BY <1>1, <2>2
    <3> QED BY <3>3, <3>4
  <2> QED BY <2>1, <2>2
<1>6. \A c \in Rally!Course : driven[c] \subseteq Times
  <2>1. CASE first.kind # "blob"
    BY <1>1, <2>1
  <2>2. CASE first.kind = "blob"
    <3>1. first.data \in Rally!Record
      BY <1>4, <2>2, BlobShape
    <3> QED BY <1>1, <3>1 DEF Rally!Record
  <2> QED BY <2>1, <2>2
<1>7. Rally!S!SaveTypeOK
  BY <1>1, <1>2, <1>4 DEF Rally!S!SaveTypeOK, Rally!S!Fresh
<1>8. Rally!TypeOK
  BY <1>1, <1>2, <1>6, <1>7 DEF Rally!TypeOK, RallyConstants
<1>9. Known /\ Rally!CleanMeansKept /\ Unfinished
  BY <1>2 DEF Unfinished, Known, Drove, Rally!CleanMeansKept, Rally!S!Fresh
<1>10. Rally!StoredWasDriven
  BY <1>1, <1>5 DEF Rally!StoredWasDriven
<1>11. Rising
  <2>1. \A c \in Rally!Course : Seen(c) = Kept(c) /\ Seen(c) \in Nat
    <3>1. ASSUME NEW c \in Rally!Course PROVE Seen(c) = Kept(c) /\ Seen(c) \in Times \cup {0}
      BY <1>1, <1>4, StoredTimes DEF Seen, Kept
    <3> QED BY <3>1, TimesAreNumbers
  <2> QED BY <2>1 DEF Rising, Rally!NoWorse
<1> QED
  BY <1>8, <1>9, <1>10, <1>11 DEF RallyInductive

\* Reading the best time of a course back, on a launch or when it is selected.
LEMMA LoadKeepsRecords ==
  ASSUME RallyConstants, RallyInductive, Rally!Launch \/ (\E c \in Rally!Course : Rally!Select(c))
  PROVE  RallyInductive' /\ flash' = flash
<1> USE DEF RallyInductive, Rally!TypeOK
<1>1. PICK blob \in Rally!S!Reads :
        best' = Rally!BestOf(Rally!S!Loaded(blob, Rally!Migrate(blob)), course') /\ misread' = Rally!Misreads(blob)
  BY DEF Rally!Launch, Rally!Select
<1>2. /\ UNCHANGED <<flash, driven>> /\ course' \in Rally!Course
      /\ slot' \in {slot, Rally!S!Initialised}
      /\ phase' = "countdown" /\ flags' = {} /\ laps' = 0 /\ last' = 0
  BY DEF Rally!Launch, Rally!Select, Rally!Restarted, Rally!Course, RallyConstants
<1>3. best' \in {0, Seen(course')} /\ (~misread' => ~misread /\ best' = Seen(course'))
  BY <1>1, <1>2, ReadFacts
<1>4. Seen(course') \in Times \cup {0} /\ Seen(course') \in driven[course'] \cup {0}
  BY <1>2, FlashTimes DEF Rally!StoredWasDriven, Seen
<1>5. Rally!S!Initialised = [ready |-> TRUE, dirty |-> FALSE, pending |-> Rally!Empty] /\ Rally!Empty \in Rally!Record
  BY DEF Rally!S!Initialised, Rally!Empty, Rally!Record
<1>6. Rally!TypeOK'
  <2>1. Rally!S!SaveTypeOK'
    <3>1. slot' \in [ready : BOOLEAN, dirty : BOOLEAN, pending : Rally!Record]
      <4>1. CASE slot' = slot
        BY <4>1 DEF Rally!S!SaveTypeOK
      <4>2. CASE slot' = Rally!S!Initialised
        BY ONLY <1>5, <4>2
      <4> QED BY <1>2, <4>1, <4>2
    <3> QED
      BY <1>2, <3>1 DEF Rally!S!SaveTypeOK
  <2>2. best' \in Times \cup {0}
    BY <1>3, <1>4
  <2>3. laps' \in 0..TargetLaps
    BY <1>2 DEF RallyConstants
  <2> QED BY <1>2, <2>1, <2>2, <2>3
<1>10. Unfinished'
  BY <1>2 DEF Unfinished, RallyConstants
<1>7. Known'
  <2>1. Drove(Rally!Empty)
    BY DEF Drove, Rally!Empty
  <2> QED
    BY <1>2, <1>3, <1>4, <1>5, <2>1 DEF Known, Drove
<1>8. Rally!StoredWasDriven' /\ Rally!CleanMeansKept'
  BY <1>2, <1>5 DEF Rally!StoredWasDriven, Rally!CleanMeansKept, Rally!TimeOf, Rally!Migrate,
     Rally!Empty
<1>9. Rising'
  <2>1. \A c \in Rally!Course : Seen(c)' = Seen(c) /\ Kept(c)' = Kept(c)
    BY <1>2 DEF Seen, Kept, Rally!TimeOf, Rally!Migrate, Rally!Empty
  <2>2. ~misread' => best' = Seen(course') /\ Seen(course') \in Nat
    BY <1>3, <1>4, TimesAreNumbers
  <2>3. ~misread' => \A c \in Rally!Course : Rally!NoWorse(Kept(c)', Seen(c)')
    BY <1>3, <2>1 DEF Rising
  <2>4. Seen(course)' = Seen(course')
    BY <1>2 DEF Seen, Rally!TimeOf, Rally!Migrate, Rally!Empty
  <2> QED BY <2>2, <2>3, <2>4 DEF Rising, Rally!NoWorse
<1> QED
  BY <1>2, <1>6, <1>7, <1>8, <1>9, <1>10

\* Nothing of the records is touched.
LEMMA RaceKeepsRecords ==
  ASSUME RallyConstants, RallyInductive,
         UNCHANGED <<slot, flash, course, best, driven, misread>>,
         phase # "off" \/ phase' = "off",
         phase' \in {"off", "countdown", "racing", "over"},
         flags' \subseteq {"LAP", "FINISH"}, laps' \in 0..TargetLaps, last' \in Times \cup {0},
         Unfinished'
  PROVE  RallyInductive'
<1> USE DEF RallyInductive, Rally!TypeOK
<1>1. Rally!TypeOK'
  BY DEF Rally!S!SaveTypeOK
<1>2. Known' /\ Rally!StoredWasDriven' /\ Rally!CleanMeansKept'
  BY DEF Known, Drove, Rally!StoredWasDriven, Rally!CleanMeansKept, Rally!TimeOf, Rally!Migrate,
     Rally!Empty
<1>3. Rising'
  BY DEF Rising, Kept, Seen, Rally!TimeOf, Rally!Migrate, Rally!Empty
<1> QED
  BY <1>1, <1>2, <1>3


LEMMA PowerLossKeepsRecords ==
  ASSUME RallyConstants, RallyInductive, Rally!PowerLoss
  PROVE  RallyInductive' /\ (~misread' => \A c \in Rally!Course : Rally!NoWorse(Kept(c), Kept(c)'))
<1> USE DEF RallyInductive, Rally!TypeOK
<1>1. /\ phase' = "off" /\ slot' = Rally!S!Fresh
      /\ UNCHANGED <<flags, laps, last, course, best, driven, misread>>
  BY DEF Rally!PowerLoss
<1>2. PICK b \in {flash.seen, flash.kept} : flash' = [seen |-> b, kept |-> b]
  BY DEF Rally!PowerLoss
<1>3. Rally!S!Fresh = [ready |-> FALSE, dirty |-> FALSE, pending |-> Rally!Empty] /\ Rally!Empty \in Rally!Record
  BY DEF Rally!S!Fresh, Rally!Empty, Rally!Record
<1>4. b \in Rally!S!Stored
  BY DEF Rally!S!SaveTypeOK
<1>5. Rally!TypeOK'
  BY <1>1, <1>2, <1>3, <1>4 DEF Rally!S!SaveTypeOK
<1>6. Known' /\ Rally!CleanMeansKept' /\ Unfinished'
  BY <1>1, <1>3 DEF Unfinished, Known, Drove, Rally!CleanMeansKept, Rally!Empty
<1>7. ASSUME NEW c \in Rally!Course
      PROVE  /\ Seen(c)' = Kept(c)' /\ Kept(c)' \in {Kept(c), Seen(c)}
             /\ Kept(c) \in Nat /\ Seen(c) \in Nat
             /\ Rally!TimeOf(b, c) \in driven[c] \cup {0}
  <2>1. Seen(c)' = Rally!TimeOf(b, c) /\ Kept(c)' = Rally!TimeOf(b, c)
    BY <1>2 DEF Seen, Kept, Rally!TimeOf, Rally!Migrate, Rally!Empty
  <2>2. Rally!TimeOf(b, c) \in {Kept(c), Seen(c)}
    BY <1>2 DEF Seen, Kept
  <2>3. Kept(c) \in Nat /\ Seen(c) \in Nat
    BY FlashTimes, TimesAreNumbers
  <2>4. Rally!TimeOf(b, c) \in driven[c] \cup {0}
    BY DEF Rally!StoredWasDriven
  <2> QED BY <2>1, <2>2, <2>3, <2>4
<1>8. Rally!StoredWasDriven'
  <2>1. ASSUME NEW c \in Rally!Course
        PROVE  Rally!TimeOf(flash'.seen, c) \in driven'[c] \cup {0} /\ Rally!TimeOf(flash'.kept, c) \in driven'[c] \cup {0}
    BY <1>1, <1>2, <1>7
  <2> QED BY <2>1 DEF Rally!StoredWasDriven, Rally!TimeOf, Rally!Migrate, Rally!Empty
<1>9. ASSUME ~misread', NEW c \in Rally!Course PROVE Rally!NoWorse(Kept(c), Kept(c)')
  BY <1>1, <1>7, <1>9 DEF Rising, Rally!NoWorse
<1>10. Rising'
  BY <1>1, <1>7 DEF Rising, Rally!NoWorse
<1> QED
  BY <1>5, <1>6, <1>8, <1>9, <1>10

LEMMA StepKeepsRecords ==
  ASSUME RallyConstants, RallyInductive, [Rally!Next]_Rally!vars
  PROVE  RallyInductive' /\ (~misread' => \A c \in Rally!Course : Rally!NoWorse(Kept(c), Kept(c)'))
<1> USE DEF RallyInductive, Rally!TypeOK
<1>1. ASSUME flash' = flash, NEW c \in Rally!Course PROVE Rally!NoWorse(Kept(c), Kept(c)')
  <2>1. Kept(c)' = Kept(c)
    BY <1>1 DEF Kept, Rally!TimeOf, Rally!Migrate, Rally!Empty
  <2>2. Kept(c) \in Nat
    BY FlashTimes, TimesAreNumbers
  <2> QED BY <2>1, <2>2 DEF Rally!NoWorse
<1>2. CASE Rally!Launch \/ \E c \in Rally!Course : Rally!Select(c)
  BY <1>1, <1>2, LoadKeepsRecords
<1>3. CASE Rally!Tick \/ Rally!Reset \/ UNCHANGED Rally!vars
  <2>1. UNCHANGED <<slot, flash, course, best, driven, misread>>
    BY <1>3 DEF Rally!Tick, Rally!Reset, Rally!vars
  <2>2. 0 \in 0..TargetLaps /\ 0 < TargetLaps
    BY DEF RallyConstants
  <2>3. /\ phase # "off" \/ phase' = "off"
        /\ phase' \in {"off", "countdown", "racing", "over"}
        /\ flags' \subseteq {"LAP", "FINISH"} /\ laps' \in 0..TargetLaps /\ last' \in Times \cup {0}
        /\ Unfinished'
    <3>1. CASE Rally!Tick
      BY <3>1 DEF Rally!Tick, Unfinished
    <3>2. CASE Rally!Reset
      BY <2>2, <3>2 DEF Rally!Reset, Rally!Restarted, Unfinished
    <3>3. CASE UNCHANGED Rally!vars
      BY <3>3 DEF Rally!vars, Unfinished
    <3> QED BY <1>3, <3>1, <3>2, <3>3
  <2> QED BY <1>1, <2>1, <2>3, RaceKeepsRecords
<1>4. ASSUME NEW t \in Times, Rally!Lap(t)
      PROVE  RallyInductive' /\ (~misread' => \A c \in Rally!Course : Rally!NoWorse(Kept(c), Kept(c)'))
  <2>1. /\ phase = "racing" /\ laps' = laps + 1 /\ last' = t /\ course' = course
        /\ phase' \in (IF laps' = TargetLaps THEN {"over"} ELSE {"racing", "over"})
        /\ flags' = {"LAP"} \cup (IF laps' = TargetLaps THEN {"FINISH"} ELSE {})
        /\ best' = Rally!Better(t) /\ driven' = [driven EXCEPT ![course] = @ \cup {t}]
        /\ Rally!SaveRecord(Rally!Better(t), "FINISH" \in flags')
    BY <1>4 DEF Rally!Lap
  <2>2. /\ Rally!Better(t) \in {best, t} /\ Rally!Better(t) \in Times \cup {0}
    BY DEF Rally!Better
  <2>3. /\ driven' \in [Rally!Course -> SUBSET Times] /\ \A c \in Rally!Course : driven[c] \subseteq driven'[c]
        /\ driven'[course] = driven[course] \cup {t}
    BY <2>1
  <2>4. Rally!Better(t) \in driven'[course] \cup {0}
    BY <2>2, <2>3 DEF Known
  <2>5. ASSUME ~misread PROVE Rally!NoWorse(Seen(course), Rally!Better(t))
    <3>1. Rally!NoWorse(Seen(course), best) /\ Seen(course) \in Nat /\ best \in Nat /\ t \in Nat \ {0}
      BY <2>1, <2>5, FlashTimes, TimesAreNumbers DEF Rising, RallyConstants
    <3> QED BY <3>1 DEF Rally!NoWorse, Rally!Better
  <2>6. /\ Rally!S!SaveTypeOK' /\ Known' /\ Rally!StoredWasDriven' /\ Rally!CleanMeansKept' /\ Rising'
        /\ ~misread' => \A c \in Rally!Course : Rally!NoWorse(Kept(c), Kept(c)')
    <3> HIDE DEF Rally!TypeOK, RallyInductive
    <3>1. ("FINISH" \in flags') \in BOOLEAN
      OBVIOUS
    <3> QED BY <2>1, <2>2, <2>3, <2>4, <2>5, <3>1, SaveKeepsRecords
  <2>7. laps' \in 0..TargetLaps /\ Unfinished'
    BY <2>1 DEF Unfinished, RallyConstants
  <2>8. Rally!TypeOK'
    BY <2>1, <2>2, <2>3, <2>6, <2>7
  <2> QED BY <2>6, <2>7, <2>8
<1>5. CASE Rally!LapAgain \/ Rally!Shutdown
  <2>1. PICK force \in BOOLEAN : Rally!SaveRecord(best, force)
    <3>1. CASE Rally!LapAgain
      <4>1. Rally!SaveRecord(best, "FINISH" \in flags) /\ ("FINISH" \in flags) \in BOOLEAN
        BY <3>1 DEF Rally!LapAgain
      <4> QED BY <4>1
    <3>2. CASE Rally!Shutdown
      <4>1. Rally!SaveRecord(best, TRUE)
        BY <3>2 DEF Rally!Shutdown
      <4> QED BY <4>1
    <3> QED BY <1>5, <3>1, <3>2
  <2>2. /\ UNCHANGED <<flags, laps, course, best, driven>> /\ last' \in {last, 0}
        /\ phase' \in {"over", "off"} /\ phase # "off"
    BY <1>5 DEF Rally!LapAgain, Rally!Shutdown
  <2>3. best \in driven'[course] \cup {0} /\ (~misread => Rally!NoWorse(Seen(course), best))
    BY <2>2 DEF Known, Rising
  <2>4. driven' \in [Rally!Course -> SUBSET Times] /\ \A c \in Rally!Course : driven[c] \subseteq driven'[c]
    BY <2>2
  <2>5. /\ Rally!S!SaveTypeOK' /\ Known' /\ Rally!StoredWasDriven' /\ Rally!CleanMeansKept' /\ Rising'
        /\ ~misread' => \A c \in Rally!Course : Rally!NoWorse(Kept(c), Kept(c)')
    <3>1. best \in Times \cup {0}
      OBVIOUS
    <3> HIDE DEF Rally!TypeOK, RallyInductive
    <3> QED BY <2>1, <2>2, <2>3, <2>4, <3>1, SaveKeepsRecords
  <2>6. Unfinished'
    BY <2>2 DEF Unfinished
  <2>7. Rally!TypeOK'
    BY <2>2, <2>5
  <2> QED BY <2>5, <2>6, <2>7
<1>7. CASE Rally!PowerLoss
  BY <1>7, PowerLossKeepsRecords
<1> QED
  BY <1>2, <1>3, <1>4, <1>5, <1>7 DEF Rally!Next

\* A stored time was driven, a clean slot has stored what was requested, and
\* no record gets worse as long as every read was good.
THEOREM RecordsHold ==
  RallyConstants =>
    (Rally!Spec => [](Rally!TypeOK /\ Rally!StoredWasDriven /\ Rally!CleanMeansKept) /\ [][Rally!RecordsImprove]_Rally!vars)
<1> SUFFICES ASSUME RallyConstants
             PROVE  Rally!Spec => [](Rally!TypeOK /\ Rally!StoredWasDriven /\ Rally!CleanMeansKept)
                                  /\ [][Rally!RecordsImprove]_Rally!vars
  OBVIOUS
<1>1. Rally!Init => RallyInductive
  BY RallyInit
<1>2. RallyInductive /\ [Rally!Next]_Rally!vars => RallyInductive'
  BY StepKeepsRecords
<1>3. RallyInductive /\ [Rally!Next]_Rally!vars => [Rally!RecordsImprove]_Rally!vars
  <2> SUFFICES ASSUME RallyInductive, [Rally!Next]_Rally!vars PROVE Rally!RecordsImprove
    OBVIOUS
  <2>1. ~misread' => \A c \in Rally!Course : Rally!NoWorse(Kept(c), Kept(c)')
    BY StepKeepsRecords
  <2> QED
    BY <2>1 DEF Rally!RecordsImprove, Kept, Rally!TimeOf, Rally!Migrate, Rally!Empty
<1>4. RallyInductive => Rally!TypeOK /\ Rally!StoredWasDriven /\ Rally!CleanMeansKept
  BY DEF RallyInductive
<1> QED
  BY <1>1, <1>2, <1>3, <1>4, PTL DEF Rally!Spec

(***************************************************************************)
(* A mission of Last Zone                                                  *)
(***************************************************************************)

HostileType ==
  [hp : Nat, state : {"patrol", "alert", "search", "engage"}, alert : 0 .. AlertTicks,
   search : 0 .. SearchTicks + 1, aim : 0 .. AimTicks]

HostileTypes ==
  /\ enemies \in [1 .. Enemies -> HostileType] /\ watched \in [1 .. Enemies -> 0 .. AimTicks + 1]
  /\ turn \in 0 .. Enemies + 1 /\ (turn # 0 => missionPhase = "playing")

\* A hostile that aims has watched for as long as its aim has run.
AimsAreWatched ==
  /\ \A i \in 1 .. Enemies : enemies[i].aim > 0 => watched[i] + enemies[i].aim > AimTicks
  /\ fair = TRUE

MissionCounts ==
  /\ kills \in Int /\ health \in Nat /\ Mission!MissionAccounted

\* What a hostile makes of what it notices: its health stays, and it keeps or
\* loses its aim.
LEMMA Noticing ==
  ASSUME ZoneConstants, NEW e \in HostileType, NEW i \in 1 .. Enemies, NEW n \in Mission!Notices
  PROVE  LET c == Mission!CountDown(Mission!Notice(Mission!Hunt(e, i), n))
         IN  c \in HostileType /\ c.hp = e.hp /\ c.aim \in {e.aim, 0}
<1> DEFINE h == Mission!Hunt(e, i)
           m == Mission!Notice(h, n)
<1>a. \A x \in HostileType, s \in {"patrol", "alert", "search", "engage"} :
        /\ [x EXCEPT !.state = s] \in HostileType
        /\ [x EXCEPT !.state = s].hp = x.hp /\ [x EXCEPT !.state = s].aim = x.aim
  BY DEF HostileType
<1>b. \A x \in HostileType, z \in 0 .. AlertTicks :
        /\ [x EXCEPT !.alert = z] \in HostileType
        /\ [x EXCEPT !.alert = z].hp = x.hp /\ [x EXCEPT !.alert = z].aim = x.aim
  BY DEF HostileType
<1>c. \A x \in HostileType, z \in 0 .. SearchTicks + 1 :
        /\ [x EXCEPT !.search = z] \in HostileType
        /\ [x EXCEPT !.search = z].hp = x.hp /\ [x EXCEPT !.search = z].aim = x.aim
  BY DEF HostileType
<1>d. \A x \in HostileType :
        [x EXCEPT !.aim = 0] \in HostileType /\ [x EXCEPT !.aim = 0].hp = x.hp /\ [x EXCEPT !.aim = 0].aim = 0
  BY DEF HostileType, ZoneConstants
<1>n. /\ AlertTicks \in 0 .. AlertTicks /\ AlertTicks \in Nat /\ SearchTicks \in Nat
      /\ SearchTicks \in 0 .. SearchTicks + 1 /\ SearchTicks + 1 \in 0 .. SearchTicks + 1
  BY DEF ZoneConstants
<1>1. h \in HostileType /\ h.hp = e.hp /\ h.aim = e.aim
  <2> DEFINE u == [e EXCEPT !.state = "search"]
  <2>1. u \in HostileType /\ u.hp = e.hp /\ u.aim = e.aim
    BY <1>a, <1>b, <1>c, <1>d
  <2>2. [u EXCEPT !.search = SearchTicks + 1] = [e EXCEPT !.state = "search", !.search = SearchTicks + 1]
    OBVIOUS
  <2>3. h \in {e, [u EXCEPT !.search = SearchTicks + 1]}
    BY <2>2 DEF Mission!Hunt
  <2> HIDE DEF u, h
  <2>4. /\ [u EXCEPT !.search = SearchTicks + 1] \in HostileType
        /\ [u EXCEPT !.search = SearchTicks + 1].hp = u.hp /\ [u EXCEPT !.search = SearchTicks + 1].aim = u.aim
    BY ONLY <1>c, <1>n, <2>1
  <2> QED
    BY <2>1, <2>3, <2>4
<1>2. m \in HostileType /\ m.hp = h.hp /\ m.aim \in {h.aim, 0}
  <2> HIDE DEF h
  <2> QED
    <3> DEFINE spotted == [h EXCEPT !.search = SearchTicks]
               gone == [h EXCEPT !.state = "search"]
               roused == [spotted EXCEPT !.state = "alert"]
    <3>1. /\ spotted \in HostileType /\ spotted.hp = h.hp /\ spotted.aim = h.aim
          /\ gone \in HostileType /\ gone.hp = h.hp
      BY <1>a, <1>b, <1>c, <1>d, <1>n, <1>1
    <3>2. m \in {h, spotted, [gone EXCEPT !.aim = 0], [roused EXCEPT !.alert = AlertTicks]}
      BY DEF Mission!Notice, Mission!Alerted
    <3> HIDE DEF spotted, gone, m
    <3>3. roused \in HostileType /\ roused.hp = h.hp /\ roused.aim = h.aim
      BY <1>a, <1>b, <1>c, <1>d, <3>1
    <3> HIDE DEF roused
    <3>4. /\ [roused EXCEPT !.alert = AlertTicks] \in HostileType
          /\ [roused EXCEPT !.alert = AlertTicks].hp = roused.hp /\ [roused EXCEPT !.alert = AlertTicks].aim = roused.aim
      BY ONLY <1>b, <1>n, <3>3
    <3>5. /\ [gone EXCEPT !.aim = 0] \in HostileType /\ [gone EXCEPT !.aim = 0].hp = gone.hp
          /\ [gone EXCEPT !.aim = 0].aim = 0
      BY ONLY <1>d, <3>1
    <3> QED
      BY <1>1, <3>1, <3>2, <3>3, <3>4, <3>5
<1>3. Mission!CountDown(m) \in HostileType /\ Mission!CountDown(m).hp = m.hp /\ Mission!CountDown(m).aim = m.aim
  <2> HIDE DEF m
  <2> QED
    <3>1. m.alert \in 0 .. AlertTicks /\ m.search \in 0 .. SearchTicks + 1
      BY <1>2 DEF HostileType
    <3>2. \/ Mission!CountDown(m) \in {m, [m EXCEPT !.state = "engage"], [m EXCEPT !.state = "patrol"]}
          \/ m.alert > 0 /\ Mission!CountDown(m) = [m EXCEPT !.alert = m.alert - 1]
          \/ m.search > 0 /\ Mission!CountDown(m) = [m EXCEPT !.search = m.search - 1]
      BY DEF Mission!CountDown
    <3>3. \A s \in {"patrol", "alert", "search", "engage"} : /\ [m EXCEPT !.state = s] \in HostileType
            /\ [m EXCEPT !.state = s].hp = m.hp /\ [m EXCEPT !.state = s].aim = m.aim
      BY ONLY <1>a, <1>2
    <3>4. \A z \in 0 .. AlertTicks : /\ [m EXCEPT !.alert = z] \in HostileType
            /\ [m EXCEPT !.alert = z].hp = m.hp /\ [m EXCEPT !.alert = z].aim = m.aim
      BY ONLY <1>b, <1>2
    <3>5. \A z \in 0 .. SearchTicks + 1 : /\ [m EXCEPT !.search = z] \in HostileType
            /\ [m EXCEPT !.search = z].hp = m.hp /\ [m EXCEPT !.search = z].aim = m.aim
      BY ONLY <1>c, <1>2
    <3>6. /\ m.alert > 0 => m.alert - 1 \in 0 .. AlertTicks
          /\ m.search > 0 => m.search - 1 \in 0 .. SearchTicks + 1
      BY <1>n, <3>1
    <3> QED
      BY <1>2, <3>2, <3>3, <3>4, <3>5, <3>6
<1> QED
  BY <1>1, <1>2, <1>3

\* The aim of a hostile, and that only one who has watched long enough shoots.
LEMMA Aiming ==
  ASSUME ZoneConstants, NEW e \in HostileType, NEW n \in Mission!Notices, NEW w \in 0 .. AimTicks + 1,
         e.aim > 0 => w + e.aim > AimTicks
  PROVE  LET v == IF ~Mission!InRange(n) THEN 0 ELSE IF w <= AimTicks THEN w + 1 ELSE w
             a == Mission!Aim(e, n)
         IN  /\ a \in HostileType /\ a.hp = e.hp /\ v \in 0 .. AimTicks + 1
             /\ a.aim > 0 => v + a.aim > AimTicks
             /\ Mission!Shoots(e, n) => v > AimTicks
<1> DEFINE v == IF ~Mission!InRange(n) THEN 0 ELSE IF w <= AimTicks THEN w + 1 ELSE w
           a == Mission!Aim(e, n)
<1>1. AimTicks \in Nat /\ e.aim \in 0 .. AimTicks /\ v \in 0 .. AimTicks + 1
  BY DEF ZoneConstants, HostileType
<1>2. \A k \in 0 .. AimTicks : [e EXCEPT !.aim = k] \in HostileType /\ [e EXCEPT !.aim = k].aim = k
                                 /\ [e EXCEPT !.aim = k].hp = e.hp
  BY DEF HostileType
<1>3. Mission!Takes(e, n) => Mission!InRange(n) /\ e.state = "engage"
  BY DEF Mission!Takes, Mission!Ready, Mission!InRange
<1>4. Mission!InRange(n) => v >= w /\ v >= 1 /\ (w <= AimTicks => v = w + 1) /\ (w > AimTicks => v > AimTicks)
  BY <1>1
<1>5. Mission!Shoots(e, n) => v > AimTicks
  BY <1>1, <1>3, <1>4 DEF Mission!Shoots
<1>6. CASE e.state # "engage" \/ ~Mission!InRange(n)
  <2>1. a = [e EXCEPT !.aim = 0]
    BY <1>6 DEF Mission!Aim
  <2> QED
    BY <1>1, <1>2, <1>5, <2>1
<1>7. CASE e.state = "engage" /\ Mission!InRange(n) /\ ~Mission!Takes(e, n)
  <2>1. a = e
    BY <1>7 DEF Mission!Aim
  <2>2. e.aim > 0 => v + e.aim > AimTicks
    BY <1>1, <1>4, <1>7
  <2> QED
    BY <1>1, <1>5, <2>1, <2>2
<1>8. CASE Mission!Takes(e, n) /\ e.aim = 0
  <2>1. a = [e EXCEPT !.aim = AimTicks]
    BY <1>3, <1>8 DEF Mission!Aim
  <2> QED
    BY <1>1, <1>2, <1>3, <1>4, <1>5, <1>8, <2>1
<1>9. CASE Mission!Takes(e, n) /\ e.aim # 0
  <2>1. a = [e EXCEPT !.aim = e.aim - 1] /\ e.aim - 1 \in 0 .. AimTicks
    BY <1>1, <1>3, <1>9 DEF Mission!Aim
  <2>2. v + (e.aim - 1) > AimTicks
    BY <1>1, <1>3, <1>4, <1>9
  <2> QED
    BY <1>1, <1>2, <1>5, <2>1, <2>2
<1> QED
  BY <1>6, <1>7, <1>8, <1>9

\* A wound ends the tick only by killing the player.
LEMMA Wounding ==
  ASSUME ZoneConstants, HostileTypes, MissionCounts, turn # 0, NEW shot \in BOOLEAN, NEW bitten \in BOOLEAN,
         Mission!Hurt(shot, bitten)
  PROVE  missionPhase' \in {"playing", "dead"} /\ health' \in Nat /\ (missionPhase' = "dead" <=> health' = 0)
<1>1. missionPhase = "playing" /\ health \in Nat /\ health # 0
  <2>1. missionPhase = "playing" /\ health \in Nat /\ (missionPhase = "dead" <=> health = 0)
    BY DEF HostileTypes, MissionCounts, Mission!MissionAccounted
  <2> QED
    BY <2>1
<1>2. Mission!Less(health) \in Nat
  BY <1>1 DEF Mission!Less
<1>3. CASE ~shot /\ ~bitten
  BY <1>1, <1>3 DEF Mission!Hurt
<1>4. CASE shot \/ bitten
  <2>1. health' \in {health, Mission!Less(health)} /\ missionPhase' = IF health' = 0 THEN "dead" ELSE missionPhase
    BY <1>4 DEF Mission!Hurt
  <2> QED
    BY <1>1, <1>2, <2>1
<1> QED
  BY <1>3, <1>4

LEMMA Standing ==
  ASSUME HostileTypes, ZoneConstants
  PROVE  /\ Mission!Active \subseteq 1 .. Enemies /\ IsFiniteSet(Mission!Active) /\ IsFiniteSet(1 .. Enemies)
         /\ Cardinality(1 .. Enemies) = Enemies /\ Cardinality(Mission!Active) \in Nat
         /\ \A S : Mission!Cardinality(S) = Cardinality(S)
<1>1. Enemies \in Nat /\ Enemies \in Int /\ 1 \in Int
  BY DEF ZoneConstants
<1>2. IsFiniteSet(1 .. Enemies) /\ Cardinality(1 .. Enemies) = Enemies
  <2>1. IsFiniteSet(1 .. Enemies)
    BY <1>1, FS_Interval, Zenon
  <2>2. Cardinality(1 .. Enemies) = IF 1 > Enemies THEN 0 ELSE Enemies - 1 + 1
    BY <1>1, FS_Interval, Zenon
  <2> QED
    BY <1>1, <2>1, <2>2
<1>3. Mission!Active \subseteq 1 .. Enemies
  BY DEF Mission!Active, Mission!Hostiles
<1>4. IsFiniteSet(Mission!Active) /\ Cardinality(Mission!Active) \in Nat
  BY <1>2, <1>3, FS_Subset, FS_CardinalityType
<1>5. \A S : Mission!Cardinality(S) = Cardinality(S)
  BY DEF Mission!Cardinality, Cardinality
<1> QED
  BY <1>2, <1>3, <1>4, <1>5

\* A shot wounds or kills standing hostiles, each of which is counted; nobody's
\* aim is moved by it.
LEMMA ShotCounts ==
  ASSUME ZoneConstants, HostileTypes, NEW hit \in SUBSET Mission!Active, NEW wound \in Nat, NEW blast, NEW near,
         kills \in Int, Mission!Shoot(hit, wound, blast, near)
  PROVE  /\ enemies' \in [1 .. Enemies -> HostileType] /\ kills' \in Int
         /\ \A i \in 1 .. Enemies : /\ enemies'[i].aim = enemies[i].aim
                                    /\ enemies'[i].hp = IF i \in hit THEN wound ELSE enemies[i].hp
         /\ kills' + Cardinality(Mission!Active') = kills + Cardinality(Mission!Active)
<1> DEFINE left == [i \in 1 .. Enemies |-> IF i \in hit THEN [enemies[i] EXCEPT !.hp = wound] ELSE enemies[i]]
<1>1. /\ kills' = kills + (IF wound = 0 THEN Cardinality(hit) ELSE 0)
      /\ enemies' = [i \in 1 .. Enemies |-> IF i \in near /\ left[i].hp > 0 THEN Mission!Heard(left[i]) ELSE left[i]]
  BY Standing DEF Mission!Shoot, Mission!Hostiles
<1>2. \A i \in 1 .. Enemies : /\ left[i] \in HostileType /\ left[i].aim = enemies[i].aim
                             /\ left[i].hp = IF i \in hit THEN wound ELSE enemies[i].hp
  <2> SUFFICES ASSUME NEW i \in 1 .. Enemies
               PROVE  /\ left[i] \in HostileType /\ left[i].aim = enemies[i].aim
                      /\ left[i].hp = IF i \in hit THEN wound ELSE enemies[i].hp
    OBVIOUS
  <2>1. enemies[i] \in HostileType
    BY DEF HostileTypes
  <2>2. /\ [enemies[i] EXCEPT !.hp = wound] \in HostileType /\ [enemies[i] EXCEPT !.hp = wound].hp = wound
        /\ [enemies[i] EXCEPT !.hp = wound].aim = enemies[i].aim
    BY <2>1 DEF HostileType
  <2>3. left[i] = IF i \in hit THEN [enemies[i] EXCEPT !.hp = wound] ELSE enemies[i]
    OBVIOUS
  <2> HIDE DEF left
  <2> QED
    BY <2>1, <2>2, <2>3
<1>3. \A e \in HostileType : Mission!Heard(e) \in HostileType /\ Mission!Heard(e).aim = e.aim /\ Mission!Heard(e).hp = e.hp
  <2> SUFFICES ASSUME NEW e \in HostileType
               PROVE  Mission!Heard(e) \in HostileType /\ Mission!Heard(e).aim = e.aim /\ Mission!Heard(e).hp = e.hp
    OBVIOUS
  <2> DEFINE s == [e EXCEPT !.search = SearchTicks]
             a == [s EXCEPT !.state = "alert"]
  <2>1. s \in HostileType /\ s.aim = e.aim /\ s.hp = e.hp
    BY DEF HostileType, ZoneConstants
  <2> HIDE DEF s
  <2>2. a \in HostileType /\ a.aim = e.aim /\ a.hp = e.hp
    BY <2>1 DEF HostileType
  <2> HIDE DEF a
  <2>3. /\ [a EXCEPT !.alert = AlertTicks] \in HostileType /\ [a EXCEPT !.alert = AlertTicks].aim = e.aim
        /\ [a EXCEPT !.alert = AlertTicks].hp = e.hp
    BY <2>2 DEF HostileType, ZoneConstants
  <2>4. Mission!Heard(e) \in {s, [a EXCEPT !.alert = AlertTicks]}
    BY DEF Mission!Heard, Mission!Alerted, s, a
  <2> QED
    BY <2>1, <2>3, <2>4
<1> HIDE DEF left
<1>4. \A i \in 1 .. Enemies : /\ enemies'[i] \in HostileType /\ enemies'[i].aim = enemies[i].aim
                             /\ enemies'[i].hp = left[i].hp
  BY <1>1, <1>2, <1>3
<1>5. enemies' \in [1 .. Enemies -> HostileType]
  BY <1>1, <1>4
<1>6. Mission!Active' = IF wound = 0 THEN Mission!Active \ hit ELSE Mission!Active
  BY <1>2, <1>4 DEF Mission!Active, Mission!Hostiles
<1>7. IsFiniteSet(hit) /\ Cardinality(hit) \in Nat /\ Cardinality(Mission!Active) \in Nat
  BY Standing, FS_Subset, FS_CardinalityType
<1>8. Cardinality(Mission!Active \ hit) = Cardinality(Mission!Active) - Cardinality(hit)
  <2>1. Mission!Active \cap hit = hit
    OBVIOUS
  <2>2. Cardinality(Mission!Active \ hit) = Cardinality(Mission!Active) - Cardinality(Mission!Active \cap hit)
    BY Standing, FS_Difference
  <2> QED
    BY <2>1, <2>2
<1>9. kills' \in Int /\ kills' + Cardinality(Mission!Active') = kills + Cardinality(Mission!Active)
  BY <1>1, <1>6, <1>7, <1>8
<1> QED
  BY <1>2, <1>4, <1>5, <1>9

MissionInductive == HostileTypes /\ AimsAreWatched /\ MissionCounts

LEMMA PlayerKeepsMission ==
  ASSUME ZoneConstants, MissionInductive, Mission!Player
  PROVE  MissionInductive'
<1>1. missionPhase' = "playing" /\ missionPhase = "playing" /\ turn' = 1 /\ watched' = watched /\ fair' = fair
  BY DEF Mission!Player
<1>2. /\ enemies' \in [1 .. Enemies -> HostileType] /\ kills' \in Int
      /\ \A i \in 1 .. Enemies : enemies'[i].aim = enemies[i].aim
      /\ kills' + Cardinality(Mission!Active') = kills + Cardinality(Mission!Active)
  <2>1. CASE Mission!HoldFire
    BY <2>1 DEF Mission!HoldFire, MissionInductive, HostileTypes, MissionCounts, Mission!Active,
       Mission!Hostiles
  <2>2. ASSUME NEW near \in SUBSET Mission!Active, Mission!FireAtWall(near)
        PROVE  <1>2
    BY <2>2, ShotCounts DEF Mission!FireAtWall, MissionInductive, MissionCounts
  <2>3. ASSUME NEW near \in SUBSET Mission!Active, Mission!FireAtHostile(near)
        PROVE  <1>2
    <3>1. PICK i \in Mission!Active : Mission!Shoot({i}, enemies[i].hp - 1, 0, near)
      BY <2>3 DEF Mission!FireAtHostile
    <3>2. enemies[i].hp - 1 \in Nat
      BY DEF MissionInductive, HostileTypes, HostileType, Mission!Active, Mission!Hostiles
    <3> QED
      BY <3>1, <3>2, ShotCounts DEF MissionInductive, MissionCounts
  <2>4. ASSUME NEW near \in SUBSET Mission!Active, Mission!FireAtBarrel(near)
        PROVE  <1>2
    <3>1. PICK S \in SUBSET Mission!Active : Mission!Shoot(S, 0, 1, near)
      BY <2>4 DEF Mission!FireAtBarrel
    <3> QED
      BY <3>1, ShotCounts DEF MissionInductive, MissionCounts
  <2> QED
    BY <2>1, <2>2, <2>3, <2>4 DEF Mission!Player
<1>3. health' \in Nat /\ health' # 0
  <2>1. PICK got \in SUBSET supplies : Mission!Collect(got)
    BY DEF Mission!Player
  <2>2. health \in Nat /\ health # 0
    <3>1. health \in Nat /\ (missionPhase = "dead" <=> health = 0)
      BY DEF MissionInductive, MissionCounts, Mission!MissionAccounted
    <3> QED
      BY <1>1, <3>1
  <2> QED
    BY <2>1, <2>2 DEF Mission!Collect
<1>4. kills + Cardinality(Mission!Active) = Enemies
  BY Standing DEF MissionInductive, MissionCounts, Mission!MissionAccounted
<1>5. MissionCounts'
  <2>1. kills' + Mission!Cardinality(Mission!Active') = Enemies
    BY <1>2, <1>4, Standing DEF MissionInductive
  <2> QED
    BY <1>1, <1>2, <1>3, <2>1 DEF MissionCounts, Mission!MissionAccounted
<1>6. HostileTypes' /\ AimsAreWatched'
  <2>1. HostileTypes'
    BY <1>1, <1>2 DEF MissionInductive, HostileTypes, ZoneConstants
  <2>2. AimsAreWatched'
    BY <1>1, <1>2 DEF MissionInductive, AimsAreWatched
  <2> QED
    BY <2>1, <2>2
<1> QED
  BY <1>5, <1>6 DEF MissionInductive

LEMMA TurnKeepsMission ==
  ASSUME ZoneConstants, MissionInductive, Mission!Turn
  PROVE  MissionInductive'
<1>1. turn \in 1 .. Enemies /\ missionPhase = "playing" /\ health \in Nat /\ health # 0 /\ Enemies \in Nat
  <2>1. /\ turn \in 1 .. Enemies /\ (turn # 0 => missionPhase = "playing") /\ health \in Nat /\ (missionPhase = "dead" <=> health = 0)
    BY DEF Mission!Turn, Mission!Hostiles, MissionInductive, HostileTypes, MissionCounts,
       Mission!MissionAccounted
  <2> QED
    BY <2>1 DEF ZoneConstants
<1>2. ASSUME NEW n \in Mission!Notices, Mission!Act(turn, n)
      PROVE  MissionInductive'
  <2> DEFINE e == Mission!CountDown(Mission!Notice(Mission!Hunt(enemies[turn], turn), n))
             w == watched[turn]
             v == IF ~Mission!InRange(n) THEN 0 ELSE IF w <= AimTicks THEN w + 1 ELSE w
             a == Mission!Aim(e, n)
  <2>1. /\ enemies[turn] \in HostileType /\ w \in 0 .. AimTicks + 1 /\ AimTicks \in Nat
        /\ enemies[turn].aim > 0 => w + enemies[turn].aim > AimTicks
    BY <1>1 DEF MissionInductive, HostileTypes, AimsAreWatched, ZoneConstants
  <2>2. e \in HostileType /\ e.hp = enemies[turn].hp /\ e.aim \in {enemies[turn].aim, 0}
    BY <1>1, <2>1, Noticing
  <2>3. /\ enemies' = [enemies EXCEPT ![turn] = a] /\ watched' = [watched EXCEPT ![turn] = v]
        /\ fair' = (fair /\ (Mission!Shoots(e, n) => watched'[turn] > AimTicks))
        /\ Mission!Hurt(Mission!Shoots(e, n), n = "touches" /\ aimLock = 0)
        /\ turn' = (IF missionPhase' = "dead" THEN 0 ELSE turn + 1) /\ kills' = kills
    BY <1>2 DEF Mission!Act, Mission!kit
  <2>4. /\ a \in HostileType /\ a.hp = e.hp /\ v \in 0 .. AimTicks + 1
        /\ a.aim > 0 => v + a.aim > AimTicks
        /\ Mission!Shoots(e, n) => v > AimTicks
    <3>1. e.aim > 0 => w + e.aim > AimTicks
      BY <2>1, <2>2
    <3> HIDE DEF e, w
    <3> QED
      BY <2>1, <2>2, <3>1, Aiming
  <2>5. /\ Mission!Shoots(e, n) \in BOOLEAN /\ (n = "touches" /\ aimLock = 0) \in BOOLEAN
    BY DEF Mission!Shoots
  <2> HIDE DEF e, v, a
  <2>6. missionPhase' \in {"playing", "dead"} /\ health' \in Nat /\ (missionPhase' = "dead" <=> health' = 0)
    <3> DEFINE shot == Mission!Shoots(e, n)
               bitten == n = "touches" /\ aimLock = 0
    <3>1. shot \in BOOLEAN /\ bitten \in BOOLEAN /\ Mission!Hurt(shot, bitten)
      BY <2>3, <2>5
    <3>2. HostileTypes /\ MissionCounts /\ turn # 0
      BY <1>1 DEF MissionInductive
    <3> HIDE DEF shot, bitten
    <3> QED
      BY <3>1, <3>2, Wounding
  <2>7. /\ enemies' \in [1 .. Enemies -> HostileType] /\ watched' \in [1 .. Enemies -> 0 .. AimTicks + 1]
        /\ enemies'[turn] = a /\ watched'[turn] = v
        /\ \A i \in 1 .. Enemies : i # turn => enemies'[i] = enemies[i] /\ watched'[i] = watched[i]
    BY <1>1, <2>3, <2>4 DEF MissionInductive, HostileTypes
  <2>8. HostileTypes'
    <3>1. turn' \in 0 .. Enemies + 1 /\ (turn' # 0 => missionPhase' = "playing")
      BY ONLY <1>1, <2>3, <2>6
    <3> QED
      BY <2>7, <3>1 DEF HostileTypes
  <2>9. AimsAreWatched'
    <3>1. fair' = TRUE
      <4>1. fair = TRUE /\ (Mission!Shoots(e, n) => watched'[turn] > AimTicks)
        BY <2>4, <2>7 DEF MissionInductive, AimsAreWatched
      <4> QED
        BY <2>3, <4>1
    <3>2. \A i \in 1 .. Enemies : enemies'[i].aim > 0 => watched'[i] + enemies'[i].aim > AimTicks
      <4>1. \A i \in 1 .. Enemies : enemies[i].aim > 0 => watched[i] + enemies[i].aim > AimTicks
        BY DEF MissionInductive, AimsAreWatched
      <4> QED
        BY <1>1, <2>4, <2>7, <4>1
    <3> QED
      BY <3>1, <3>2 DEF AimsAreWatched
  <2>10. Mission!Active' = Mission!Active
    BY <2>2, <2>4, <2>7 DEF Mission!Active, Mission!Hostiles
  <2>11. MissionCounts'
    <3>1. kills \in Int /\ kills + Mission!Cardinality(Mission!Active) = Enemies
      BY DEF MissionInductive, MissionCounts, Mission!MissionAccounted
    <3>2. kills' \in Int /\ kills' + Mission!Cardinality(Mission!Active') = Enemies
      BY <2>3, <2>10, <3>1
    <3> QED
      BY <2>6, <3>2 DEF MissionCounts, Mission!MissionAccounted
  <2> QED
    BY <2>8, <2>9, <2>11 DEF MissionInductive
<1>3. ASSUME turn' = turn + 1, UNCHANGED <<missionPhase, enemies, health, aimLock, watched, fair, Mission!kit>>
      PROVE  MissionInductive'
  <2>1. Mission!Active' = Mission!Active /\ missionPhase' = missionPhase /\ kills' = kills /\ health' = health
    BY <1>3 DEF Mission!Active, Mission!Hostiles, Mission!kit
  <2>2. MissionCounts'
    BY <2>1 DEF MissionInductive, MissionCounts, Mission!MissionAccounted
  <2>3. HostileTypes' /\ AimsAreWatched'
    BY <1>1, <1>3 DEF MissionInductive, HostileTypes, AimsAreWatched, ZoneConstants
  <2> QED
    BY <2>2, <2>3 DEF MissionInductive
<1> QED
  BY <1>2, <1>3 DEF Mission!Turn

LEMMA MissionBegins ==
  ASSUME ZoneConstants, turn \in 0 .. Enemies + 1, turn' = 0, fair = TRUE, fair' = fair, missionPhase' \in {"start", "playing"},
         enemies' = [i \in 1 .. Enemies |-> Mission!Fresh(i)], health' = Health, kills' = 0,
         watched' = [i \in 1 .. Enemies |-> 0]
  PROVE  MissionInductive'
<1>1. /\ Enemies \in Nat /\ AimTicks \in Nat /\ Health \in Nat \ {0}
      /\ \A i \in 1 .. Enemies : Mission!Fresh(i) \in HostileType /\ Mission!Fresh(i).hp > 0 /\ Mission!Fresh(i).aim = 0
  BY DEF ZoneConstants, Mission!Fresh, HostileType
<1>2. HostileTypes' /\ AimsAreWatched'
  <2>1. HostileTypes'
    BY <1>1 DEF HostileTypes
  <2>2. AimsAreWatched'
    BY <1>1 DEF AimsAreWatched
  <2> QED
    BY <2>1, <2>2
<1>3. Mission!Active' = 1 .. Enemies
  BY <1>1 DEF Mission!Active, Mission!Hostiles
<1>4. Mission!Cardinality(Mission!Active') = Enemies
  <2>1. IsFiniteSet(1 .. Enemies) /\ Cardinality(1 .. Enemies) = IF 1 > Enemies THEN 0 ELSE Enemies - 1 + 1
    <3>1. 1 \in Int /\ Enemies \in Int
      BY <1>1
    <3> QED
      BY <3>1, FS_Interval, Zenon
  <2>2. \A S : Mission!Cardinality(S) = Cardinality(S)
    BY DEF Mission!Cardinality, Cardinality
  <2> QED
    BY <1>1, <1>3, <2>1, <2>2
<1>5. MissionCounts'
  BY <1>1, <1>4 DEF MissionCounts, Mission!MissionAccounted
<1> QED
  BY <1>2, <1>5 DEF MissionInductive

LEMMA MissionInit ==
  ASSUME ZoneConstants, Mission!Init
  PROVE  MissionInductive
<1>1. /\ Enemies \in Nat /\ AimTicks \in Nat /\ Health \in Nat \ {0}
      /\ \A i \in 1 .. Enemies : Mission!Fresh(i) \in HostileType /\ Mission!Fresh(i).hp > 0 /\ Mission!Fresh(i).aim = 0
  BY DEF ZoneConstants, Mission!Fresh, HostileType
<1>2. /\ turn = 0 /\ missionPhase = "start" /\ enemies = [i \in 1 .. Enemies |-> Mission!Fresh(i)] /\ health = Health /\ kills = 0
      /\ watched = [i \in 1 .. Enemies |-> 0] /\ fair = TRUE
  BY DEF Mission!Init, Mission!Hostiles
<1>3. HostileTypes
  BY <1>1, <1>2 DEF HostileTypes
<1>4. AimsAreWatched
  BY <1>1, <1>2 DEF AimsAreWatched
<1>5. Mission!Active = 1 .. Enemies
  BY <1>1, <1>2 DEF Mission!Active, Mission!Hostiles
<1>6. Mission!Cardinality(Mission!Active) = Enemies
  BY <1>3, <1>5, Standing
<1> QED
  BY <1>1, <1>2, <1>3, <1>4, <1>6 DEF MissionInductive, MissionCounts, Mission!MissionAccounted

LEMMA NextKeepsMission ==
  ASSUME ZoneConstants, MissionInductive, [Mission!Next]_Mission!vars
  PROVE  MissionInductive'
<1>1. ASSUME NEW to \in {"start", "playing"}, Mission!Deploy(to) PROVE MissionInductive'
  <2>1. turn \in 0 .. Enemies + 1 /\ fair = TRUE
    BY DEF MissionInductive, HostileTypes, AimsAreWatched
  <2> QED
    BY <1>1, <2>1, MissionBegins DEF Mission!Deploy, Mission!Hostiles
<1>2. CASE Mission!Confirm \/ Mission!Reset
  BY <1>1, <1>2 DEF Mission!Confirm, Mission!Reset
<1>3. CASE Mission!End
  <2>1. /\ turn' = 0 /\ missionPhase = "playing" /\ health \in Nat /\ health # 0 /\ kills \in Int
        /\ kills + Mission!Cardinality(Mission!Active) = Enemies
    <3>1. /\ turn \in 0 .. Enemies + 1 /\ turn = Enemies + 1 /\ (turn # 0 => missionPhase = "playing")
          /\ (missionPhase = "dead" <=> health = 0) /\ Enemies \in Nat
      BY <1>3 DEF Mission!End, MissionInductive, HostileTypes, MissionCounts,
         Mission!MissionAccounted, ZoneConstants
    <3> QED
      BY <1>3, <3>1 DEF Mission!End, MissionInductive, MissionCounts, Mission!MissionAccounted
  <2>2. /\ missionPhase' \in (IF Mission!Active = {} THEN {"playing", "won"} ELSE {"playing"}) /\ Mission!Active' = Mission!Active
        /\ UNCHANGED <<enemies, health, watched, fair, kills>>
    BY <1>3 DEF Mission!End, Mission!kit, Mission!Active, Mission!Hostiles
  <2>3. missionPhase' = "won" => kills = Enemies
    <3>1. Mission!Cardinality({}) = 0
      BY Standing, FS_EmptySet DEF MissionInductive
    <3> QED
      BY <2>1, <2>2, <3>1 DEF ZoneConstants
  <2>4. MissionCounts'
    <3>1. kills' = kills /\ health' = health /\ kills' + Mission!Cardinality(Mission!Active') = Enemies
      BY <2>1, <2>2
    <3>2. missionPhase' # "dead"
      BY <2>2
    <3> QED
      BY <2>1, <2>3, <3>1, <3>2 DEF MissionCounts, Mission!MissionAccounted
  <2>5. HostileTypes' /\ AimsAreWatched'
    BY <2>1, <2>2 DEF MissionInductive, HostileTypes, AimsAreWatched, ZoneConstants
  <2> QED
    BY <2>4, <2>5 DEF MissionInductive
<1>4. CASE UNCHANGED Mission!vars
  <2>1. Mission!Active' = Mission!Active /\ UNCHANGED <<missionPhase, turn, enemies, health, kills, watched, fair>>
    BY <1>4 DEF Mission!vars, Mission!Active, Mission!Hostiles
  <2>2. MissionCounts'
    BY <2>1 DEF MissionInductive, MissionCounts, Mission!MissionAccounted
  <2>3. HostileTypes' /\ AimsAreWatched'
    BY <2>1 DEF MissionInductive, HostileTypes, AimsAreWatched
  <2> QED
    BY <2>2, <2>3 DEF MissionInductive
<1> QED
  BY <1>2, <1>3, <1>4, PlayerKeepsMission, TurnKeepsMission DEF Mission!Next

\* Nobody has more health than at first, nor the player more of his kit.
KitWithin ==
  /\ missionPhase \in {"start", "playing", "won", "dead"}
  /\ \A i \in 1 .. Enemies : enemies[i].hp <= Hp(i)
  /\ barrels \in 0 .. Barrels /\ ammo \in 0 .. Ammo /\ health <= Health
  /\ aimLock \in 0 .. Lock /\ supplies \subseteq Supplies

LEMMA PlayerKeepsKit ==
  ASSUME ZoneConstants, MissionInductive, KitWithin, Mission!Player
  PROVE  KitWithin'
<1>1. /\ enemies \in [1 .. Enemies -> HostileType] /\ \A i \in 1 .. Enemies : enemies[i].hp \in Nat /\ Hp(i) \in Nat \ {0}
      /\ {Barrels, Ammo, Health, Lock} \subseteq Nat /\ health \in Nat
  BY DEF MissionInductive, HostileTypes, HostileType, MissionCounts, ZoneConstants
<1>2. ASSUME NEW hit \in SUBSET Mission!Active, NEW wound \in Nat, NEW blast \in {0, 1}, NEW near,
             blast <= barrels, Mission!Shoot(hit, wound, blast, near),
             \A i \in hit : wound <= enemies[i].hp
      PROVE  ammo' \in 0 .. Ammo /\ barrels' \in 0 .. Barrels /\ \A i \in 1 .. Enemies : enemies'[i].hp <= Hp(i)
  <2>1. ammo' \in 0 .. Ammo /\ barrels' \in 0 .. Barrels
    BY <1>1, <1>2 DEF KitWithin, Mission!Shoot
  <2>2. \A i \in 1 .. Enemies : enemies'[i].hp = IF i \in hit THEN wound ELSE enemies[i].hp
    BY <1>2, ShotCounts DEF MissionInductive, MissionCounts
  <2>3. ASSUME NEW i \in 1 .. Enemies PROVE enemies'[i].hp <= Hp(i)
    <3>1. enemies[i].hp \in Nat /\ Hp(i) \in Nat /\ enemies[i].hp <= Hp(i)
      BY <1>1 DEF KitWithin
    <3>2. CASE i \in hit
      <4>1. wound <= enemies[i].hp /\ enemies'[i].hp = wound
        BY <1>2, <2>2, <3>2
      <4> QED
        BY <3>1, <4>1
    <3>3. CASE i \notin hit
      BY <2>2, <3>1, <3>3
    <3> QED
      BY <3>2, <3>3
  <2> QED
    BY <2>1, <2>3
<1>3. ammo' \in 0 .. Ammo /\ barrels' \in 0 .. Barrels /\ \A i \in 1 .. Enemies : enemies'[i].hp <= Hp(i)
  <2>1. CASE Mission!HoldFire
    BY <2>1 DEF Mission!HoldFire, KitWithin
  <2>2. ASSUME NEW near \in SUBSET Mission!Active, Mission!FireAtWall(near)
        PROVE  <1>3
    <3>1. Mission!Shoot({}, 1, 0, near) /\ 0 <= barrels
      BY <1>1, <2>2 DEF Mission!FireAtWall, KitWithin
    <3>2. {} \in SUBSET Mission!Active /\ 1 \in Nat /\ 0 \in {0, 1} /\ \A i \in {} : 1 <= enemies[i].hp
      OBVIOUS
    <3> QED
      BY <1>2, <3>1, <3>2, Zenon
  <2>3. ASSUME NEW near \in SUBSET Mission!Active, Mission!FireAtHostile(near)
        PROVE  <1>3
    <3>1. PICK i \in Mission!Active : Mission!Shoot({i}, enemies[i].hp - 1, 0, near)
      BY <2>3 DEF Mission!FireAtHostile
    <3>2. enemies[i].hp - 1 \in Nat /\ enemies[i].hp - 1 <= enemies[i].hp /\ 0 <= barrels
      BY <1>1 DEF KitWithin, Mission!Active, Mission!Hostiles
    <3>3. {i} \in SUBSET Mission!Active /\ 0 \in {0, 1} /\ \A j \in {i} : enemies[i].hp - 1 <= enemies[j].hp
      BY <3>2
    <3> QED
      BY <1>2, <3>1, <3>2, <3>3, Zenon
  <2>4. ASSUME NEW near \in SUBSET Mission!Active, Mission!FireAtBarrel(near)
        PROVE  <1>3
    <3>1. PICK S \in SUBSET Mission!Active : Mission!Shoot(S, 0, 1, near)
      BY <2>4 DEF Mission!FireAtBarrel
    <3>2. 1 <= barrels /\ \A i \in S : 0 <= enemies[i].hp
      BY <1>1, <2>4 DEF KitWithin, Mission!FireAtBarrel, Mission!Active, Mission!Hostiles
    <3> QED
      BY <1>2, <3>1, <3>2
  <2> QED
    BY <2>1, <2>2, <2>3, <2>4 DEF Mission!Player
<1>4. supplies' \subseteq Supplies /\ health' <= Health
  <2>1. PICK got \in SUBSET supplies : Mission!Collect(got)
    BY DEF Mission!Player
  <2> QED
    BY <1>1, <2>1 DEF KitWithin, Mission!Collect
<1>5. aimLock' \in 0 .. Lock /\ missionPhase' = missionPhase
  BY <1>1 DEF KitWithin, Mission!Player, Mission!Less
<1> QED
  BY <1>3, <1>4, <1>5 DEF KitWithin

LEMMA TurnKeepsKit ==
  ASSUME ZoneConstants, MissionInductive, KitWithin, Mission!Turn
  PROVE  KitWithin'
<1>1. /\ enemies \in [1 .. Enemies -> HostileType] /\ turn \in 1 .. Enemies /\ health \in Nat /\ {Health, Lock} \subseteq Nat
  BY DEF MissionInductive, HostileTypes, MissionCounts, ZoneConstants, Mission!Turn, Mission!Hostiles
<1>2. ASSUME NEW n \in Mission!Notices, Mission!Act(turn, n)
      PROVE  KitWithin'
  <2> DEFINE e == Mission!CountDown(Mission!Notice(Mission!Hunt(enemies[turn], turn), n))
             a == Mission!Aim(e, n)
             shot == Mission!Shoots(e, n)
             bitten == n = "touches" /\ aimLock = 0
  <2>1. /\ enemies' = [enemies EXCEPT ![turn] = a] /\ Mission!Hurt(shot, bitten)
        /\ barrels' = barrels /\ ammo' = ammo /\ supplies' = supplies
    BY <1>2 DEF Mission!Act, Mission!kit
  <2>2. enemies[turn] \in HostileType
    BY <1>1
  <2>3. e \in HostileType /\ e.hp = enemies[turn].hp
    BY <1>1, <2>2, Noticing
  <2> HIDE DEF e, shot, bitten
  <2>4. a.hp = e.hp
    BY <2>3 DEF HostileType, Mission!Aim
  <2> HIDE DEF a
  <2>5. \A i \in 1 .. Enemies : enemies'[i].hp = enemies[i].hp
    BY <1>1, <2>1, <2>3, <2>4
  <2>6. aimLock' \in {aimLock, Lock} /\ health' \in {health, Mission!Less(health)} /\ missionPhase' \in {missionPhase, "dead"}
    BY <2>1 DEF Mission!Hurt
  <2>7. Mission!Less(health) <= Health
    BY <1>1 DEF KitWithin, Mission!Less
  <2> QED
    BY <1>1, <2>1, <2>5, <2>6, <2>7 DEF KitWithin
<1>3. ASSUME UNCHANGED <<missionPhase, enemies, health, aimLock, watched, fair, Mission!kit>>
      PROVE  KitWithin'
  BY <1>3 DEF KitWithin, Mission!kit
<1> QED
  BY <1>2, <1>3 DEF Mission!Turn

LEMMA NextKeepsKit ==
  ASSUME ZoneConstants, MissionInductive, KitWithin, [Mission!Next]_Mission!vars
  PROVE  KitWithin'
<1>1. ASSUME NEW to \in {"start", "playing"}, Mission!Deploy(to) PROVE KitWithin'
  <2>1. /\ enemies' = [i \in 1 .. Enemies |-> Mission!Fresh(i)] /\ missionPhase' = to /\ aimLock' = 0 /\ supplies' = Supplies
        /\ barrels' = Barrels /\ ammo' = Ammo /\ health' = Health
    BY <1>1 DEF Mission!Deploy, Mission!Hostiles
  <2>2. \A i \in 1 .. Enemies : enemies'[i].hp = Hp(i) /\ Hp(i) \in Nat
    BY <2>1 DEF Mission!Fresh, ZoneConstants
  <2> QED
    BY <2>1, <2>2 DEF KitWithin, ZoneConstants
<1>2. CASE Mission!Confirm \/ Mission!Reset
  BY <1>1, <1>2 DEF Mission!Confirm, Mission!Reset
<1>3. CASE Mission!End
  BY <1>3 DEF Mission!End, Mission!kit, KitWithin
<1>4. CASE UNCHANGED Mission!vars
  BY <1>4 DEF Mission!vars, KitWithin
<1> QED
  BY <1>2, <1>3, <1>4, PlayerKeepsKit, TurnKeepsKit DEF Mission!Next

\* For any number of hostiles, barrels and rounds, and whatever is noticed,
\* heard and hit in whoever's turn: no hostile shoots before it has watched the
\* player for its whole aim (the loop of last_zone_update, enemy_shot_lock).
THEOREM WarningsAreFair == ZoneConstants => (Mission!Spec => []Mission!FairWarning)
<1> SUFFICES ASSUME ZoneConstants PROVE Mission!Spec => []Mission!FairWarning
  OBVIOUS
<1>1. Mission!Init => MissionInductive
  BY MissionInit
<1>2. MissionInductive /\ [Mission!Next]_Mission!vars => MissionInductive'
  BY NextKeepsMission
<1>3. MissionInductive => Mission!FairWarning
  BY DEF MissionInductive, AimsAreWatched, Mission!FairWarning
<1> QED
  BY <1>1, <1>2, <1>3, PTL DEF Mission!Spec

\* Each hostile stands or was counted once as killed, a mission is won with none
\* left and lost as soon as the player falls (last_zone_fire, hurt_player); and
\* every count and countdown of it stays in its range.
THEOREM MissionsAddUp == ZoneConstants => (Mission!Spec => [](Mission!TypeOK /\ Mission!MissionAccounted))
<1> SUFFICES ASSUME ZoneConstants PROVE Mission!Spec => [](Mission!TypeOK /\ Mission!MissionAccounted)
  OBVIOUS
<1>1. Mission!Init => MissionInductive
  BY MissionInit
<1>2. ASSUME Mission!Init PROVE KitWithin
  <2>1. \A i \in 1 .. Enemies : enemies[i].hp = Hp(i) /\ Hp(i) \in Nat
    BY <1>2 DEF Mission!Init, Mission!Fresh, Mission!Hostiles, ZoneConstants
  <2> QED
    BY <1>2, <2>1 DEF Mission!Init, KitWithin, ZoneConstants
<1>3. MissionInductive /\ KitWithin /\ [Mission!Next]_Mission!vars => MissionInductive' /\ KitWithin'
  BY NextKeepsMission, NextKeepsKit
<1>4. MissionInductive => Mission!MissionAccounted
  BY DEF MissionInductive, MissionCounts
<1>5. ASSUME MissionInductive, KitWithin PROVE Mission!TypeOK
  <2>1. ASSUME NEW i \in 1 .. Enemies
        PROVE  /\ enemies[i].hp \in 0 .. Hp(i) /\ enemies[i].state \in {"patrol", "alert", "search", "engage"}
               /\ enemies[i].alert \in 0 .. AlertTicks /\ enemies[i].search \in 0 .. SearchTicks + 1
               /\ enemies[i].aim \in 0 .. AimTicks /\ watched[i] \in 0 .. AimTicks + 1
    <3>1. enemies[i] \in HostileType /\ watched[i] \in 0 .. AimTicks + 1 /\ enemies[i].hp <= Hp(i) /\ Hp(i) \in Nat
      BY <1>5 DEF MissionInductive, HostileTypes, KitWithin, ZoneConstants
    <3> QED
      BY <3>1 DEF HostileType
  <2>2. health \in 0 .. Health
    BY <1>5 DEF MissionInductive, MissionCounts, KitWithin, ZoneConstants
  <2>3. /\ missionPhase \in {"start", "playing", "won", "dead"} /\ turn \in 0 .. Enemies + 1
        /\ barrels \in 0 .. Barrels /\ ammo \in 0 .. Ammo /\ aimLock \in 0 .. Lock /\ supplies \subseteq Supplies
    BY <1>5 DEF MissionInductive, HostileTypes, KitWithin
  <2>4. fair \in BOOLEAN
    BY <1>5, Zenon DEF MissionInductive, AimsAreWatched
  <2> QED
    BY <2>1, <2>2, <2>3, <2>4, Zenon DEF Mission!TypeOK, Mission!Hostiles
<1> QED
  BY <1>1, <1>2, <1>3, <1>4, <1>5, PTL DEF Mission!Spec

(***************************************************************************)
(* The controls of Last Zone                                               *)
(***************************************************************************)

\* A track belongs to one finger, a capture to a finger on the glass and to
\* one control.
Gripped(grip, hand) ==
  /\ grip \in [Stick!Roles -> TrackIds \cup {Nil}]
  /\ \A r \in Stick!Roles : grip[r] # Nil => \E f \in Thumbs : hand[f] = grip[r]
  /\ \A r, s \in Stick!Roles : r # s => grip[r] = Nil \/ grip[r] # grip[s]

OneEach(hand) ==
  /\ hand \in [Thumbs -> TrackIds \cup {Nil}]
  /\ \A f, g \in Thumbs : hand[f] # Nil /\ hand[f] = hand[g] => f = g

StickInductive ==
  OneEach(stickFinger) /\ Gripped(capture, stickFinger) /\ (blocked \/ ~ready => capture = Stick!NoTracks)

LEMMA NobodyGrips ==
  ASSUME NEW hand
  PROVE  Gripped(Stick!NoTracks, hand)
BY DEF Gripped, Stick!NoTracks

\* Whoever takes a control holds no other yet.
LEMMA TakingGrips ==
  ASSUME StickConstants, NEW hand, NEW track \in TrackIds, NEW area, \E f \in Thumbs : hand[f] = track,
         Gripped(capture, hand)
  PROVE  Gripped(Stick!Captured(track, area), hand)
<1>1. PICK r : \/ Stick!Captured(track, area) = capture
               \/ /\ \A s \in Stick!Roles : capture[s] # track
                  /\ Stick!Captured(track, area) = [capture EXCEPT ![r] = track]
  BY DEF Stick!Captured
<1> DEFINE taken == [capture EXCEPT ![r] = track]
<1>2. ASSUME \A s \in Stick!Roles : capture[s] # track PROVE Gripped(taken, hand)
  <2>1. capture \in [Stick!Roles -> TrackIds \cup {Nil}]
    BY DEF Gripped
  <2>2. taken \in [Stick!Roles -> TrackIds \cup {Nil}]
        /\ \A s \in Stick!Roles : taken[s] = IF s = r THEN track ELSE capture[s]
    BY <2>1
  <2> HIDE DEF taken
  <2> QED
    BY <1>2, <2>2 DEF Gripped, StickConstants
<1> QED
  BY <1>1, <1>2

\* A finger that leaves, whose captures are freed, takes no other's along.
LEMMA FreeingGrips ==
  ASSUME StickConstants, OneEach(stickFinger), Gripped(capture, stickFinger), NEW f \in Thumbs, stickFinger[f] # Nil
  PROVE  Gripped(Stick!Freed(stickFinger[f]), [stickFinger EXCEPT ![f] = Nil])
<1> DEFINE grip == Stick!Freed(stickFinger[f])
           hand == [stickFinger EXCEPT ![f] = Nil]
<1>1. /\ grip \in [Stick!Roles -> TrackIds \cup {Nil}]
      /\ \A r \in Stick!Roles : grip[r] = Nil \/ (grip[r] = capture[r] /\ capture[r] # stickFinger[f])
  <2>1. capture \in [Stick!Roles -> TrackIds \cup {Nil}]
    BY DEF Gripped
  <2>2. grip = [r \in Stick!Roles |-> IF capture[r] = stickFinger[f] \/ mask' = {} THEN Nil ELSE capture[r]]
    BY DEF Stick!Freed
  <2> HIDE DEF grip
  <2> QED
    BY <2>1, <2>2
<1>2. \A g \in Thumbs : g # f => hand[g] = stickFinger[g]
  BY DEF OneEach
<1> HIDE DEF grip, hand
<1>3. ASSUME NEW r \in Stick!Roles, grip[r] # Nil PROVE \E g \in Thumbs : hand[g] = grip[r]
  <2>1. PICK g \in Thumbs : stickFinger[g] = capture[r]
    BY <1>1, <1>3 DEF Gripped
  <2> QED
    BY <1>1, <1>2, <1>3, <2>1
<1>4. ASSUME NEW r \in Stick!Roles, NEW s \in Stick!Roles, r # s, grip[r] # Nil PROVE grip[r] # grip[s]
  <2>1. capture[r] # Nil => capture[r] # capture[s]
    BY <1>4 DEF Gripped
  <2> QED
    BY <1>1, <1>4, <2>1
<1>5. Gripped(grip, hand)
  BY <1>1, <1>3, <1>4 DEF Gripped
<1> QED
  BY <1>5 DEF grip, hand

\* A pointer event leaves the captures as they should be if both its branches
\* that do not drop all of them do.
LEMMA PointerGrips ==
  ASSUME NEW track, NEW area, NEW pressed \in BOOLEAN, Stick!Pointer(track, area, pressed), NEW hand,
         blocked \/ ~ready => capture = Stick!NoTracks,
         pressed => Gripped(Stick!Captured(track, area), hand), ~pressed => Gripped(Stick!Freed(track), hand)
  PROVE  Gripped(capture', hand) /\ (blocked' \/ ~ready' => capture' = Stick!NoTracks)
BY NobodyGrips DEF Stick!Pointer

LEMMA NextKeepsStick ==
  ASSUME StickConstants, StickInductive, [Stick!Next]_Stick!vars
  PROVE  StickInductive'
<1>1. ASSUME NEW f \in Thumbs, NEW t \in TrackIds, NEW a \in Stick!Areas, Stick!Press(f, t, a) PROVE StickInductive'
  <2>1. OneEach(stickFinger') /\ stickFinger'[f] = t /\ \A g \in Thumbs : stickFinger[g] # Nil => stickFinger'[g] = stickFinger[g]
    BY <1>1 DEF Stick!Press, StickInductive, OneEach
  <2>2. Gripped(capture, stickFinger')
    BY <2>1 DEF StickInductive, Gripped
  <2>3. Gripped(Stick!Captured(t, a), stickFinger')
    BY <2>1, <2>2, TakingGrips
  <2>4. Stick!Pointer(t, a, TRUE)
    BY <1>1 DEF Stick!Press
  <2>5. Gripped(capture', stickFinger') /\ (blocked' \/ ~ready' => capture' = Stick!NoTracks)
    BY <2>3, <2>4, PointerGrips DEF StickInductive
  <2> QED
    BY <2>1, <2>5 DEF StickInductive, OneEach, Gripped
<1>2. ASSUME NEW f \in Thumbs, NEW a \in Stick!Areas, Stick!Move(f, a) PROVE StickInductive'
  <2>1. Stick!Pointer(stickFinger[f], a, TRUE) /\ stickFinger' = stickFinger /\ stickFinger[f] \in TrackIds
    BY <1>2 DEF Stick!Move, StickInductive, OneEach
  <2>2. Gripped(Stick!Captured(stickFinger[f], a), stickFinger')
    BY <2>1, TakingGrips DEF StickInductive
  <2>3. Gripped(capture', stickFinger') /\ (blocked' \/ ~ready' => capture' = Stick!NoTracks)
    BY <2>1, <2>2, PointerGrips DEF StickInductive
  <2> QED
    BY <2>1, <2>3 DEF StickInductive, OneEach, Gripped
<1>3. ASSUME NEW f \in Thumbs, NEW t \in TrackIds, Stick!Release(f, t) PROVE StickInductive'
  <2>1. Stick!Pointer(stickFinger[f], {}, FALSE) /\ stickFinger' = [stickFinger EXCEPT ![f] = Nil] /\ stickFinger[f] # Nil
    BY <1>3 DEF Stick!Release, StickConstants
  <2>2. OneEach(stickFinger')
    BY <2>1 DEF StickInductive, OneEach
  <2>3. Gripped(Stick!Freed(stickFinger[f]), stickFinger')
    BY <2>1, FreeingGrips DEF StickInductive
  <2>4. Gripped(capture', stickFinger') /\ (blocked' \/ ~ready' => capture' = Stick!NoTracks)
    BY <2>1, <2>3, PointerGrips DEF StickInductive
  <2> QED
    BY <2>2, <2>4 DEF StickInductive, OneEach, Gripped
<1>4. CASE Stick!Reset
  BY <1>4, NobodyGrips DEF Stick!Reset, StickInductive, OneEach, Gripped
<1>5. CASE Stick!Update
  <2>1. Gripped(capture', stickFinger)
    BY <1>5, NobodyGrips DEF Stick!Update, StickInductive
  <2> QED
    BY <1>5, <2>1 DEF Stick!Update, StickInductive, OneEach, Gripped
<1>6. CASE UNCHANGED Stick!vars
  BY <1>6 DEF Stick!vars, StickInductive, OneEach, Gripped, Stick!NoTracks
<1> QED
  BY <1>1, <1>2, <1>3, <1>4, <1>5, <1>6 DEF Stick!Next

\* The mission around the controls: its phase, its warm-up and the contacts.
StickFlags ==
  /\ stickPhase \in {"start", "playing", "over"} /\ ready \in BOOLEAN /\ blocked \in BOOLEAN
  /\ warmup \in 0 .. 2 /\ mask \subseteq 0 .. 7

LEMMA EventKeepsFlags ==
  ASSUME NEW track \in Nat, NEW area, NEW pressed \in BOOLEAN, Stick!Pointer(track, area, pressed), StickFlags
  PROVE  StickFlags'
<1>1. mask' \subseteq 0 .. 7
  <2>1. Stick!Bit(track) \in 0 .. 7
    BY DEF Stick!Bit
  <2> QED
    BY <2>1 DEF Stick!Pointer, Stick!Noted, StickFlags
<1>2. warmup' = warmup /\ ready' = ready
  BY DEF Stick!Pointer
<1>3. stickPhase' \in {"start", "playing", "over"}
  BY DEF Stick!Pointer, StickFlags
<1>4. blocked' \in BOOLEAN
  BY Zenon DEF Stick!Pointer, StickFlags
<1> QED
  BY <1>1, <1>2, <1>3, <1>4, Zenon DEF StickFlags

LEMMA NextKeepsFlags ==
  ASSUME StickConstants, StickInductive, StickFlags, [Stick!Next]_Stick!vars
  PROVE  StickFlags'
<1>1. ASSUME NEW f \in Thumbs, NEW t \in TrackIds, NEW a \in Stick!Areas, Stick!Press(f, t, a) PROVE StickFlags'
  <2>1. Stick!Pointer(t, a, TRUE) /\ t \in Nat
    BY <1>1 DEF Stick!Press, StickConstants
  <2> QED
    BY <2>1, EventKeepsFlags
<1>2. ASSUME NEW f \in Thumbs, NEW a \in Stick!Areas, Stick!Move(f, a) PROVE StickFlags'
  <2>1. Stick!Pointer(stickFinger[f], a, TRUE) /\ stickFinger[f] \in Nat
    BY <1>2 DEF Stick!Move, StickInductive, OneEach, StickConstants
  <2> QED
    BY <2>1, EventKeepsFlags
<1>3. ASSUME NEW f \in Thumbs, NEW t \in TrackIds, Stick!Release(f, t) PROVE StickFlags'
  <2>1. Stick!Pointer(t, {}, FALSE) /\ t \in Nat
    BY <1>3 DEF Stick!Release, StickConstants
  <2> QED
    BY <2>1, EventKeepsFlags
<1>4. CASE Stick!Reset
  BY <1>4 DEF Stick!Reset, StickFlags
<1>5. CASE Stick!Update
  <2>1. warmup' \in 0 .. 2 /\ mask' = mask /\ blocked' = blocked
    BY <1>5 DEF Stick!Update, StickFlags
  <2>2. ready' \in BOOLEAN
    BY <1>5, Zenon DEF Stick!Update, StickFlags
  <2>3. stickPhase' \in {"start", "playing", "over"}
    BY <1>5 DEF Stick!Update, StickFlags
  <2> QED
    BY <2>1, <2>2, <2>3, Zenon DEF StickFlags
<1>6. CASE UNCHANGED Stick!vars
  BY <1>6 DEF Stick!vars, StickFlags
<1> QED
  BY <1>1, <1>2, <1>3, <1>4, <1>5, <1>6 DEF Stick!Next

\* Last Zone, for any fingers and track ids: a control is held by a finger that
\* is on the glass, and each by another one; and none before every finger that
\* was there when the mission began has left.
THEOREM CapturesAreHeld == StickConstants => (Stick!Spec => [](Stick!TypeOK /\ Stick!CapturesAreTouched))
<1> SUFFICES ASSUME StickConstants PROVE Stick!Spec => [](Stick!TypeOK /\ Stick!CapturesAreTouched)
  OBVIOUS
<1>1. Stick!Init => StickInductive
  BY NobodyGrips DEF Stick!Init, StickInductive, OneEach, StickConstants
<1>2. ASSUME Stick!Init PROVE StickFlags
  <2>1. warmup \in 0 .. 2 /\ mask \subseteq 0 .. 7 /\ stickPhase \in {"start", "playing", "over"}
    BY <1>2 DEF Stick!Init
  <2>2. ready \in BOOLEAN /\ blocked \in BOOLEAN
    BY <1>2, Zenon DEF Stick!Init
  <2> QED
    BY <2>1, <2>2, Zenon DEF StickFlags
<1>3. StickInductive /\ StickFlags /\ [Stick!Next]_Stick!vars => StickInductive' /\ StickFlags'
  BY NextKeepsStick, NextKeepsFlags
<1>4. ASSUME StickInductive, StickFlags PROVE Stick!TypeOK
  BY <1>4 DEF StickInductive, StickFlags, OneEach, Gripped, Stick!TypeOK
<1>5. StickInductive => Stick!CapturesAreTouched
  BY DEF StickInductive, Gripped, Stick!CapturesAreTouched
<1> QED
  BY <1>1, <1>2, <1>3, <1>4, <1>5, PTL DEF Stick!Spec

(***************************************************************************)
(* The scenes of Living Worlds                                             *)
(***************************************************************************)

Contents == [background : Scenes \cup {Nil}, volumes : Scenes \cup {Nil}, held : SUBSET (Scenes \X Int)]

\* The atlases in memory are those of the volumes that count as loaded.
Tidy(r) == r \in Contents /\ r.held = IF r.volumes = Nil THEN {} ELSE Worlds!Atlases(r.volumes)

WorldInductive == scene \in Scenes /\ Tidy(Worlds!Loaded) /\ Worlds!SceneIsWhole

LEMMA VolumesStayTidy ==
  ASSUME WorldConstants, NEW r, Tidy(r), NEW s \in Scenes, NEW l \in Worlds!VolumesLoad(r, s)
  PROVE  Tidy(l.r) /\ l.r.background = r.background /\ (l.ok => l.r.volumes = s)
<1> DEFINE u == [r EXCEPT !.volumes = s]
           full == [u EXCEPT !.held = Worlds!Atlases(s)]
           v == [r EXCEPT !.volumes = Nil]
           empty == [v EXCEPT !.held = {}]
<1>1. r \in Contents /\ s # Nil /\ Worlds!Atlases(s) \subseteq Scenes \X Int
  BY DEF Tidy, WorldConstants, Worlds!Atlases
<1>2. /\ u \in Contents /\ u.volumes = s /\ u.background = r.background
      /\ v \in Contents /\ v.volumes = Nil /\ v.background = r.background
  BY <1>1 DEF Contents
<1>3. l \in {[ok |-> TRUE, r |-> r], [ok |-> TRUE, r |-> full], [ok |-> FALSE, r |-> empty]}
      /\ (l = [ok |-> TRUE, r |-> r] => r.volumes = s)
  <2>1. full = [r EXCEPT !.volumes = s, !.held = Worlds!Atlases(s)] /\ empty = [r EXCEPT !.volumes = Nil, !.held = {}]
    OBVIOUS
  <2>2. r.volumes = s \/ l \in {[ok |-> TRUE, r |-> full], [ok |-> FALSE, r |-> empty]}
    BY <2>1 DEF Worlds!VolumesLoad, Worlds!Unloaded
  <2>3. r.volumes = s => l = [ok |-> TRUE, r |-> r]
    BY DEF Worlds!VolumesLoad
  <2>4. full.volumes = s
    BY <1>2 DEF Contents
  <2> HIDE DEF full, empty
  <2> QED
    BY <2>2, <2>3, <2>4
<1> HIDE DEF u, v
<1>4. /\ full \in Contents /\ full.volumes = s /\ full.background = r.background /\ full.held = Worlds!Atlases(s)
      /\ empty \in Contents /\ empty.volumes = Nil /\ empty.background = r.background /\ empty.held = {}
  BY <1>1, <1>2 DEF Contents
<1> HIDE DEF full, empty
<1>5. Tidy(full) /\ Tidy(empty)
  BY <1>1, <1>4 DEF Tidy
<1> QED
  BY <1>3, <1>4, <1>5

LEMMA BackgroundStaysTidy ==
  ASSUME WorldConstants, NEW r, Tidy(r), NEW s \in Scenes, NEW b \in Worlds!BackgroundLoads(r, s)
  PROVE  Tidy(b.r) /\ (b.ok => b.r.background = s)
<1> DEFINE u == [r EXCEPT !.background = s]
<1>1. r \in Contents
  BY DEF Tidy
<1>2. u \in Contents /\ u.background = s /\ u.volumes = r.volumes /\ u.held = r.held
  BY <1>1 DEF Contents
<1>3. b \in {[ok |-> TRUE, r |-> u], [ok |-> FALSE, r |-> r]}
  BY DEF Worlds!BackgroundLoads
<1> HIDE DEF u
<1>4. Tidy(u)
  BY <1>2 DEF Tidy
<1> QED
  BY <1>2, <1>3, <1>4

LEMMA SceneStaysTidy ==
  ASSUME WorldConstants, NEW r, Tidy(r), NEW s \in Scenes, NEW l \in Worlds!SceneLoads(r, s)
  PROVE  Tidy(l.r) /\ (l.ok => l.r.background = s /\ l.r.volumes = s)
<1>1. PICK b \in Worlds!BackgroundLoads(r, s) : l \in IF b.ok THEN Worlds!VolumesLoad(b.r, s) ELSE {b}
  BY DEF Worlds!SceneLoads
<1>2. Tidy(b.r) /\ (b.ok => b.r.background = s)
  BY BackgroundStaysTidy
<1>3. CASE b.ok
  BY <1>1, <1>2, <1>3, VolumesStayTidy
<1>4. CASE ~b.ok
  BY <1>1, <1>2, <1>4
<1> QED
  BY <1>3, <1>4

LEMMA ForcedStaysTidy ==
  ASSUME WorldConstants, NEW r, Tidy(r), NEW s \in Scenes, NEW l \in Worlds!SceneForced(r, s)
  PROVE  Tidy(l.r) /\ (l.ok => l.r.background = s /\ l.r.volumes = s)
<1>1. PICK b \in Worlds!BackgroundLoads(r, s) : \E v \in Worlds!VolumesLoad(b.r, s) : l = [ok |-> b.ok /\ v.ok, r |-> v.r]
  BY DEF Worlds!SceneForced
<1>v. PICK v \in Worlds!VolumesLoad(b.r, s) : l = [ok |-> b.ok /\ v.ok, r |-> v.r]
  BY <1>1
<1>2. Tidy(b.r) /\ (b.ok => b.r.background = s)
  BY BackgroundStaysTidy
<1>3. Tidy(v.r) /\ v.r.background = b.r.background /\ (v.ok => v.r.volumes = s)
  BY <1>2, VolumesStayTidy
<1> QED
  BY <1>v, <1>2, <1>3

\* What is loaded after a step that takes over a value.
LEMMA TidyHeld ==
  ASSUME NEW r, Tidy(r), Worlds!Holds(r)
  PROVE  Tidy(Worlds!Loaded)' /\ background' = r.background /\ volumes' = r.volumes /\ worldHeld' = r.held
BY DEF Tidy, Worlds!Loaded, Worlds!Holds, Contents, Worlds!Atlases

LEMMA SwitchKeepsWorld ==
  ASSUME WorldConstants, WorldInductive, worldOpen, UNCHANGED worldOpen, NEW s \in Scenes, Worlds!Switch(s)
  PROVE  WorldInductive'
<1>1. PICK l \in Worlds!SceneLoads(Worlds!Loaded, s) :
        IF l.ok
        THEN /\ scene' = s /\ Worlds!Holds(l.r) /\ playing' = Worlds!Selected(s) /\ stuck' = FALSE
        ELSE \E b \in Worlds!GoesBack(l.r, scene) :
               /\ Worlds!Holds(b.r)
               /\ stuck' = ~b.ok
               /\ UNCHANGED <<scene, playing>>
  BY DEF Worlds!Switch
<1>2. Tidy(l.r) /\ (l.ok => l.r.background = s /\ l.r.volumes = s)
  BY SceneStaysTidy DEF WorldInductive
<1>3. CASE l.ok
  BY <1>1, <1>2, <1>3, TidyHeld DEF WorldInductive, Worlds!SceneIsWhole, Worlds!Selected, Tidy,
     Worlds!Loaded
<1>4. CASE ~l.ok
  <2>1. PICK b \in Worlds!SceneForced(l.r, scene) : Worlds!Holds(b.r) /\ stuck' = ~b.ok /\ UNCHANGED <<scene, playing>>
    BY <1>1, <1>4 DEF Worlds!GoesBack
  <2>2. Tidy(b.r) /\ (b.ok => b.r.background = scene /\ b.r.volumes = scene)
    BY <1>2, ForcedStaysTidy DEF WorldInductive
  <2> QED
    BY <2>1, <2>2, TidyHeld DEF WorldInductive, Worlds!SceneIsWhole, Tidy, Worlds!Loaded
<1> QED
  BY <1>3, <1>4

LEMMA NextKeepsWorld ==
  ASSUME WorldConstants, WorldInductive, [Worlds!Next]_Worlds!vars
  PROVE  WorldInductive'
<1>1. CASE Worlds!Start
  <2>1. PICK l \in Worlds!SceneLoads(Worlds!Loaded, FirstScene) :
          worldOpen' = l.ok /\ Worlds!Holds(IF l.ok THEN l.r ELSE [background |-> Nil, volumes |-> Nil, held |-> {}])
    BY <1>1 DEF Worlds!Start
  <2>2. Tidy(l.r) /\ (l.ok => l.r.background = FirstScene /\ l.r.volumes = FirstScene)
    BY SceneStaysTidy DEF WorldInductive, WorldConstants
  <2>3. Tidy([background |-> Nil, volumes |-> Nil, held |-> {}])
    BY DEF Tidy, Contents
  <2>4. scene' = FirstScene /\ FirstScene \in Scenes /\ playing' = Nil
    BY <1>1 DEF Worlds!Start, WorldConstants
  <2>5. CASE l.ok
    <3>1. worldOpen' /\ Worlds!Holds(l.r) /\ Tidy(l.r) /\ l.r.background = FirstScene /\ l.r.volumes = FirstScene
      BY <2>1, <2>2, <2>5
    <3>2. Tidy(Worlds!Loaded)' /\ background' = FirstScene /\ volumes' = FirstScene
      BY <3>1, TidyHeld
    <3>3. worldHeld' = Worlds!Atlases(FirstScene) /\ FirstScene # Nil
      BY <2>4, <3>2 DEF Tidy, Worlds!Loaded, WorldConstants
    <3> QED
      BY <2>4, <3>1, <3>2, <3>3 DEF WorldInductive, Worlds!SceneIsWhole, Worlds!Atlases
  <2>6. CASE ~l.ok
    <3>1. ~worldOpen' /\ Worlds!Holds([background |-> Nil, volumes |-> Nil, held |-> {}])
      BY <2>1, <2>6
    <3>2. Tidy(Worlds!Loaded)' /\ background' = Nil /\ volumes' = Nil /\ worldHeld' = {}
      BY <2>3, <3>1, TidyHeld
    <3> QED
      BY <2>4, <3>1, <3>2 DEF WorldInductive, Worlds!SceneIsWhole
  <2> QED
    BY <2>5, <2>6
<1>2. CASE Worlds!Stays /\ UNCHANGED worldOpen
  BY <1>2 DEF Worlds!Stays, WorldInductive, Worlds!SceneIsWhole, Tidy, Worlds!Loaded, Contents,
     Worlds!Atlases
<1>3. ASSUME NEW s \in Scenes, Worlds!Switch(s), worldOpen, UNCHANGED worldOpen PROVE WorldInductive'
  BY <1>3, SwitchKeepsWorld
<1>4. CASE Worlds!LoadMusic
  BY <1>4 DEF Worlds!LoadMusic, WorldInductive, Worlds!SceneIsWhole, Tidy, Worlds!Loaded,
     Contents, Worlds!Atlases
<1>5. CASE Worlds!Reset
  <2>1. PICK l \in Worlds!SceneForced(Worlds!Loaded, FirstScene) : Worlds!Holds(l.r) /\ stuck' = ~l.ok
    BY <1>5 DEF Worlds!Reset
  <2>2. Tidy(l.r) /\ (l.ok => l.r.background = FirstScene /\ l.r.volumes = FirstScene)
    BY ForcedStaysTidy DEF WorldInductive, WorldConstants
  <2>3. scene' = FirstScene /\ FirstScene \in Scenes /\ playing' = Worlds!Selected(FirstScene) /\ worldOpen' = worldOpen /\ worldOpen
    BY <1>5 DEF Worlds!Reset, WorldConstants
  <2> QED
    BY <2>1, <2>2, <2>3, TidyHeld DEF WorldInductive, Worlds!SceneIsWhole, Worlds!Selected, Tidy,
       Worlds!Loaded
<1>6. CASE Worlds!Close
  BY <1>6 DEF Worlds!Close, WorldInductive, Worlds!SceneIsWhole, Tidy, Worlds!Loaded, Contents,
     Worlds!Atlases
<1>7. CASE UNCHANGED Worlds!vars
  BY <1>7 DEF Worlds!vars, WorldInductive, Worlds!SceneIsWhole, Tidy, Worlds!Loaded, Contents,
     Worlds!Atlases
<1> QED
  BY <1>1, <1>2, <1>3, <1>4, <1>5, <1>6, <1>7 DEF Worlds!Next, Worlds!PressChip, Worlds!PressBar,
     Worlds!PressView, Worlds!Lift

\* What a session is besides its scene; the music is of scenes.
WorldFlags ==
  /\ worldOpen \in BOOLEAN /\ attempted \in BOOLEAN /\ stuck \in BOOLEAN
  /\ tracks \subseteq Scenes /\ touch \in {"up", "drag", "ui"} /\ effects \in 0 .. 2

LEMMA LoadsAnswer ==
  ASSUME NEW r, NEW s, NEW l \in Worlds!SceneLoads(r, s)
  PROVE  l.ok \in BOOLEAN
<1>1. PICK b \in Worlds!BackgroundLoads(r, s) : l \in IF b.ok THEN Worlds!VolumesLoad(b.r, s) ELSE {b}
  BY DEF Worlds!SceneLoads
<1>2. b.ok \in BOOLEAN
  <2> DEFINE u == [r EXCEPT !.background = s]
  <2>1. b \in {[ok |-> TRUE, r |-> u], [ok |-> FALSE, r |-> r]}
    BY DEF Worlds!BackgroundLoads
  <2> HIDE DEF u
  <2>2. b.ok = TRUE \/ b.ok = FALSE
    BY <2>1
  <2> QED
    BY <2>2, Zenon
<1>3. CASE b.ok
  <2> DEFINE u == [b.r EXCEPT !.volumes = s, !.held = Worlds!Atlases(s)]
             v == Worlds!Unloaded(b.r)
  <2>1. l \in {[ok |-> TRUE, r |-> b.r], [ok |-> TRUE, r |-> u], [ok |-> FALSE, r |-> v]}
    BY <1>1, <1>3 DEF Worlds!VolumesLoad
  <2> HIDE DEF u, v
  <2>2. l.ok = TRUE \/ l.ok = FALSE
    BY <2>1
  <2> QED
    BY <2>2, Zenon
<1>4. CASE ~b.ok
  BY <1>1, <1>2, <1>4
<1> QED
  BY <1>3, <1>4

LEMMA FlagsKept ==
  ASSUME WorldConstants, WorldFlags, [Worlds!Next]_Worlds!vars
  PROVE  WorldFlags'
<1> USE DEF WorldFlags
<1>1. CASE Worlds!Start
  <2>1. PICK l \in Worlds!SceneLoads(Worlds!Loaded, FirstScene) : worldOpen' = l.ok
    BY <1>1 DEF Worlds!Start
  <2>2. l.ok \in BOOLEAN
    BY LoadsAnswer
  <2>3. /\ touch' = "up" /\ effects' = 1 /\ tracks' = {} /\ attempted' = FALSE /\ stuck' = FALSE
    BY <1>1 DEF Worlds!Start
  <2>4. worldOpen' \in BOOLEAN
    BY <2>1, <2>2, Zenon
  <2>5. effects' \in 0 .. 2
    BY <2>3
  <2> QED
    BY <2>3, <2>4, <2>5, Zenon
<1>2. CASE Worlds!PressChip
  BY <1>2 DEF Worlds!PressChip, Worlds!Stays
<1>3. ASSUME NEW s \in Scenes \cup {Nil}, Worlds!PressBar(s) PROVE WorldFlags'
  <2>1. stuck' \in BOOLEAN
    BY <1>3 DEF Worlds!PressBar, Worlds!Switch, Worlds!Stays
  <2> QED
    BY <1>3, <2>1 DEF Worlds!PressBar
<1>4. CASE Worlds!PressView \/ Worlds!Lift
  BY <1>4 DEF Worlds!PressView, Worlds!Lift, Worlds!Stays
<1>5. CASE Worlds!LoadMusic
  BY <1>5 DEF Worlds!LoadMusic, WorldConstants
<1>6. CASE Worlds!Reset
  <2>1. stuck' \in BOOLEAN
    BY <1>6 DEF Worlds!Reset
  <2> QED
    BY <1>6, <2>1 DEF Worlds!Reset
<1>7. CASE Worlds!Close
  BY <1>7 DEF Worlds!Close
<1>8. CASE UNCHANGED Worlds!vars
  BY <1>8 DEF Worlds!vars
<1> QED
  BY <1>1, <1>2, <1>3, <1>4, <1>5, <1>6, <1>7, <1>8 DEF Worlds!Next

LEMMA WorldTypes ==
  ASSUME WorldInductive, WorldFlags
  PROVE  Worlds!TypeOK
<1>1. /\ scene \in Scenes /\ background \in Scenes \cup {Nil} /\ volumes \in Scenes \cup {Nil}
      /\ playing \in Scenes \cup {Nil} /\ worldHeld = IF volumes = Nil THEN {} ELSE Worlds!Atlases(volumes)
  BY DEF WorldInductive, Tidy, Worlds!Loaded, Contents, Worlds!SceneIsWhole
<1>2. worldHeld \subseteq UNION {Worlds!Atlases(s) : s \in Scenes}
  BY <1>1
<1> QED
  BY <1>1, <1>2 DEF WorldFlags, Worlds!TypeOK

\* Whatever is pressed and whichever loads fail, for any scenes: the scene on
\* show is the one whose picture, volumes and music there are, unless going back
\* failed as well, and memory holds the atlases of one scene (enter_scene).
THEOREM WorldsAreWhole == WorldConstants => (Worlds!Spec => [](Worlds!TypeOK /\ Worlds!SceneIsWhole))
<1> SUFFICES ASSUME WorldConstants PROVE Worlds!Spec => [](Worlds!TypeOK /\ Worlds!SceneIsWhole)
  OBVIOUS
<1>1. Worlds!Init => WorldInductive /\ WorldFlags
  <2>1. Worlds!Init => WorldInductive
    BY DEF Worlds!Init, WorldConstants, WorldInductive, Worlds!SceneIsWhole, Tidy, Worlds!Loaded,
       Contents
  <2>2. ASSUME Worlds!Init PROVE WorldFlags
    <3>1. effects \in 0 .. 2
      BY <2>2 DEF Worlds!Init
    <3>2. tracks \subseteq Scenes /\ touch \in {"up", "drag", "ui"}
      BY <2>2 DEF Worlds!Init
    <3>3. worldOpen \in BOOLEAN /\ attempted \in BOOLEAN /\ stuck \in BOOLEAN
      BY <2>2, Zenon DEF Worlds!Init
    <3> QED
      BY <3>1, <3>2, <3>3, Zenon DEF WorldFlags
  <2> QED
    BY <2>1, <2>2
<1>2. WorldInductive /\ WorldFlags /\ [Worlds!Next]_Worlds!vars => (WorldInductive /\ WorldFlags)'
  BY NextKeepsWorld, FlagsKept
<1>3. WorldInductive /\ WorldFlags => Worlds!TypeOK /\ Worlds!SceneIsWhole
  BY WorldTypes DEF WorldInductive
<1> QED
  BY <1>1, <1>2, <1>3, PTL DEF Worlds!Spec

(***************************************************************************)
(* The controls of Sky Hop                                                 *)
(***************************************************************************)

HopType ==
  [phase : {"start", "playing", "paused", "clear", "won", "over"}, level : Int, lives : Nat,
   held : SUBSET Hop!Controls, pointer : [HopSlots -> OnGlass \cup {NoFinger}]]

\* A finger has one slot, what is held is on the glass, and whoever may go on
\* playing has lives.
Sane(g) ==
  /\ g \in HopType
  /\ \A s, t \in HopSlots : g.pointer[s] # NoFinger /\ g.pointer[t] # NoFinger /\ g.pointer[s].track = g.pointer[t].track => s = t
  /\ g.phase = "playing" => g.held \subseteq Hop!Held(g.pointer)
  /\ g.phase = "paused" => g.held = {}
  /\ g.phase \in {"start", "playing", "paused", "clear"} => g.lives > 0
  /\ g.phase = "clear" => g.level + 1 < Levels

\* The fingers that have a slot.
On(g) == {f \in Fingers : \E s \in HopSlots : g.pointer[s] # NoFinger /\ g.pointer[s].track = f}

HopInductive ==
  /\ Sane(Hop!Game) /\ finger \in [Fingers -> Hop!Areas \cup {NoFinger}]
  /\ \A f \in On(Hop!Game) : finger[f] # NoFinger

LEMMA PhaseChanges ==
  ASSUME NEW g \in HopType, NEW x \in {"start", "playing", "paused", "clear", "won", "over"}
  PROVE  LET c == [g EXCEPT !.phase = x]
         IN  /\ c \in HopType /\ c.phase = x
             /\ c.level = g.level /\ c.lives = g.lives /\ c.held = g.held /\ c.pointer = g.pointer
BY DEF HopType

LEMMA LevelChanges ==
  ASSUME NEW g \in HopType, NEW x \in Int
  PROVE  LET c == [g EXCEPT !.level = x]
         IN  /\ c \in HopType /\ c.level = x
             /\ c.phase = g.phase /\ c.lives = g.lives /\ c.held = g.held /\ c.pointer = g.pointer
BY DEF HopType

LEMMA LivesChanges ==
  ASSUME NEW g \in HopType, NEW x \in Nat
  PROVE  LET c == [g EXCEPT !.lives = x]
         IN  /\ c \in HopType /\ c.lives = x
             /\ c.phase = g.phase /\ c.level = g.level /\ c.held = g.held /\ c.pointer = g.pointer
BY DEF HopType

LEMMA HeldChanges ==
  ASSUME NEW g \in HopType, NEW x \in SUBSET Hop!Controls
  PROVE  LET c == [g EXCEPT !.held = x]
         IN  /\ c \in HopType /\ c.held = x
             /\ c.phase = g.phase /\ c.level = g.level /\ c.lives = g.lives /\ c.pointer = g.pointer
BY DEF HopType

LEMMA PointerChanges ==
  ASSUME NEW g \in HopType, NEW x \in [HopSlots -> OnGlass \cup {NoFinger}]
  PROVE  LET c == [g EXCEPT !.pointer = x]
         IN  /\ c \in HopType /\ c.pointer = x
             /\ c.phase = g.phase /\ c.level = g.level /\ c.lives = g.lives /\ c.held = g.held
BY DEF HopType

LEMMA LoadedLevel ==
  ASSUME NEW g \in HopType, NEW n \in Int
  PROVE  LET l == Hop!LoadLevel(g, n)
         IN  /\ l \in HopType /\ l.level = n /\ l.held = {} /\ l.pointer = Hop!NoPointers
             /\ l.phase = g.phase /\ l.lives = g.lives
<1> DEFINE a == [g EXCEPT !.level = n]
           b == [a EXCEPT !.held = {}]
           c == [b EXCEPT !.pointer = Hop!NoPointers]
<1>1. Hop!NoPointers \in [HopSlots -> OnGlass \cup {NoFinger}]
  BY DEF Hop!NoPointers
<1>2. a \in HopType /\ a.level = n /\ a.phase = g.phase /\ a.lives = g.lives
  BY LevelChanges
<1>3. c = Hop!LoadLevel(g, n)
  BY DEF Hop!LoadLevel
<1> HIDE DEF a
<1>4. b \in HopType /\ b.level = n /\ b.phase = g.phase /\ b.lives = g.lives /\ b.held = {}
  BY <1>2, HeldChanges
<1> HIDE DEF b
<1>5. /\ c \in HopType /\ c.level = n /\ c.phase = g.phase /\ c.lives = g.lives /\ c.held = {}
      /\ c.pointer = Hop!NoPointers
  BY <1>1, <1>4, PointerChanges
<1> QED
  BY <1>3, <1>5

LEMMA RestartIsSane ==
  ASSUME HopConstants, NEW g, Sane(g)
  PROVE  LET l == Hop!Restarted(g)
         IN  Sane(l) /\ l.phase = "playing" /\ l.held = {} /\ l.pointer = Hop!NoPointers /\ On(l) = {}
<1> DEFINE l == Hop!Restarted(g)
           u == [g EXCEPT !.lives = Lives]
           a == IF g.phase = "clear" THEN Hop!LoadLevel(g, g.level + 1)
                ELSE IF g.phase = "start" THEN Hop!LoadLevel(g, g.level) ELSE Hop!LoadLevel(u, 0)
<1>1. g \in HopType /\ g.level \in Int /\ g.level + 1 \in Int /\ g.lives \in Nat /\ Lives \in Nat /\ Lives > 0
  BY DEF Sane, HopType, HopConstants
<1>2. u \in HopType /\ u.lives = Lives
  BY <1>1, LivesChanges
<1>3. l = [a EXCEPT !.phase = "playing"]
  BY DEF Hop!Restarted
<1> HIDE DEF u
<1>4. a \in HopType /\ a.held = {} /\ a.pointer = Hop!NoPointers /\ a.lives > 0
  <2>1. CASE g.phase = "clear"
    BY <1>1, <2>1, LoadedLevel DEF Sane
  <2>2. CASE g.phase = "start"
    BY <1>1, <2>2, LoadedLevel DEF Sane
  <2>3. CASE g.phase \notin {"clear", "start"}
    <3>1. 0 \in Int /\ a = Hop!LoadLevel(u, 0)
      BY <2>3
    <3> HIDE DEF a
    <3> QED
      BY <1>1, <1>2, <3>1, LoadedLevel
  <2> QED
    BY <2>1, <2>2, <2>3
<1> HIDE DEF a
<1>5. l \in HopType /\ l.phase = "playing" /\ l.held = {} /\ l.pointer = Hop!NoPointers /\ l.lives > 0
  <2>1. "playing" \in {"start", "playing", "paused", "clear", "won", "over"}
    OBVIOUS
  <2> HIDE DEF l
  <2> QED
    BY <1>3, <1>4, <2>1, PhaseChanges
<1> HIDE DEF l
<1>6. \A s \in HopSlots : l.pointer[s] = NoFinger
  BY <1>5 DEF Hop!NoPointers
<1>7. Sane(l) /\ On(l) = {}
  BY <1>5, <1>6 DEF Sane, On
<1> QED
  BY <1>5, <1>7 DEF l

LEMMA PauseIsSane ==
  ASSUME NEW g, Sane(g)
  PROVE  Sane(Hop!PauseToggled(g)) /\ Hop!PauseToggled(g).pointer = g.pointer
<1> DEFINE a == [g EXCEPT !.phase = "paused"]
           b == [a EXCEPT !.held = {}]
           c == [g EXCEPT !.phase = "playing"]
<1>1. g \in HopType
  BY DEF Sane
<1>2. /\ a \in HopType /\ a.phase = "paused" /\ a.pointer = g.pointer /\ a.lives = g.lives
      /\ c \in HopType /\ c.phase = "playing" /\ c.pointer = g.pointer /\ c.lives = g.lives /\ c.held = g.held
  BY <1>1, PhaseChanges
<1>3. Hop!PauseToggled(g) = IF g.phase = "playing" THEN b ELSE IF g.phase = "paused" THEN c ELSE g
  BY DEF Hop!PauseToggled
<1> HIDE DEF a, c
<1>4. b \in HopType /\ b.phase = "paused" /\ b.pointer = g.pointer /\ b.lives = g.lives /\ b.held = {}
  BY <1>2, HeldChanges
<1> HIDE DEF b
<1>5. g.phase = "playing" => Sane(b)
  BY <1>4 DEF Sane
<1>6. g.phase = "paused" => Sane(c)
  BY <1>2 DEF Sane
<1> QED
  BY <1>2, <1>3, <1>4, <1>5, <1>6

\* Other slots, with a finger in one at most.
LEMMA TracksIsSane ==
  ASSUME NEW g, Sane(g), NEW p \in [HopSlots -> OnGlass \cup {NoFinger}],
         \A s, t \in HopSlots : p[s] # NoFinger /\ p[t] # NoFinger /\ p[s].track = p[t].track => s = t
  PROVE  Sane(Hop!Tracks(g, p)) /\ Hop!Tracks(g, p).pointer = p
<1> DEFINE a == [g EXCEPT !.pointer = p]
           b == [a EXCEPT !.held = Hop!Held(p)]
<1>1. g \in HopType
  BY DEF Sane
<1>2. /\ a \in HopType /\ a.pointer = p /\ a.phase = g.phase /\ a.lives = g.lives /\ a.held = g.held /\ a.level = g.level
  BY <1>1, PointerChanges
<1>3. Hop!Tracks(g, p) = IF g.phase = "playing" THEN b ELSE a
  BY <1>2 DEF Hop!Tracks, Hop!Synced
<1>4. Hop!Held(p) \in SUBSET Hop!Controls
  BY DEF Hop!Held
<1> HIDE DEF a
<1>5. b \in HopType /\ b.phase = g.phase /\ b.pointer = p /\ b.lives = g.lives /\ b.held = Hop!Held(p) /\ b.level = g.level
  BY <1>2, <1>4, HeldChanges
<1> HIDE DEF b
<1>6. g.phase = "playing" => Sane(b)
  BY <1>5 DEF Sane
<1>7. g.phase # "playing" => Sane(a)
  BY <1>2 DEF Sane
<1> QED
  BY <1>2, <1>3, <1>5, <1>6, <1>7

\* A touch outside a level goes on to one.
Playing(g) == IF g.phase \in {"playing", "paused"} THEN g ELSE Hop!Restarted(g)

\* What a touch makes of the game: a slot is the finger's own, or a free one.
LEMMA TouchCases ==
  ASSUME NEW g, NEW f, NEW area
  PROVE  \/ Hop!Touched(g, f, area) \in {Hop!PauseToggled(g), Hop!PauseToggled(Playing(g)), Playing(g)}
         \/ \E s \in HopSlots :
              /\ \/ Playing(g).pointer[s] # NoFinger /\ Playing(g).pointer[s].track = f
                 \/ Playing(g).pointer[s] = NoFinger /\ Hop!SlotOf(Playing(g), f) = {}
              /\ Hop!Touched(g, f, area) =
                     Hop!Tracks(Playing(g), [Playing(g).pointer EXCEPT ![s] = [track |-> f, area |-> area]])
<1> DEFINE on == Playing(g)
           slots == IF Hop!SlotOf(on, f) # {} THEN Hop!SlotOf(on, f) ELSE Hop!Free(on)
<1>1. CASE g.phase = "paused"
  BY <1>1 DEF Hop!Touched, Playing
<1>2. CASE g.phase # "paused" /\ area = "pause"
  BY <1>2 DEF Hop!Touched, Playing
<1>3. CASE g.phase # "paused" /\ area # "pause" /\ slots = {}
  BY <1>3 DEF Hop!Touched, Playing
<1>4. CASE g.phase # "paused" /\ area # "pause" /\ slots # {}
  <2> DEFINE s == CHOOSE s \in slots : TRUE
  <2>1. Hop!Touched(g, f, area) = Hop!Tracks(on, [on.pointer EXCEPT ![s] = [track |-> f, area |-> area]])
    BY <1>4 DEF Hop!Touched, Playing
  <2>2. s \in slots
    BY <1>4
  <2> HIDE DEF s
  <2>3. /\ s \in HopSlots
        /\ \/ on.pointer[s] # NoFinger /\ on.pointer[s].track = f
           \/ on.pointer[s] = NoFinger /\ Hop!SlotOf(on, f) = {}
    BY <2>2 DEF Hop!SlotOf, Hop!Free
  <2> QED
    BY <2>1, <2>3
<1> QED
  BY <1>1, <1>2, <1>3, <1>4

\* Who has a slot after a touch.
LEMMA TouchIsSane ==
  ASSUME HopConstants, NEW g, Sane(g), NEW f \in Fingers, NEW area \in Hop!Areas
  PROVE  Sane(Hop!Touched(g, f, area)) /\ On(Hop!Touched(g, f, area)) \subseteq On(g) \cup {f}
<1> DEFINE on == Playing(g)
           t == Hop!Touched(g, f, area)
           p(s) == [on.pointer EXCEPT ![s] = [track |-> f, area |-> area]]
<1>1. Sane(on) /\ On(on) \subseteq On(g)
  BY RestartIsSane DEF Playing
<1>2. \/ t \in {Hop!PauseToggled(g), Hop!PauseToggled(on), on}
      \/ \E s \in HopSlots : /\ \/ on.pointer[s] # NoFinger /\ on.pointer[s].track = f
                                \/ on.pointer[s] = NoFinger /\ Hop!SlotOf(on, f) = {}
                             /\ t = Hop!Tracks(on, p(s))
  BY TouchCases
<1> HIDE DEF on
<1>3. /\ Sane(Hop!PauseToggled(g)) /\ On(Hop!PauseToggled(g)) = On(g)
      /\ Sane(Hop!PauseToggled(on)) /\ On(Hop!PauseToggled(on)) = On(on)
  BY <1>1, PauseIsSane DEF On
<1>4. ASSUME NEW s \in HopSlots,
             \/ on.pointer[s] # NoFinger /\ on.pointer[s].track = f
             \/ on.pointer[s] = NoFinger /\ Hop!SlotOf(on, f) = {}
      PROVE  Sane(Hop!Tracks(on, p(s))) /\ On(Hop!Tracks(on, p(s))) \subseteq On(g) \cup {f}
  <2>2. on.pointer \in [HopSlots -> OnGlass \cup {NoFinger}]
    BY <1>1 DEF Sane, HopType
  <2>3. [track |-> f, area |-> area] \in OnGlass /\ [track |-> f, area |-> area] # NoFinger
    BY DEF OnGlass, HopConstants
  <2> DEFINE q == p(s)
  <2>5. /\ q \in [HopSlots -> OnGlass \cup {NoFinger}] /\ q[s] # NoFinger /\ q[s].track = f
        /\ \A r \in HopSlots : r # s => q[r] = on.pointer[r]
    BY <2>2, <2>3
  <2> HIDE DEF q
  <2>6. \A r \in HopSlots : r # s => q[r] = NoFinger \/ q[r].track # f
    <3>1. \A r \in HopSlots : r # s /\ on.pointer[r] # NoFinger => on.pointer[r].track # f
      BY <1>1, <1>4 DEF Sane, Hop!SlotOf
    <3> QED
      BY <2>5, <3>1
  <2>7. \A a, b \in HopSlots : q[a] # NoFinger /\ q[b] # NoFinger /\ q[a].track = q[b].track => a = b
    <3>1. \A a, b \in HopSlots : a # s /\ b # s /\ q[a] # NoFinger /\ q[b] # NoFinger /\ q[a].track = q[b].track => a = b
      BY <1>1, <2>5 DEF Sane
    <3> QED
      BY <2>5, <2>6, <3>1
  <2>8. Sane(Hop!Tracks(on, q)) /\ Hop!Tracks(on, q).pointer = q
    BY <1>1, <2>5, <2>7, TracksIsSane
  <2>9. On(Hop!Tracks(on, q)) \subseteq On(on) \cup {f}
    BY <2>5, <2>8 DEF On
  <2>10. q = p(s)
    BY DEF q
  <2> QED
    BY <1>1, <2>8, <2>9, <2>10
<1> HIDE DEF p, t
<1>5. Sane(t) /\ On(t) \subseteq On(g) \cup {f}
  BY <1>1, <1>2, <1>3, <1>4
<1> QED
  BY <1>5 DEF t

\* The game goes from one value to another.
LEMMA BecomesSane ==
  ASSUME NEW g, Sane(g), Hop!Becomes(g)
  PROVE  Hop!Game' = g
BY DEF Hop!Becomes, Hop!Game, Sane, HopType

LEMMA LiftIsSane ==
  ASSUME HopConstants, HopInductive, NEW f \in Fingers, Hop!Lift(f)
  PROVE  HopInductive'
<1>1. /\ finger' = [finger EXCEPT ![f] = NoFinger] /\ finger \in [Fingers -> Hop!Areas \cup {NoFinger}]
      /\ Sane(Hop!Game) /\ \A h \in On(Hop!Game) : finger[h] # NoFinger
  BY DEF Hop!Lift, HopInductive
<1>2. finger' \in [Fingers -> Hop!Areas \cup {NoFinger}] /\ \A h \in Fingers : h # f => finger'[h] = finger[h]
  BY <1>1
<1>3. CASE Hop!SlotOf(Hop!Game, f) = {}
  <2>1. Hop!Game' = Hop!Game
    BY <1>3 DEF Hop!Lift, Hop!Becomes, Hop!Game
  <2>2. f \notin On(Hop!Game)
    BY <1>3 DEF On, Hop!SlotOf
  <2>3. On(Hop!Game') = On(Hop!Game) /\ On(Hop!Game) \subseteq Fingers
    BY <2>1 DEF On
  <2>4. \A h \in On(Hop!Game') : finger'[h] # NoFinger
    BY <1>1, <1>2, <2>2, <2>3
  <2> QED
    BY <1>1, <1>2, <2>1, <2>4 DEF HopInductive
<1>4. CASE Hop!SlotOf(Hop!Game, f) # {}
  <2> DEFINE s == CHOOSE s \in Hop!SlotOf(Hop!Game, f) : TRUE
             p == [pointer EXCEPT ![s] = NoFinger]
  <2>1. s \in HopSlots /\ pointer[s] # NoFinger /\ pointer[s].track = f
    BY <1>4 DEF Hop!SlotOf, Hop!Game
  <2>2. Hop!Becomes(Hop!Tracks(Hop!Game, p))
    BY <1>4 DEF Hop!Lift
  <2> HIDE DEF s
  <2>3. /\ pointer \in [HopSlots -> OnGlass \cup {NoFinger}]
        /\ \A q, r \in HopSlots : pointer[q] # NoFinger /\ pointer[r] # NoFinger /\ pointer[q].track = pointer[r].track => q = r
    BY <1>1 DEF Sane, HopType, Hop!Game
  <2>4. /\ p \in [HopSlots -> OnGlass \cup {NoFinger}] /\ p[s] = NoFinger
        /\ \A r \in HopSlots : r # s => p[r] = pointer[r]
    BY <2>1, <2>3
  <2> HIDE DEF p
  <2>5. \A q, r \in HopSlots : p[q] # NoFinger /\ p[r] # NoFinger /\ p[q].track = p[r].track => q = r
    BY <2>3, <2>4
  <2>6. Sane(Hop!Tracks(Hop!Game, p)) /\ Hop!Tracks(Hop!Game, p).pointer = p
    BY <1>1, <2>4, <2>5, TracksIsSane
  <2>7. Hop!Game' = Hop!Tracks(Hop!Game, p)
    BY <2>2, <2>6, BecomesSane
  <2>8. \A h \in On(Hop!Game') : h # f /\ h \in On(Hop!Game) /\ h \in Fingers
    <3>1. \A r \in HopSlots : p[r] # NoFinger => pointer[r] # NoFinger /\ pointer[r].track = p[r].track /\ p[r].track # f
      BY <2>1, <2>3, <2>4
    <3>2. Hop!Game.pointer = pointer
      BY DEF Hop!Game
    <3> QED
      BY <2>6, <2>7, <3>1, <3>2 DEF On
  <2> QED
    BY <1>1, <1>2, <2>6, <2>7, <2>8 DEF HopInductive
<1> QED
  BY <1>3, <1>4

LEMMA TouchKeepsHop ==
  ASSUME HopConstants, HopInductive, NEW f \in Fingers, NEW area \in Hop!Areas, Hop!Touch(f, area)
  PROVE  HopInductive'
<1> DEFINE t == Hop!Touched(Hop!Game, f, area)
<1>1. Sane(t) /\ On(t) \subseteq On(Hop!Game) \cup {f} /\ Hop!Becomes(t) /\ finger' = [finger EXCEPT ![f] = area]
  BY TouchIsSane DEF HopInductive, Hop!Touch
<1> HIDE DEF t
<1>2. Hop!Game' = t
  BY <1>1, BecomesSane
<1>3. finger' \in [Fingers -> Hop!Areas \cup {NoFinger}] /\ \A h \in On(t) : finger'[h] # NoFinger
  <2>1. /\ finger \in [Fingers -> Hop!Areas \cup {NoFinger}] /\ area # NoFinger
        /\ \A h \in On(Hop!Game) : h \in Fingers /\ finger[h] # NoFinger
    BY DEF HopInductive, HopConstants, On
  <2> QED
    BY <1>1, <2>1
<1> QED
  BY <1>1, <1>2, <1>3 DEF HopInductive

LEMMA ButtonKeepsHop ==
  ASSUME HopConstants, HopInductive, NEW restart \in BOOLEAN, Hop!Button(restart)
  PROVE  HopInductive'
<1>1. Sane(Hop!Game) /\ UNCHANGED finger
  BY DEF HopInductive, Hop!Button
<1>2. PICK g \in {Hop!Restarted(Hop!Game), Hop!PauseToggled(Hop!Game)} : Hop!Becomes(g)
  BY DEF Hop!Button
<1>3. Sane(g) /\ On(g) \subseteq On(Hop!Game)
  BY <1>1, RestartIsSane, PauseIsSane DEF On
<1>4. Hop!Game' = g
  BY <1>2, <1>3, BecomesSane
<1> QED
  BY <1>1, <1>3, <1>4 DEF HopInductive

LEMMA UpdateKeepsHop ==
  ASSUME HopConstants, HopInductive, NEW event \in {"enemy", "fall", "finish"}, Hop!Update(event)
  PROVE  HopInductive'
<1> DEFINE g == Hop!Game
           x == IF g.lives > 1 THEN "playing" ELSE "over"
           n == IF g.lives > 1 THEN g.lives - 1 ELSE 0
           hurt == [g EXCEPT !.lives = n]
           dead == [hurt EXCEPT !.phase = x]
           y == IF level + 1 < Levels THEN "clear" ELSE "won"
           done == [g EXCEPT !.phase = y]
<1>1. Sane(g) /\ g \in HopType /\ g.phase = "playing" /\ g.lives \in Nat /\ g.level = level /\ UNCHANGED finger
  BY DEF HopInductive, Sane, HopType, Hop!Update, Hop!Game
<1>2. n \in Nat /\ (x = "playing" => n > 0) /\ x \in {"playing", "over"}
  BY <1>1
<1>3. Hop!LifeLost(g) \in {hurt, dead} /\ (g.lives > 1 => Hop!LifeLost(g) = hurt) /\ (~(g.lives > 1) => Hop!LifeLost(g) = dead)
  BY DEF Hop!LifeLost
<1>4. Hop!Becomes(Hop!LifeLost(g)) \/ Hop!Becomes(done)
  BY DEF Hop!Update
<1> HIDE DEF g, n
<1>5. /\ hurt \in HopType /\ hurt.lives = n /\ hurt.phase = "playing" /\ hurt.pointer = g.pointer
      /\ hurt.held = g.held /\ hurt.level = g.level
  BY <1>1, <1>2, LivesChanges
<1> HIDE DEF hurt, x, y
<1>6. y \in {"clear", "won"} /\ (y = "clear" => g.level + 1 < Levels)
  BY <1>1 DEF y
<1>7. /\ dead \in HopType /\ dead.phase = x /\ dead.pointer = g.pointer /\ dead.lives = n /\ dead.held = g.held
      /\ done \in HopType /\ done.phase = y /\ done.pointer = g.pointer /\ done.lives = g.lives /\ done.level = g.level
  <2>1. /\ x \in {"start", "playing", "paused", "clear", "won", "over"}
        /\ y \in {"start", "playing", "paused", "clear", "won", "over"}
    BY <1>2, <1>6
  <2>2. /\ dead \in HopType /\ dead.phase = x /\ dead.pointer = hurt.pointer /\ dead.lives = hurt.lives
        /\ dead.held = hurt.held
    BY ONLY <1>5, <2>1 DEF HopType
  <2>3. /\ done \in HopType /\ done.phase = y /\ done.pointer = g.pointer /\ done.lives = g.lives
        /\ done.level = g.level
    BY ONLY <1>1, <2>1 DEF HopType
  <2> QED
    BY <1>5, <2>2, <2>3
<1> HIDE DEF dead, done
<1>8. Sane(Hop!LifeLost(g)) /\ Hop!LifeLost(g).pointer = g.pointer
  <2>1. CASE g.lives > 1
    <3>1. n > 0
      BY <1>1, <1>2, <2>1 DEF n
    <3> QED
      BY <1>1, <1>3, <1>5, <2>1, <3>1 DEF Sane
  <2>2. CASE ~(g.lives > 1)
    <3>1. x = "over"
      BY <2>2 DEF x
    <3> QED
      BY <1>1, <1>3, <1>7, <2>2, <3>1 DEF Sane
  <2> QED
    BY <2>1, <2>2
<1>9. Sane(done)
  BY <1>1, <1>6, <1>7 DEF Sane
<1>10. PICK h : Sane(h) /\ h.pointer = g.pointer /\ Hop!Becomes(h)
  BY <1>4, <1>7, <1>8, <1>9
<1>11. Hop!Game' = h
  BY <1>10, BecomesSane
<1>12. On(h) = On(g)
  BY <1>10 DEF On
<1> QED
  BY <1>1, <1>10, <1>11, <1>12 DEF HopInductive, g

LEMMA NextKeepsHop ==
  ASSUME HopConstants, HopInductive, [Hop!Next]_Hop!vars
  PROVE  HopInductive'
<1>1. CASE UNCHANGED Hop!vars
  <2>1. Hop!Game' = Hop!Game /\ finger' = finger
    BY <1>1 DEF Hop!vars, Hop!Game
  <2> QED
    BY <2>1 DEF HopInductive
<1> QED
  BY <1>1, TouchKeepsHop, LiftIsSane, ButtonKeepsHop, UpdateKeepsHop DEF Hop!Next

LEMMA HopSettled ==
  ASSUME HopConstants, HopInductive
  PROVE  Hop!NothingIsStuck
<1>1. /\ Sane(Hop!Game) /\ \A f \in On(Hop!Game) : finger[f] # NoFinger
      /\ Hop!Game.pointer = pointer /\ Hop!Game.phase = hopPhase /\ Hop!Game.held = held
      /\ Hop!Game.lives = lives /\ Hop!Game.level = level
  BY DEF HopInductive, Hop!Game
<1>2. \A s \in HopSlots : pointer[s] # NoFinger => finger[pointer[s].track] # NoFinger
  <2>1. pointer \in [HopSlots -> OnGlass \cup {NoFinger}]
    BY <1>1 DEF Sane, HopType
  <2> QED
    BY <1>1, <2>1 DEF On, OnGlass
<1>3. ASSUME NEW f \in Fingers PROVE Hop!Cardinality(Hop!SlotOf(Hop!Game, f)) <= 1
  <2>1. \A S : Hop!Cardinality(S) = Cardinality(S)
    BY DEF Hop!Cardinality, Cardinality
  <2>2. \A s, t \in Hop!SlotOf(Hop!Game, f) : s = t
    BY <1>1 DEF Sane, Hop!SlotOf
  <2>3. CASE Hop!SlotOf(Hop!Game, f) = {}
    BY <2>1, <2>3, FS_EmptySet
  <2>4. CASE Hop!SlotOf(Hop!Game, f) # {}
    <3>1. PICK s : Hop!SlotOf(Hop!Game, f) = {s}
      BY <2>2, <2>4
    <3> QED
      BY <2>1, <3>1, FS_Singleton
  <2> QED
    BY <2>3, <2>4
<1>4. hopPhase = "playing" => held \subseteq Hop!Held(pointer) /\ lives > 0
  BY <1>1 DEF Sane
<1>5. hopPhase = "clear" => level + 1 < Levels
  BY <1>1 DEF Sane
<1> QED
  BY <1>2, <1>3, <1>4, <1>5 DEF Hop!NothingIsStuck

\* The level is one there is, and nobody has more lives than at the start.
Within(g) == g.level \in 0 .. Levels - 1 /\ g.lives \in 0 .. Lives

LEMMA RestartWithin ==
  ASSUME HopConstants, NEW g, Sane(g), Within(g)
  PROVE  Within(Hop!Restarted(g))
<1> DEFINE l == Hop!Restarted(g)
           u == [g EXCEPT !.lives = Lives]
           a == IF g.phase = "clear" THEN Hop!LoadLevel(g, g.level + 1)
                ELSE IF g.phase = "start" THEN Hop!LoadLevel(g, g.level) ELSE Hop!LoadLevel(u, 0)
<1>1. /\ g \in HopType /\ g.level \in Int /\ g.level + 1 \in Int /\ Lives \in Nat /\ Levels \in Nat \ {0}
      /\ (g.phase = "clear" => g.level + 1 < Levels)
  BY DEF Sane, HopType, HopConstants
<1>2. u \in HopType /\ u.lives = Lives
  BY <1>1, LivesChanges
<1>3. l = [a EXCEPT !.phase = "playing"]
  BY DEF Hop!Restarted
<1> HIDE DEF u
<1>4. a \in HopType /\ a.level \in 0 .. Levels - 1 /\ a.lives \in 0 .. Lives
  <2>1. CASE g.phase = "clear"
    <3>1. a = Hop!LoadLevel(g, g.level + 1)
      BY <2>1
    <3> HIDE DEF a
    <3>2. a \in HopType /\ a.level = g.level + 1 /\ a.lives = g.lives
      BY <1>1, <3>1, LoadedLevel
    <3> QED
      BY <1>1, <2>1, <3>2 DEF Within
  <2>2. CASE g.phase = "start"
    <3>1. a = Hop!LoadLevel(g, g.level)
      BY <2>2
    <3> HIDE DEF a
    <3>2. a \in HopType /\ a.level = g.level /\ a.lives = g.lives
      BY <1>1, <3>1, LoadedLevel
    <3> QED
      BY <3>2 DEF Within
  <2>3. CASE g.phase \notin {"clear", "start"}
    <3>1. 0 \in Int /\ a = Hop!LoadLevel(u, 0)
      BY <2>3
    <3> HIDE DEF a
    <3>2. a \in HopType /\ a.level = 0 /\ a.lives = Lives
      BY <1>2, <3>1, LoadedLevel
    <3> QED
      BY <1>1, <3>2
  <2> QED
    BY <2>1, <2>2, <2>3
<1> HIDE DEF a
<1>5. l.level = a.level /\ l.lives = a.lives
  <2>1. "playing" \in {"start", "playing", "paused", "clear", "won", "over"}
    OBVIOUS
  <2> HIDE DEF l
  <2> QED
    BY <1>3, <1>4, <2>1, PhaseChanges
<1> HIDE DEF l
<1> QED
  BY <1>4, <1>5 DEF Within, l

LEMMA OthersWithin ==
  ASSUME NEW g, Sane(g), Within(g)
  PROVE  Within(Hop!PauseToggled(g)) /\ \A p : Within(Hop!Tracks(g, p))
<1>1. g \in HopType
  BY DEF Sane
<1>2. Hop!PauseToggled(g).level = g.level /\ Hop!PauseToggled(g).lives = g.lives
  BY <1>1 DEF Hop!PauseToggled, HopType
<1>3. ASSUME NEW p PROVE Hop!Tracks(g, p).level = g.level /\ Hop!Tracks(g, p).lives = g.lives
  BY <1>1 DEF Hop!Tracks, Hop!Synced, HopType
<1> QED
  BY <1>2, <1>3 DEF Within

LEMMA HurtWithin ==
  ASSUME HopConstants, NEW g, Sane(g), Within(g)
  PROVE  Within(Hop!LifeLost(g)) /\ \A x : Within([g EXCEPT !.phase = x])
<1>1. /\ g \in HopType /\ g.level \in 0 .. Levels - 1 /\ g.lives \in 0 .. Lives /\ g.lives \in Nat
      /\ Lives \in Nat
  BY DEF Sane, Within, HopType, HopConstants
<1>2. Hop!LifeLost(g).level = g.level /\ Hop!LifeLost(g).lives = IF g.lives > 1 THEN g.lives - 1 ELSE 0
  BY <1>1 DEF Hop!LifeLost, HopType
<1>3. ASSUME NEW x PROVE Within([g EXCEPT !.phase = x])
  <2>1. [g EXCEPT !.phase = x].level = g.level /\ [g EXCEPT !.phase = x].lives = g.lives
    BY <1>1 DEF HopType
  <2> QED
    BY <1>1, <2>1 DEF Within
<1>4. Within(Hop!LifeLost(g))
  <2>1. g.lives > 1 => g.lives - 1 \in 0 .. Lives
    BY <1>1
  <2>2. ~(g.lives > 1) => 0 \in 0 .. Lives
    BY <1>1
  <2> QED
    BY <1>1, <1>2, <2>1, <2>2 DEF Within
<1> QED
  BY <1>3, <1>4

LEMMA NextKeepsWithin ==
  ASSUME HopConstants, HopInductive, Within(Hop!Game), [Hop!Next]_Hop!vars
  PROVE  Within(Hop!Game')
<1> DEFINE g == Hop!Game
<1>1. Sane(g) /\ Within(g) /\ Hop!Game.pointer = pointer
  BY DEF HopInductive, Hop!Game
<1>2. \A h : Hop!Becomes(h) /\ Within(h) => Within(Hop!Game')
  BY DEF Hop!Becomes, Hop!Game, Within
<1> HIDE DEF g
<1>3. Within(Hop!Restarted(g)) /\ Within(Hop!PauseToggled(g)) /\ \A p : Within(Hop!Tracks(g, p))
  BY <1>1, RestartWithin, OthersWithin
<1>4. ASSUME NEW f \in Fingers, NEW area \in Hop!Areas, Hop!Touch(f, area) PROVE Within(Hop!Game')
  <2>1. Sane(Playing(g)) /\ Within(Playing(g))
    BY <1>1, <1>3, RestartIsSane DEF Playing
  <2>2. Within(Hop!PauseToggled(Playing(g))) /\ \A p : Within(Hop!Tracks(Playing(g), p))
    BY <2>1, OthersWithin
  <2> DEFINE t == Hop!Touched(g, f, area)
             on == Playing(g)
             p(x) == [on.pointer EXCEPT ![x] = [track |-> f, area |-> area]]
  <2>3. \/ t \in {Hop!PauseToggled(g), Hop!PauseToggled(on), on}
        \/ \E x \in HopSlots : /\ \/ on.pointer[x] # NoFinger /\ on.pointer[x].track = f
                                  \/ on.pointer[x] = NoFinger /\ Hop!SlotOf(on, f) = {}
                               /\ t = Hop!Tracks(on, p(x))
    BY TouchCases
  <2> HIDE DEF t, on, p
  <2>4. Within(t)
    BY <1>3, <2>1, <2>2, <2>3 DEF on
  <2> QED
    BY <1>2, <1>4, <2>4 DEF Hop!Touch, g, t
<1>5. ASSUME NEW f \in Fingers, Hop!Lift(f) PROVE Within(Hop!Game')
  <2>1. \E h : Hop!Becomes(h) /\ (h = g \/ \E p : h = Hop!Tracks(g, p))
    BY <1>5 DEF Hop!Lift, g
  <2> QED
    BY <1>1, <1>2, <1>3, <2>1
<1>6. ASSUME NEW restart \in BOOLEAN, Hop!Button(restart) PROVE Within(Hop!Game')
  BY <1>2, <1>3, <1>6 DEF Hop!Button, g
<1>7. ASSUME NEW event \in {"enemy", "fall", "finish"}, Hop!Update(event) PROVE Within(Hop!Game')
  <2>1. Within(Hop!LifeLost(g)) /\ \A x : Within([g EXCEPT !.phase = x])
    BY <1>1, HurtWithin
  <2>2. \E h : Hop!Becomes(h) /\ (h = Hop!LifeLost(g) \/ \E x : h = [g EXCEPT !.phase = x])
    BY <1>7 DEF Hop!Update, g
  <2> QED
    BY <1>2, <2>1, <2>2
<1>8. CASE UNCHANGED Hop!vars
  <2>1. Hop!Game' = Hop!Game
    BY <1>8 DEF Hop!vars, Hop!Game
  <2> QED
    BY <1>1, <2>1 DEF g
<1> QED
  BY <1>4, <1>5, <1>6, <1>7, <1>8 DEF Hop!Next

LEMMA HopTypes ==
  ASSUME HopInductive, Within(Hop!Game)
  PROVE  Hop!TypeOK
<1>1. /\ Hop!Game \in HopType /\ finger \in [Fingers -> Hop!Areas \cup {NoFinger}]
      /\ Hop!Game.pointer = pointer /\ Hop!Game.phase = hopPhase /\ Hop!Game.held = held
      /\ Hop!Game.lives = lives /\ Hop!Game.level = level
  BY DEF HopInductive, Sane, Hop!Game
<1>2. pointer \in [HopSlots -> OnGlass \cup {NoFinger}] /\ held \subseteq Hop!Controls
      /\ hopPhase \in {"start", "playing", "paused", "clear", "won", "over"}
  BY <1>1 DEF HopType
<1> QED
  BY <1>1, <1>2 DEF Within, Hop!TypeOK, OnGlass

\* However fingers press, slide and lift through levels, pauses and screens, for
\* any fingers and slots: a control is held only by a finger that is down on it,
\* and a finger has one slot at most (platform_game_set_pointer).
THEOREM ControlsAreTouched == HopConstants => (Hop!Spec => [](Hop!TypeOK /\ Hop!NothingIsStuck))
<1> SUFFICES ASSUME HopConstants PROVE Hop!Spec => [](Hop!TypeOK /\ Hop!NothingIsStuck)
  OBVIOUS
<1>1. Hop!Init => HopInductive /\ Within(Hop!Game)
  <2> SUFFICES ASSUME Hop!Init PROVE HopInductive /\ Within(Hop!Game)
    OBVIOUS
  <2>1. /\ Hop!Game \in HopType /\ Hop!Game.phase = "start" /\ Hop!Game.lives = Lives /\ Hop!Game.pointer = Hop!NoPointers
        /\ Hop!Game.level = 0
    BY DEF Hop!Init, Hop!Game, HopType, HopConstants, Hop!NoPointers
  <2>2. \A s \in HopSlots : Hop!Game.pointer[s] = NoFinger
    BY <2>1 DEF Hop!NoPointers
  <2>3. Sane(Hop!Game) /\ On(Hop!Game) = {}
    BY <2>1, <2>2 DEF Sane, On, HopConstants
  <2>4. Within(Hop!Game)
    BY <2>1 DEF Within, HopConstants
  <2> QED
    BY <2>3, <2>4 DEF HopInductive, Hop!Init
<1>2. HopInductive /\ Within(Hop!Game) /\ [Hop!Next]_Hop!vars => HopInductive' /\ Within(Hop!Game)'
  BY NextKeepsHop, NextKeepsWithin
<1>3. HopInductive /\ Within(Hop!Game) => Hop!TypeOK /\ Hop!NothingIsStuck
  BY HopSettled, HopTypes DEF HopConstants
<1> QED
  BY <1>1, <1>2, <1>3, PTL DEF Hop!Spec

(***************************************************************************)
(* The race and the ride of Neon Rift Rally                                *)
(***************************************************************************)

Places == 1 .. Cardinality(Rivals) + 1

VehicleType ==
  [progress : 0 .. TrackLength - 1, laps : 0 .. LapsToGo, finished : BOOLEAN, cooldown : 0 .. Cooldown,
   miss : 0 .. MissCooldown, place : Places]

\* A vehicle that has not finished has laps to go.
Vehicles == {r \in VehicleType : ~r.finished => r.laps < LapsToGo}

\* The first n gates are those that lie behind a point of the track.
Behind(n, at) ==
  /\ n \in 0 .. Len(Gates)
  /\ \A g \in 1 .. Len(Gates) : g <= n <=> Gates[g] <= at

Racing == racePhase \in {"countdown", "playing"}

RaceInductive ==
  /\ racePhase \in {"countdown", "playing", "finished", "failed"}
  /\ progress \in 0 .. TrackLength - 1 /\ raceLaps \in Nat /\ offtrack \in Nat /\ integrity \in Nat
  /\ raceLaps <= LapsToGo /\ offtrack <= OfftrackTicks /\ integrity <= FullIntegrity
  /\ countdown \in 0 .. CountdownTicks /\ (racePhase = "countdown" => countdown > 0)
  /\ Race!Distance(progress, raceLaps) = log.travelled
  /\ rival \in [Rivals -> Vehicles]
  /\ Behind(gate, progress) /\ missed = 0
  /\ position = Race!Rank(progress, raceLaps, rival)
  /\ Racing => raceLaps < LapsToGo /\ integrity > 0 /\ offtrack < OfftrackTicks
  /\ racePhase = "finished" => raceLaps = LapsToGo /\ integrity > 0
  /\ racePhase = "failed" => integrity = 0 \/ offtrack = OfftrackTicks

LEMMA GreatestExists ==
  ASSUME NEW n \in Nat, NEW S \in SUBSET (0 .. n), S # {}
  PROVE  \E i \in S : \A j \in S : j <= i
<1> DEFINE Mirror == {n + 1 - i : i \in S}
<1>1. n + 1 \in Nat /\ Mirror \in SUBSET (1 .. n + 1) /\ Mirror # {}
  <2>1. \A i \in 0 .. n : n + 1 - i \in 1 .. n + 1
    OBVIOUS
  <2>2. \A i \in S : i \in 0 .. n /\ n + 1 - i \in 1 .. n + 1
    BY <2>1
  <2>3. \A t \in Mirror : t \in 1 .. n + 1
    BY <2>2
  <2>4. PICK i \in S : TRUE
    OBVIOUS
  <2>5. n + 1 - i \in Mirror
    BY <2>4
  <2> HIDE DEF Mirror
  <2> QED
    BY <2>3, <2>5
<1>2. PICK k \in Mirror : \A j \in Mirror : k <= j
  <2> HIDE DEF Mirror
  <2> QED
    BY <1>1, LeastExists
<1>3. PICK i \in S : k = n + 1 - i
  OBVIOUS
<1>4. \A j \in S : n + 1 - j \in Mirror
  OBVIOUS
<1> QED
  <2> HIDE DEF Mirror
  <2>1. \A j \in S : k <= n + 1 - j
    BY <1>2, <1>4
  <2> QED
    BY <2>1, <1>3

\* The gates of a stretch of road are taken, each of them.
LEMMA GatesTaken ==
  ASSUME RaceConstants, NEW next, NEW from \in Int, NEW to \in Int, from <= to, Behind(next, from)
  PROVE  Behind(Race!PassGates(next, from, to), to)
<1> DEFINE S == {n \in next .. Len(Gates) : \A g \in next + 1 .. n : Race!Crossed(g, from, to)}
           m == Race!PassGates(next, from, to)
<1>1. /\ Len(Gates) \in Nat /\ next \in 0 .. Len(Gates)
      /\ \A g \in 1 .. Len(Gates) : Gates[g] \in 1 .. TrackLength - 1 /\ Gates[g] \in Int
  BY DEF RaceConstants, Behind
<1>2. S \in SUBSET (0 .. Len(Gates)) /\ next \in S
  BY <1>1
<1>3. m \in S /\ \A n \in S : n <= m
  <2>1. m = CHOOSE n \in S : \A k \in S : k <= n
    BY DEF Race!PassGates
  <2>2. \E n \in S : \A k \in S : k <= n
    <3> HIDE DEF S
    <3> QED
      BY <1>1, <1>2, GreatestExists
  <2> HIDE DEF S, m
  <2> QED
    BY <2>1, <2>2
<1>4. m \in next .. Len(Gates) /\ \A g \in next + 1 .. m : from < Gates[g] /\ Gates[g] <= to
  <2>1. \A g \in next + 1 .. m : Race!Crossed(g, from, to)
    BY <1>3
  <2> QED
    BY <2>1, <1>3 DEF Race!Crossed
<1>5. ASSUME m + 1 \in 1 .. Len(Gates) PROVE ~(Gates[m + 1] <= to)
  <2>1. m + 1 \notin S
    BY <1>1, <1>3, <1>4
  <2>2. PICK g \in next + 1 .. m + 1 : ~Race!Crossed(g, from, to)
    BY <1>1, <1>4, <1>5, <2>1
  <2>3. g = m + 1
    BY <1>1, <1>4, <2>2 DEF Race!Crossed
  <2>4. from < Gates[m + 1]
    BY <1>1, <1>4, <1>5 DEF Behind
  <2> QED
    BY <2>2, <2>3, <2>4 DEF Race!Crossed
<1> HIDE DEF m, S
<1>6. ASSUME NEW g \in 1 .. Len(Gates) PROVE g <= m <=> Gates[g] <= to
  <2>1. CASE g <= next
    <3>1. Gates[g] <= from
      BY <2>1 DEF Behind
    <3> QED
      BY <3>1, <2>1, <1>1, <1>4
  <2>2. CASE next < g /\ g <= m
    BY <2>2, <1>1, <1>4
  <2>3. CASE g > m
    <3>1. m + 1 \in 1 .. Len(Gates) /\ (g = m + 1 \/ m + 1 < g)
      BY <2>3, <1>1, <1>4
    <3>2. ~(Gates[m + 1] <= to)
      BY <3>1, <1>5
    <3>3. g = m + 1 \/ Gates[m + 1] < Gates[g]
      BY <3>1 DEF RaceConstants
    <3> QED
      BY <3>1, <3>2, <3>3, <2>3, <1>1, <1>4
  <2> QED
    BY <2>1, <2>2, <2>3, <1>1, <1>4
<1> QED
  BY <1>1, <1>4, <1>6 DEF Behind, m

LEMMA GatesCounted ==
  ASSUME RaceConstants, Behind(gate, progress)
  PROVE  gate = Cardinality({g \in DOMAIN Gates : Gates[g] <= progress})
<1>1. Len(Gates) \in Nat /\ DOMAIN Gates = 1 .. Len(Gates) /\ gate \in 0 .. Len(Gates)
  BY DEF RaceConstants, Behind
<1>2. {g \in DOMAIN Gates : Gates[g] <= progress} = 1 .. gate
  BY <1>1 DEF Behind
<1>3. Cardinality(1 .. gate) = gate
  <2>1. 1 \in Int /\ gate \in Int /\ gate \in Nat
    BY <1>1
  <2>2. Cardinality(1 .. gate) = IF 1 > gate THEN 0 ELSE gate - 1 + 1
    BY <2>1, FS_Interval, Zenon
  <2> QED
    BY <2>1, <2>2
<1> QED
  BY <1>2, <1>3

\* Before the line all is as driven; over it every gate has been taken, and
\* the lap counts.
LEMMA LapsAreDriven ==
  ASSUME RaceConstants, RaceInductive, NEW distance \in 0 .. MaxStep
  PROVE  LET race == Race!Advance(distance)
             where == Race!Wrap(progress + distance)
         IN /\ where \in 0 .. TrackLength - 1 /\ race.laps \in Nat /\ race.missed = 0
            /\ Behind(race.gate, where)
            /\ Race!Distance(where, race.laps) = Race!Distance(progress, raceLaps) + distance
            /\ "FINISH" \in race.events => race.laps = raceLaps + 1 /\ race.laps >= LapsToGo
            /\ "FINISH" \notin race.events => race.laps = raceLaps \/ (race.laps = raceLaps + 1 /\ race.laps < LapsToGo)
            /\ race.laps = raceLaps => where = progress + distance
            /\ race.laps \in {raceLaps, raceLaps + 1}
<1> DEFINE race == Race!Advance(distance)
           end == progress + distance
<1>1. /\ progress \in Int /\ TrackLength \in Nat /\ raceLaps \in Nat /\ missed = 0 /\ Behind(gate, progress)
      /\ progress \in 0 .. TrackLength - 1 /\ LapsToGo \in Nat
  BY DEF RaceConstants, RaceInductive
<1>2. distance \in Nat /\ end \in Nat /\ end < 2 * TrackLength /\ MaxStep <= TrackLength
  BY <1>1 DEF RaceConstants
<1>3. CASE end < TrackLength
  <2>1. /\ race.gate = Race!PassGates(gate, progress, end) /\ race.laps = raceLaps /\ race.missed = missed
        /\ "FINISH" \notin race.events
    BY <1>3 DEF Race!Advance
  <2>2. Race!Wrap(end) = end
    BY <1>1, <1>2, <1>3 DEF Race!Wrap
  <2>3. Behind(race.gate, end)
    BY <1>1, <1>2, <2>1, GatesTaken
  <2>4. Race!Distance(end, raceLaps) = Race!Distance(progress, raceLaps) + distance
    <3>1. raceLaps * TrackLength \in Int
      BY <1>1
    <3> QED
      BY <1>1, <1>2, <3>1 DEF Race!Distance
  <2> HIDE DEF race
  <2> QED
    BY <1>1, <1>2, <1>3, <2>1, <2>2, <2>3, <2>4 DEF race
<1>4. CASE end >= TrackLength
  <2> DEFINE over == end - TrackLength
  <2>1. Race!PassGates(gate, progress, TrackLength) = Len(Gates)
    <3> DEFINE n == Race!PassGates(gate, progress, TrackLength)
    <3>1. Behind(n, TrackLength)
      BY <1>1, GatesTaken
    <3>2. Len(Gates) \in Nat /\ \A g \in 1 .. Len(Gates) : Gates[g] \in 1 .. TrackLength - 1
      BY DEF RaceConstants
    <3> HIDE DEF n
    <3>3. n \in 0 .. Len(Gates) /\ \A g \in 1 .. Len(Gates) : g <= n
      BY <3>1, <3>2, <1>1 DEF Behind
    <3> QED
      BY <3>2, <3>3 DEF n
  <2>2. Behind(0, 0)
    <3>1. Len(Gates) \in Nat /\ \A g \in 1 .. Len(Gates) : Gates[g] \in 1 .. TrackLength - 1
      BY DEF RaceConstants
    <3> QED
      BY <3>1 DEF Behind
  <2>3. over \in 0 .. TrackLength - 1 /\ over \in Int /\ 0 <= over /\ end = over + TrackLength
    BY <1>1, <1>2, <1>4
  <2>4. Behind(Race!PassGates(0, 0, over), over)
    BY <2>2, <2>3, GatesTaken
  <2>5. /\ race.gate = Race!PassGates(0, 0, over) /\ race.laps = raceLaps + 1 /\ race.missed = missed
        /\ "FINISH" \in race.events <=> raceLaps + 1 >= LapsToGo
    BY <1>1, <1>2, <1>4, <2>1 DEF Race!Advance
  <2>6. Race!Wrap(end) = over
    BY <1>1, <1>2, <2>3 DEF Race!Wrap
  <2>7. Race!Distance(over, raceLaps + 1) = Race!Distance(progress, raceLaps) + distance
    <3>1. raceLaps * TrackLength \in Int /\ (raceLaps + 1) * TrackLength = raceLaps * TrackLength + TrackLength
      BY <1>1
    <3> QED
      BY <1>1, <1>2, <3>1 DEF Race!Distance
  <2> HIDE DEF race, over
  <2>8. Race!Wrap(progress + distance) = over
    BY <2>6
  <2> QED
    BY <1>1, <1>2, <2>3, <2>4, <2>5, <2>7, <2>8 DEF race
<1> QED
  BY <1>1, <1>2, <1>3, <1>4

\* The rivals are finitely many, and each starts on a place of its own.
LEMMA RivalsCounted ==
  ASSUME RaceConstants
  PROVE  /\ IsFiniteSet(Rivals) /\ Cardinality(Rivals) \in Nat
         /\ \A i \in Rivals : i \in Nat /\ i > 0 /\ i \in 0 .. TrackLength - 1 /\ i \in Places
<1>1. PICK n \in 0 .. TrackLength - 1 : Rivals = 1 .. n
  BY DEF RaceConstants
<1>2. n \in Nat /\ n \in Int /\ 1 \in Int /\ TrackLength \in Nat
  BY DEF RaceConstants
<1>3. IsFiniteSet(1 .. n)
  BY <1>2, FS_Interval, Zenon
<1>4. Cardinality(1 .. n) = n
  <2>1. Cardinality(1 .. n) = IF 1 > n THEN 0 ELSE n - 1 + 1
    BY <1>2, FS_Interval, Zenon
  <2> QED
    BY <1>2, <2>1
<1> QED
  BY <1>1, <1>2, <1>3, <1>4 DEF Places

\* What the rivals' records keep.
LEMMA RivalsKeepForm ==
  ASSUME NEW r \in VehicleType, NEW p \in 0 .. TrackLength - 1, NEW n \in 0 .. LapsToGo, NEW done \in BOOLEAN,
         NEW x \in 0 .. Cooldown, NEW y \in 0 .. MissCooldown, ~done => n < LapsToGo
  PROVE  [r EXCEPT !.progress = p, !.laps = n, !.finished = done, !.cooldown = x, !.miss = y] \in Vehicles
<1> DEFINE v == [r EXCEPT !.progress = p, !.laps = n, !.finished = done, !.cooldown = x, !.miss = y]
<1>1. v \in VehicleType /\ v.laps = n /\ v.finished = done
  BY DEF VehicleType
<1> HIDE DEF v
<1>2. v \in Vehicles
  BY <1>1 DEF Vehicles
<1> QED
  BY <1>2 DEF v

LEMMA RivalsDrive ==
  ASSUME RaceConstants, NEW r \in Vehicles, NEW step \in Nat
  PROVE  Race!Driven(r, step) \in Vehicles
<1>1. CASE r.finished
  BY <1>1 DEF Race!Driven
<1>2. CASE ~r.finished
  <2> DEFINE after == r.laps + (IF r.progress + step >= TrackLength THEN 1 ELSE 0)
             done == after >= LapsToGo
             p == Race!Wrap(r.progress + step)
             x == Race!AtLeast(r.cooldown - 1, 0)
             y == Race!AtLeast(r.miss - 1, 0)
  <2>1. /\ r \in VehicleType /\ r.progress \in 0 .. TrackLength - 1 /\ r.laps \in 0 .. LapsToGo /\ r.laps < LapsToGo
        /\ r.cooldown \in 0 .. Cooldown /\ r.miss \in 0 .. MissCooldown
        /\ TrackLength \in Nat \ {0} /\ LapsToGo \in Nat /\ Cooldown \in Nat /\ MissCooldown \in Nat
    BY <1>2 DEF Vehicles, VehicleType, RaceConstants
  <2>2. /\ p \in 0 .. TrackLength - 1 /\ after \in 0 .. LapsToGo /\ done \in BOOLEAN /\ (~done => after < LapsToGo)
        /\ x \in 0 .. Cooldown /\ y \in 0 .. MissCooldown
    BY <2>1 DEF Race!Wrap, Race!AtLeast
  <2>3. Race!Driven(r, step) = [r EXCEPT !.progress = p, !.laps = after, !.finished = done, !.cooldown = x, !.miss = y]
    BY <1>2 DEF Race!Driven
  <2> HIDE DEF after, done, p, x, y
  <2>4. [r EXCEPT !.progress = p, !.laps = after, !.finished = done, !.cooldown = x, !.miss = y] \in Vehicles
    BY <2>1, <2>2, RivalsKeepForm
  <2> QED
    BY <2>3, <2>4
<1> QED
  BY <1>1, <1>2

\* The rank looks at nothing but where the rivals are.
LEMMA RankLooksAhead ==
  ASSUME NEW a, NEW b, NEW p, NEW n,
         \A i \in Rivals : a[i].progress = b[i].progress /\ a[i].laps = b[i].laps
  PROVE  Race!Rank(p, n, a) = Race!Rank(p, n, b)
<1>1. {i \in Rivals : Race!Distance(a[i].progress, a[i].laps) > Race!Distance(p, n)}
      = {i \in Rivals : Race!Distance(b[i].progress, b[i].laps) > Race!Distance(p, n)}
  OBVIOUS
<1> QED
  BY <1>1 DEF Race!Rank

\* A new race: everybody else is ahead.
LEMMA RaceBegins ==
  ASSUME RaceConstants
  PROVE  /\ Race!Grid \in [Rivals -> Vehicles]
         /\ Cardinality(Rivals) + 1 = Race!Rank(0, 0, Race!Grid)
         /\ Behind(0, 0) /\ Race!Distance(0, 0) = 0 /\ Race!NewLog.travelled = 0
<1>1. /\ \A i \in Rivals : i \in 0 .. TrackLength - 1 /\ i > 0 /\ i \in Places
      /\ TrackLength \in Nat /\ LapsToGo \in Nat \ {0} /\ Cooldown \in Nat /\ MissCooldown \in Nat
  BY RivalsCounted DEF RaceConstants
<1>2. Race!Grid \in [Rivals -> Vehicles] /\ \A i \in Rivals : Race!Grid[i].progress = i /\ Race!Grid[i].laps = 0
  <2>1. ASSUME NEW i \in Rivals
        PROVE  /\ Race!Grid[i] = [progress |-> i, laps |-> 0, finished |-> FALSE, cooldown |-> 0, miss |-> 0, place |-> i]
               /\ Race!Grid[i] \in VehicleType /\ Race!Grid[i].laps = 0 /\ Race!Grid[i].progress = i
    BY <1>1 DEF Race!Grid, VehicleType
  <2>2. ASSUME NEW i \in Rivals PROVE Race!Grid[i] \in Vehicles
    <3> DEFINE v == Race!Grid[i]
    <3>1. v \in VehicleType /\ v.laps = 0
      BY <2>1, Zenon
    <3>2. 0 < LapsToGo
      BY <1>1
    <3> HIDE DEF v
    <3>3. v \in Vehicles
      BY <3>1, <3>2 DEF Vehicles
    <3> QED
      BY <3>3 DEF v
  <2>3. Race!Grid = [i \in Rivals |-> Race!Grid[i]]
    BY DEF Race!Grid
  <2> QED
    BY <2>1, <2>2, <2>3
<1>3. Race!Distance(0, 0) = 0 /\ \A i \in Rivals : Race!Distance(i, 0) = i
  BY <1>1 DEF Race!Distance
<1>4. {i \in Rivals : Race!Distance(Race!Grid[i].progress, Race!Grid[i].laps) > Race!Distance(0, 0)} = Rivals
  BY <1>1, <1>2, <1>3
<1>5. Cardinality(Rivals) \in Nat
  BY RivalsCounted
<1>6. Cardinality(Rivals) + 1 = Race!Rank(0, 0, Race!Grid)
  <2>1. Race!Rank(0, 0, Race!Grid) = 1 + Cardinality(Rivals)
    BY <1>4 DEF Race!Rank, Race!Cardinality, Cardinality
  <2> QED
    BY <2>1, <1>5
<1>7. Behind(0, 0)
  <2>1. Len(Gates) \in Nat /\ \A g \in 1 .. Len(Gates) : Gates[g] \in 1 .. TrackLength - 1
    BY DEF RaceConstants
  <2> QED
    BY <2>1 DEF Behind
<1> QED
  BY <1>2, <1>3, <1>6, <1>7 DEF Race!NewLog

LEMMA RaceStarts ==
  ASSUME RaceConstants,
         racePhase' = "countdown" /\ countdown' = CountdownTicks,
         progress' = 0 /\ raceLaps' = 0 /\ gate' = 0 /\ missed' = 0,
         offtrack' = 0 /\ integrity' = FullIntegrity,
         rival' = Race!Grid /\ position' = Cardinality(Rivals) + 1,
         log' = Race!NewLog
  PROVE  RaceInductive'
<1>1. TrackLength \in Nat \ {0} /\ CountdownTicks \in Nat \ {0} /\ FullIntegrity \in Nat \ {0}
      /\ LapsToGo \in Nat \ {0} /\ OfftrackTicks \in Nat \ {0} /\ 0 \in 0 .. TrackLength - 1
  BY DEF RaceConstants
<1>2. Behind(gate', progress')
  BY RaceBegins
<1>3. position' = Race!Rank(progress', raceLaps', rival') /\ rival' \in [Rivals -> Vehicles]
      /\ Race!Distance(progress', raceLaps') = log'.travelled
  BY RaceBegins
<1> QED
  <2>1. /\ racePhase' = "countdown" /\ countdown' = CountdownTicks /\ progress' = 0 /\ raceLaps' = 0
        /\ missed' = 0 /\ offtrack' = 0 /\ integrity' = FullIntegrity
    OBVIOUS
  <2> QED
    BY <1>1, <1>2, <1>3, <2>1 DEF RaceInductive, Behind, Racing, Race!Rank, Race!Distance

\* Each rival drives on, and is marked as met.
Driving(steps, cool, miss, place) ==
  rival' = [i \in Rivals |-> [Race!Driven(rival[i], steps[i]) EXCEPT !.cooldown = cool[i],
                                   !.miss = miss[i], !.place = place[i]]]

\* What comes of the race in a tick.
LEMMA TickIsFair ==
  ASSUME RaceConstants, RaceInductive, racePhase = "playing",
         NEW distance \in 0 .. MaxStep, NEW off \in BOOLEAN, NEW steps \in [Rivals -> 1 .. MaxStep],
         NEW struck \in SUBSET Rivals,
         Race!Race(distance, off, steps, struck),
         NEW cool \in [Rivals -> 0 .. Cooldown], NEW miss \in [Rivals -> 0 .. MissCooldown],
         NEW place \in [Rivals -> Places],
         Driving(steps, cool, miss, place),
         log'.travelled = log.travelled + distance
  PROVE  RaceInductive'
<1> DEFINE race == Race!Advance(distance)
           where == Race!Wrap(progress + distance)
           moved == Race!Moved(steps)
           left == integrity - Cardinality(struck)
<1>1. /\ offtrack' = IF off THEN offtrack + 1 ELSE 0
      /\ progress' = where /\ raceLaps' = race.laps /\ gate' = race.gate /\ missed' = race.missed
      /\ integrity' = Race!AtLeast(left, 0)
      /\ racePhase' = CASE struck # {} /\ left <= 0 -> "failed"
                        [] ~(struck # {} /\ left <= 0) /\ "FINISH" \in race.events -> "finished"
                        [] OTHER -> IF offtrack' >= OfftrackTicks THEN "failed" ELSE "playing"
      /\ position' = Race!Rank(where, race.laps, moved)
      /\ countdown' = countdown
  BY DEF Race!Race, Race!Cardinality, Cardinality
<1>2. /\ where \in 0 .. TrackLength - 1 /\ race.laps \in Nat /\ race.missed = 0
      /\ Behind(race.gate, where)
      /\ Race!Distance(where, race.laps) = Race!Distance(progress, raceLaps) + distance
      /\ "FINISH" \in race.events => race.laps = raceLaps + 1 /\ race.laps >= LapsToGo
      /\ "FINISH" \notin race.events => race.laps = raceLaps \/ (race.laps = raceLaps + 1 /\ race.laps < LapsToGo)
  BY LapsAreDriven
<1>3. /\ offtrack \in Nat /\ integrity \in Nat /\ raceLaps \in Nat
      /\ Race!Distance(progress, raceLaps) = log.travelled
      /\ raceLaps < LapsToGo /\ integrity > 0 /\ offtrack < OfftrackTicks
      /\ rival \in [Rivals -> Vehicles]
      /\ LapsToGo \in Nat /\ OfftrackTicks \in Nat \ {0} /\ MaxStep \in Nat
  BY DEF RaceInductive, Racing, RaceConstants
<1>4. /\ Cardinality(struck) \in Nat /\ (struck = {} => Cardinality(struck) = 0)
      /\ left \in Int /\ (struck = {} => left > 0)
  <2>2. IsFiniteSet(struck)
    BY RivalsCounted, FS_Subset
  <2>3. Cardinality(struck) \in Nat /\ (struck = {} => Cardinality(struck) = 0)
    BY <2>2, FS_CardinalityType, FS_EmptySet
  <2> QED
    BY <2>3, <1>3
<1>5. /\ rival' \in [Rivals -> Vehicles]
      /\ \A i \in Rivals : rival'[i].progress = moved[i].progress /\ rival'[i].laps = moved[i].laps
  <2>1. \A i \in Rivals : rival[i] \in Vehicles /\ steps[i] \in Nat /\ cool[i] \in 0 .. Cooldown
                           /\ miss[i] \in 0 .. MissCooldown /\ place[i] \in Places
    BY <1>3
  <2>2. \A i \in Rivals : moved[i] = Race!Driven(rival[i], steps[i]) /\ moved[i] \in Vehicles
    BY <2>1, RivalsDrive DEF Race!Moved
  <2> DEFINE after(i) == [moved[i] EXCEPT !.cooldown = cool[i], !.miss = miss[i], !.place = place[i]]
  <2>3. \A i \in Rivals : after(i) \in Vehicles /\ after(i).progress = moved[i].progress
                           /\ after(i).laps = moved[i].laps
    <3> HIDE DEF moved
    <3> SUFFICES ASSUME NEW i \in Rivals
                 PROVE  after(i) \in Vehicles /\ after(i).progress = moved[i].progress
                        /\ after(i).laps = moved[i].laps
      OBVIOUS
    <3>1. moved[i] \in Vehicles /\ cool[i] \in 0 .. Cooldown /\ miss[i] \in 0 .. MissCooldown /\ place[i] \in Places
      BY <2>1, <2>2
    <3>2. /\ [moved[i] EXCEPT !.cooldown = cool[i], !.miss = miss[i], !.place = place[i]] \in Vehicles
          /\ [moved[i] EXCEPT !.cooldown = cool[i], !.miss = miss[i], !.place = place[i]].progress = moved[i].progress
          /\ [moved[i] EXCEPT !.cooldown = cool[i], !.miss = miss[i], !.place = place[i]].laps = moved[i].laps
      <4> DEFINE r == moved[i]
                 x == cool[i]
                 y == miss[i]
                 z == place[i]
      <4>1. r \in Vehicles /\ x \in 0 .. Cooldown /\ y \in 0 .. MissCooldown /\ z \in Places
        BY ONLY <3>1
      <4> HIDE DEF r, x, y, z
      <4> DEFINE v == [r EXCEPT !.cooldown = x, !.miss = y, !.place = z]
      <4>2. r \in VehicleType /\ (~r.finished => r.laps < LapsToGo)
        BY ONLY <4>1 DEF Vehicles
      <4>3. v \in VehicleType /\ v.progress = r.progress /\ v.laps = r.laps /\ v.finished = r.finished
        BY ONLY <4>1, <4>2 DEF VehicleType
      <4> HIDE DEF v
      <4>4. v \in Vehicles /\ v.progress = r.progress /\ v.laps = r.laps
        BY ONLY <4>2, <4>3 DEF Vehicles
      <4> QED
        BY <4>4 DEF r, x, y, z, v
    <3> QED
      BY <3>2
  <2>4. rival' = [i \in Rivals |-> after(i)]
    BY <2>2 DEF Driving
  <2> HIDE DEF after, moved
  <2> QED
    BY <2>3, <2>4
<1>6. position' = Race!Rank(progress', raceLaps', rival')
  <2> HIDE DEF moved
  <2> QED
    BY <1>1, <1>5, RankLooksAhead
<1>7. Race!Distance(progress', raceLaps') = log'.travelled
  BY <1>1, <1>2, <1>3
<1>8. Behind(gate', progress') /\ missed' = 0
  BY <1>1, <1>2
<1>9. /\ racePhase' \in {"countdown", "playing", "finished", "failed"}
      /\ offtrack' \in Nat /\ integrity' \in Nat /\ raceLaps' \in Nat /\ progress' \in 0 .. TrackLength - 1
      /\ racePhase' \in {"countdown", "playing"} => raceLaps' < LapsToGo /\ integrity' > 0 /\ offtrack' < OfftrackTicks
      /\ racePhase' = "finished" => raceLaps' = LapsToGo /\ integrity' > 0
      /\ racePhase' = "failed" => integrity' = 0 \/ offtrack' = OfftrackTicks
  <2> HIDE DEF race, where, left
  <2>1. integrity' \in Nat /\ (left <= 0 => integrity' = 0) /\ (left > 0 => integrity' = left)
    BY <1>1, <1>4 DEF Race!AtLeast
  <2>2. offtrack' \in Nat /\ offtrack' <= OfftrackTicks
    BY <1>1, <1>3
  <2>3. CASE struck # {} /\ left <= 0
    BY <1>1, <1>2, <2>1, <2>2, <2>3
  <2>4. CASE ~(struck # {} /\ left <= 0)
    <3>1. left > 0 /\ integrity' > 0
      BY <1>4, <2>1, <2>4
    <3>2. CASE "FINISH" \in race.events
      BY <1>1, <1>2, <1>3, <2>2, <2>4, <3>1, <3>2, <2>1
    <3>3. CASE "FINISH" \notin race.events
      BY <1>1, <1>2, <1>3, <2>2, <2>4, <3>1, <3>3, <2>1
    <3> QED
      BY <3>2, <3>3
  <2> QED
    BY <2>3, <2>4
<1>10. /\ raceLaps' <= LapsToGo /\ offtrack' <= OfftrackTicks /\ integrity' <= FullIntegrity
       /\ countdown' \in 0 .. CountdownTicks /\ racePhase' # "countdown"
  <2> HIDE DEF race, where, left
  <2>1. countdown \in 0 .. CountdownTicks /\ integrity <= FullIntegrity /\ FullIntegrity \in Nat
    BY DEF RaceInductive, RaceConstants
  <2>2. left <= integrity
    BY <1>3, <1>4 DEF left
  <2>3. integrity' <= FullIntegrity
    BY <1>1, <1>3, <1>4, <2>1, <2>2 DEF Race!AtLeast
  <2>4. raceLaps' <= LapsToGo /\ offtrack' <= OfftrackTicks
    BY <1>1, <1>2, <1>3
  <2>5. racePhase' # "countdown"
    BY <1>1
  <2> QED
    BY <1>1, <2>1, <2>3, <2>4, <2>5
<1> QED
  BY <1>1, <1>3, <1>5, <1>6, <1>7, <1>8, <1>9, <1>10 DEF RaceInductive, Behind, Racing, Race!Rank,
     Race!Distance

LEMMA PlacesAreNumbers ==
  ASSUME RaceConstants, NEW i \in Rivals, NEW p, NEW n, NEW rivals
  PROVE  Race!Place(i, p, n, rivals) \in Places
<1> DEFINE at == Race!Distance(rivals[i].progress, rivals[i].laps)
           S == {j \in Rivals \ {i} : Race!Distance(rivals[j].progress, rivals[j].laps) > at}
<1>1. Cardinality(S) \in Nat /\ Cardinality(S) + 1 <= Cardinality(Rivals) /\ Cardinality(Rivals) \in Nat
  <2>1. IsFiniteSet(Rivals \ {i}) /\ Cardinality(Rivals \ {i}) = Cardinality(Rivals) - 1 /\ Cardinality(Rivals) \in Nat
    BY RivalsCounted, FS_RemoveElement
  <2>2. S \subseteq Rivals \ {i}
    OBVIOUS
  <2> HIDE DEF S
  <2>3. Cardinality(S) <= Cardinality(Rivals \ {i}) /\ IsFiniteSet(S)
    BY <2>1, <2>2, FS_Subset
  <2>4. Cardinality(S) \in Nat
    BY <2>3, FS_CardinalityType
  <2> QED
    BY <2>1, <2>3, <2>4
<1>2. Race!Place(i, p, n, rivals) = 1 + Cardinality(S) + (IF Race!Distance(p, n) > at THEN 1 ELSE 0)
  BY DEF Race!Place, Race!Cardinality, Cardinality
<1> QED
  <2> HIDE DEF S, at
  <2> QED
    BY <1>1, <1>2 DEF Places

\* The parts of a tick, with those it brings together.
TickOf(distance, off, steps, keys, slide, moved, where, struck, passed) ==
  /\ Race!Race(distance, off, steps, struck)
  /\ rival' = [i \in Rivals |->
       [moved[i] EXCEPT !.cooldown = IF i \in struck THEN Cooldown ELSE @,
                        !.miss = IF i \in passed THEN MissCooldown ELSE @,
                        !.place = Race!Place(i, where, raceLaps', moved)]]
  /\ Race!Ridden(distance, keys, slide, where, struck, passed)

LEMMA TickParts ==
  ASSUME NEW distance, NEW off, NEW steps, NEW hits, NEW passes, NEW keys, NEW slide,
         Race!Drive(distance, off, steps, hits, passes, keys, slide)
  PROVE  LET moved == Race!Moved(steps)
             where == Race!Wrap(progress + distance)
             struck == Race!Struck(hits, where, moved)
             passed == Race!Passed(passes, where, moved)
         IN /\ racePhase = "playing"
            /\ TickOf(distance, off, steps, keys, slide, moved, where, struck, passed)
<1>1. /\ racePhase = "playing"
      /\ \E m \in {Race!Moved(steps)}, w \in {Race!Wrap(progress + distance)} :
         \E s \in {Race!Struck(hits, w, m)}, t \in {Race!Passed(passes, w, m)} :
           TickOf(distance, off, steps, keys, slide, m, w, s, t)
  BY DEF Race!Drive, TickOf
<1> QED
  BY ONLY <1>1

LEMMA DriveIsFair ==
  ASSUME RaceConstants, RaceInductive,
         NEW distance \in 0 .. MaxStep, NEW off \in BOOLEAN, NEW steps \in [Rivals -> 1 .. MaxStep],
         NEW hits \in SUBSET Rivals, NEW passes \in SUBSET Rivals, NEW keys, NEW slide,
         Race!Drive(distance, off, steps, hits, passes, keys, slide)
  PROVE  RaceInductive'
<1> DEFINE moved == Race!Moved(steps)
           where == Race!Wrap(progress + distance)
           struck == Race!Struck(hits, where, moved)
           passed == Race!Passed(passes, where, moved)
<1>1. /\ racePhase = "playing"
      /\ TickOf(distance, off, steps, keys, slide, moved, where, struck, passed)
  BY TickParts
<1> DEFINE cool == [i \in Rivals |-> IF i \in struck THEN Cooldown ELSE moved[i].cooldown]
           miss == [i \in Rivals |-> IF i \in passed THEN MissCooldown ELSE moved[i].miss]
           place == [i \in Rivals |-> Race!Place(i, where, raceLaps', moved)]
<1>2. \A i \in Rivals : moved[i] = Race!Driven(rival[i], steps[i]) /\ moved[i] \in Vehicles
  <2>1. \A i \in Rivals : rival[i] \in Vehicles /\ steps[i] \in Nat
    BY DEF RaceInductive, RaceConstants
  <2> QED
    BY <2>1, RivalsDrive DEF Race!Moved
<1>3. cool \in [Rivals -> 0 .. Cooldown] /\ miss \in [Rivals -> 0 .. MissCooldown] /\ place \in [Rivals -> Places]
  <2>1. \A i \in Rivals : /\ moved[i].cooldown \in 0 .. Cooldown /\ moved[i].miss \in 0 .. MissCooldown
                           /\ Cooldown \in 0 .. Cooldown /\ MissCooldown \in 0 .. MissCooldown
    <3> HIDE DEF moved
    <3>1. \A v \in Vehicles : v.cooldown \in 0 .. Cooldown /\ v.miss \in 0 .. MissCooldown
      BY DEF Vehicles, VehicleType
    <3> QED
      BY <1>2, <3>1 DEF RaceConstants
  <2>2. \A i \in Rivals : Race!Place(i, where, raceLaps', moved) \in Places
    <3> HIDE DEF moved, where
    <3> QED
      BY PlacesAreNumbers
  <2> HIDE DEF moved, where, struck, passed
  <2> QED
    BY <2>1, <2>2
<1>4. Driving(steps, cool, miss, place)
  <2>1. \A i \in Rivals :
          [moved[i] EXCEPT !.cooldown = IF i \in struck THEN Cooldown ELSE @,
                           !.miss = IF i \in passed THEN MissCooldown ELSE @,
                           !.place = Race!Place(i, where, raceLaps', moved)]
          = [Race!Driven(rival[i], steps[i]) EXCEPT !.cooldown = cool[i], !.miss = miss[i], !.place = place[i]]
    <3> HIDE DEF struck, passed, where
    <3> QED
      BY <1>2 DEF Vehicles, VehicleType
  <2> HIDE DEF moved, where, struck, passed, cool, miss, place
  <2> QED
    BY <1>1, <2>1 DEF Driving, TickOf
<1>5. struck \in SUBSET Rivals
  BY DEF Race!Struck
<1>6. log'.travelled = log.travelled + distance
  <2>1. \E b : log' = [travelled |-> log.travelled + distance,
                       jumps |-> log.jumps + (IF "JUMP" \in b.flags THEN 1 ELSE 0),
                       cues |-> IF "nitro" \notin keys THEN 0
                                ELSE log.cues + (IF "NITRO" \in b.flags THEN 1 ELSE 0),
                       since |-> IF b.combo > 0 /\ "COMBO" \in b.flags THEN 0
                                 ELSE Race!AtMost(log.since + 1, ComboTimeout + 1),
                       events |-> b.flags, played |-> Race!Play(b).played]
    BY <1>1, Zenon DEF Race!Ridden, TickOf
  <2> QED
    BY ONLY <2>1
<1> HIDE DEF moved, where, struck, passed, cool, miss, place
<1> QED
  BY <1>1, <1>3, <1>4, <1>5, <1>6, TickIsFair DEF TickOf

LEMMA NextKeepsRace ==
  ASSUME RaceConstants, RaceInductive, [Race!Next]_(Race!vars)
  PROVE  RaceInductive'
<1>1. CASE Race!Countdown
  <2>1. /\ racePhase = "countdown" /\ countdown' = countdown - 1
        /\ racePhase' = (IF countdown' = 0 THEN "playing" ELSE racePhase)
        /\ UNCHANGED <<progress, raceLaps, gate, missed, offtrack, integrity, rival, position>>
        /\ log'.travelled = log.travelled
    BY <1>1 DEF Race!Countdown
  <2>2. countdown' \in 0 .. CountdownTicks /\ (racePhase' = "countdown" => countdown' > 0)
    BY <2>1 DEF RaceInductive, RaceConstants
  <2> QED
    BY <2>1, <2>2 DEF RaceInductive, Racing, Behind, Race!Rank, Race!Distance
<1>2. ASSUME NEW distance \in 0 .. MaxStep, NEW off \in BOOLEAN, NEW steps \in [Rivals -> 1 .. MaxStep],
             NEW hits \in SUBSET Rivals, NEW keys,
             NEW passes \in (IF MissGaps = {} THEN {{}} ELSE SUBSET (Rivals \ hits)), NEW slide,
             Race!Drive(distance, off, steps, hits, passes, keys, slide)
      PROVE  RaceInductive'
  <2>1. passes \in SUBSET Rivals
    OBVIOUS
  <2> QED
    BY <1>2, <2>1, DriveIsFair
<1>3. CASE Race!Over
  <2>1. /\ UNCHANGED <<racePhase, countdown, progress, raceLaps, gate, missed, offtrack, integrity, rival, position>>
        /\ log'.travelled = log.travelled
    BY <1>3 DEF Race!Over
  <2> QED
    BY <2>1 DEF RaceInductive, Racing, Behind, Race!Rank, Race!Distance
<1>4. CASE Race!Reset
  <2>1. Cardinality(Rivals) + 1 = Race!Cardinality(Rivals) + 1
    BY DEF Race!Cardinality, Cardinality
  <2> QED
    BY <1>4, <2>1, RaceStarts DEF Race!Reset
<1>5. CASE UNCHANGED Race!vars
  BY <1>5 DEF Race!vars, RaceInductive, Racing, Behind, Race!Rank, Race!Distance
<1> QED
  BY <1>1, <1>2, <1>3, <1>4, <1>5 DEF Race!Next

LEMMA InitIsRace ==
  ASSUME RaceConstants, Race!Init
  PROVE  RaceInductive
<1>1. /\ Race!Grid \in [Rivals -> Vehicles]
      /\ Cardinality(Rivals) + 1 = Race!Rank(0, 0, Race!Grid)
      /\ Behind(0, 0) /\ Race!Distance(0, 0) = 0 /\ Race!NewLog.travelled = 0
  BY RaceBegins
<1>2. TrackLength \in Nat \ {0} /\ CountdownTicks \in Nat \ {0} /\ FullIntegrity \in Nat \ {0}
      /\ LapsToGo \in Nat \ {0} /\ OfftrackTicks \in Nat \ {0} /\ 0 \in 0 .. TrackLength - 1
  BY DEF RaceConstants
<1>3. /\ racePhase = "countdown" /\ countdown = CountdownTicks
      /\ progress = 0 /\ raceLaps = 0 /\ gate = 0 /\ missed = 0
      /\ offtrack = 0 /\ integrity = FullIntegrity
      /\ rival = Race!Grid /\ position = Cardinality(Rivals) + 1
      /\ log = Race!NewLog
  BY DEF Race!Init, Race!Cardinality, Cardinality
<1> QED
  BY <1>1, <1>2, <1>3 DEF RaceInductive, Racing

\* On any track, whatever comes together in a tick, the laps and the gates
\* are those driven, the position counts who is ahead, and a race ends when
\* something has ended it (RaceIsFair).
THEOREM RacesAreFair == RaceConstants => (Race!Spec => []Race!RaceIsFair)
<1> SUFFICES ASSUME RaceConstants PROVE Race!Spec => []Race!RaceIsFair
  OBVIOUS
<1>1. Race!Init => RaceInductive
  BY InitIsRace
<1>2. RaceInductive /\ [Race!Next]_(Race!vars) => RaceInductive'
  BY NextKeepsRace
<1>3. RaceInductive => Race!RaceIsFair
  <2> SUFFICES ASSUME RaceInductive PROVE Race!RaceIsFair
    OBVIOUS
  <2>1. gate = Cardinality({g \in DOMAIN Gates : Gates[g] <= progress})
    BY GatesCounted DEF RaceInductive
  <2> QED
    BY <2>1 DEF RaceInductive, Racing, Race!RaceIsFair, Race!Cardinality, Cardinality
<1> QED
  BY <1>1, <1>2, <1>3, PTL DEF Race!Spec

Bikes == [height : Int, rise : Int, armed : BOOLEAN, nitro : 0 .. Tank, active : BOOLEAN,
          drifting : BOOLEAN, risk : 0 .. MaxRisk, combo : 0 .. MaxCombo, timer : 0 .. ComboTimeout,
          flags : SUBSET Race!Events, serial : Nat, heard : Nat]

\* What only one part of a tick changes.
SameNitro(a, b) == a.nitro = b.nitro /\ a.active = b.active
SameDrift(a, b) == a.drifting = b.drifting
SameFlight(a, b) == a.height = b.height /\ a.rise = b.rise /\ a.armed = b.armed
SameCombo(a, b) == a.risk = b.risk /\ a.combo = b.combo /\ a.timer = b.timer
SameSerial(a, b) == a.serial = b.serial /\ a.heard = b.heard
SameEvents(a, b, events) == \A e \in events : e \in a.flags <=> e \in b.flags

LEMMA NitroOfTick ==
  ASSUME RideConstants, NEW b \in Bikes, NEW pressed
  PROVE  LET a == Race!Fuelled(b, pressed)
             burning == pressed /\ b.nitro > 0 /\ b.nitro > Drain
         IN /\ a \in Bikes
            /\ SameDrift(a, b) /\ SameFlight(a, b) /\ SameCombo(a, b) /\ SameSerial(a, b)
            /\ SameEvents(a, b, Race!Events \ {"NITRO"})
            /\ a.active <=> burning
            /\ a.nitro = IF pressed /\ b.nitro > 0 THEN Race!AtLeast(b.nitro - Drain, 0)
                         ELSE Race!AtMost(b.nitro + Recharge, Tank)
            /\ "NITRO" \in a.flags <=> ("NITRO" \in b.flags \/ (burning /\ ~b.active))
<1> DEFINE burns == pressed /\ b.nitro > 0
           burning == burns /\ b.nitro > Drain
           n == IF burns THEN Race!AtLeast(b.nitro - Drain, 0) ELSE Race!AtMost(b.nitro + Recharge, Tank)
           f == b.flags \cup (IF burning /\ ~b.active THEN {"NITRO"} ELSE {})
           a == [b EXCEPT !.nitro = n, !.active = burning, !.flags = f]
<1>1. Race!Fuelled(b, pressed) = a
  BY DEF Race!Fuelled
<1>2. n \in 0 .. Tank /\ burning \in BOOLEAN /\ f \in SUBSET Race!Events
  BY DEF Bikes, RideConstants, Race!AtLeast, Race!AtMost, Race!Events
<1>3. /\ a \in Bikes
      /\ SameDrift(a, b) /\ SameFlight(a, b) /\ SameCombo(a, b) /\ SameSerial(a, b)
      /\ a.nitro = n /\ a.active = burning /\ a.flags = f
  <2> HIDE DEF n, burning, f
  <2> QED
    BY <1>2 DEF Bikes, SameDrift, SameFlight, SameCombo, SameSerial
<1> QED
  <2> HIDE DEF a
  <2> QED
    BY <1>1, <1>3 DEF SameEvents

LEMMA DriftOfTick ==
  ASSUME NEW b \in Bikes, NEW pressed
  PROVE  LET a == Race!Drifts(b, pressed)
         IN /\ a \in Bikes
            /\ SameNitro(a, b) /\ SameFlight(a, b) /\ SameCombo(a, b) /\ SameSerial(a, b)
            /\ SameEvents(a, b, Race!Events \ {"DRIFT"})
<1> DEFINE slides == pressed /\ b.height = 0
           f == b.flags \cup (IF slides /\ ~b.drifting /\ offtrack = 0 THEN {"DRIFT"} ELSE {})
           a == [b EXCEPT !.drifting = slides, !.flags = f]
<1>1. Race!Drifts(b, pressed) = a
  BY DEF Race!Drifts
<1>2. slides \in BOOLEAN /\ f \in SUBSET Race!Events
  BY DEF Bikes, Race!Events
<1>3. /\ a \in Bikes
      /\ SameNitro(a, b) /\ SameFlight(a, b) /\ SameCombo(a, b) /\ SameSerial(a, b)
      /\ a.flags = f
  <2> HIDE DEF slides, f
  <2> QED
    BY <1>2 DEF Bikes, SameNitro, SameFlight, SameCombo, SameSerial
<1> QED
  <2> HIDE DEF a
  <2> QED
    BY <1>1, <1>3 DEF SameEvents

\* A bike that flies higher, lands, or is thrown.
Landed(b, h, v, f) == [b EXCEPT !.rise = v, !.height = h, !.flags = f]
Jumping(b, h, v, e, f) == [b EXCEPT !.height = h, !.rise = v, !.armed = e, !.flags = f]
Climbing(b, h, v) == [b EXCEPT !.rise = v, !.height = h]

LEMMA JumpIsFlight ==
  ASSUME NEW b \in Bikes, NEW h \in Int, NEW v \in Int, NEW e \in BOOLEAN, NEW f \in SUBSET Race!Events
  PROVE  LET a == Jumping(b, h, v, e, f)
         IN /\ a \in Bikes /\ a.armed = e /\ a.flags = f
            /\ SameNitro(a, b) /\ SameDrift(a, b) /\ SameCombo(a, b) /\ SameSerial(a, b)
<1> DEFINE a == Jumping(b, h, v, e, f)
<1>1. a \in Bikes
  BY DEF Bikes, Jumping
<1>2. a.armed = e /\ a.flags = f
  BY DEF Bikes, Jumping
<1>3. SameNitro(a, b) /\ SameDrift(a, b)
  BY DEF Bikes, Jumping, SameNitro, SameDrift
<1>4. SameCombo(a, b) /\ SameSerial(a, b)
  BY DEF Bikes, Jumping, SameCombo, SameSerial
<1> QED
  BY <1>1, <1>2, <1>3, <1>4

LEMMA LandingIsFlight ==
  ASSUME NEW b \in Bikes, NEW h \in Int, NEW v \in Int, NEW f \in SUBSET Race!Events
  PROVE  LET a == Landed(b, h, v, f)
         IN /\ a \in Bikes /\ a.armed = b.armed /\ a.flags = f
            /\ SameNitro(a, b) /\ SameDrift(a, b) /\ SameCombo(a, b) /\ SameSerial(a, b)
<1> DEFINE a == Landed(b, h, v, f)
<1>1. a \in Bikes
  BY DEF Bikes, Landed
<1>2. a.armed = b.armed /\ a.flags = f
  BY DEF Bikes, Landed
<1>3. SameNitro(a, b) /\ SameDrift(a, b)
  BY DEF Bikes, Landed, SameNitro, SameDrift
<1>4. SameCombo(a, b) /\ SameSerial(a, b)
  BY DEF Bikes, Landed, SameCombo, SameSerial
<1> QED
  BY <1>1, <1>2, <1>3, <1>4

LEMMA ClimbIsFlight ==
  ASSUME NEW b \in Bikes, NEW h \in Int, NEW v \in Int
  PROVE  LET a == Climbing(b, h, v)
         IN /\ a \in Bikes /\ a.armed = b.armed /\ a.flags = b.flags
            /\ SameNitro(a, b) /\ SameDrift(a, b) /\ SameCombo(a, b) /\ SameSerial(a, b)
<1> DEFINE a == Climbing(b, h, v)
<1>1. a \in Bikes
  BY DEF Bikes, Climbing
<1>2. a.armed = b.armed /\ a.flags = b.flags
  BY DEF Bikes, Climbing
<1>3. SameNitro(a, b) /\ SameDrift(a, b)
  BY DEF Bikes, Climbing, SameNitro, SameDrift
<1>4. SameCombo(a, b) /\ SameSerial(a, b)
  BY DEF Bikes, Climbing, SameCombo, SameSerial
<1> QED
  BY <1>1, <1>2, <1>3, <1>4

\* The ramp throws an armed bike, and disarms it.
LEMMA FlightOfTick ==
  ASSUME RideConstants, NEW b \in Bikes, NEW where \in Nat, NEW distance
  PROVE  LET a == Race!Flown(b, where, distance)
         IN /\ a \in Bikes
            /\ SameNitro(a, b) /\ SameDrift(a, b) /\ SameCombo(a, b) /\ SameSerial(a, b)
            /\ SameEvents(a, b, Race!Events \ {"JUMP", "LANDING"})
            /\ a.armed => b.armed \/ where >= Rearm
            /\ "JUMP" \in a.flags /\ "JUMP" \notin b.flags => b.armed /\ where \in Ramp /\ ~a.armed
<1> DEFINE arm == b.armed \/ where >= Rearm
           prepared == [b EXCEPT !.armed = arm]
           thrown == prepared.height = 0 /\ prepared.armed /\ where \in Ramp /\ distance >= LaunchStep
           f == prepared.flags \cup {"JUMP"}
           x == Jumping(prepared, 1, JumpSpeed, FALSE, f)
           up == Race!Launched(prepared, where, distance)
           rise == up.rise - Gravity
           height == up.height + rise
           g == up.flags \cup {"LANDING"}
           y == Climbing(up, height, rise)
           z == Landed(up, 0, 0, g)
           a == Race!Flown(b, where, distance)
<1>1. /\ prepared \in Bikes /\ prepared.armed = arm /\ prepared.flags = b.flags
      /\ SameNitro(prepared, b) /\ SameDrift(prepared, b) /\ SameCombo(prepared, b) /\ SameSerial(prepared, b)
  <2>1. arm \in BOOLEAN
    OBVIOUS
  <2> HIDE DEF arm
  <2> QED
    BY <2>1 DEF Bikes, SameNitro, SameDrift, SameCombo, SameSerial
<1>2. where \in Ramp => ~(where >= Rearm)
  BY DEF RideConstants
<1>3. a = IF up.height = 0 THEN up ELSE IF height > 0 THEN y ELSE z
  BY DEF Race!Flown, Climbing, Landed
<1>4. up = IF thrown THEN x ELSE prepared
  <2> HIDE DEF prepared
  <2> QED
    BY DEF Race!Launched, Jumping
<1>5. thrown => prepared.armed /\ where \in Ramp
  OBVIOUS
<1> HIDE DEF prepared, thrown
<1>6. /\ x \in Bikes /\ ~x.armed /\ x.flags = prepared.flags \cup {"JUMP"}
      /\ SameNitro(x, prepared) /\ SameDrift(x, prepared) /\ SameCombo(x, prepared) /\ SameSerial(x, prepared)
  <2>1. f \in SUBSET Race!Events /\ JumpSpeed \in Int /\ 1 \in Int /\ FALSE \in BOOLEAN
    BY <1>1 DEF Bikes, Race!Events, RideConstants
  <2>2. /\ x \in Bikes /\ x.armed = FALSE /\ x.flags = f
        /\ SameNitro(x, prepared) /\ SameDrift(x, prepared) /\ SameCombo(x, prepared) /\ SameSerial(x, prepared)
    <3> HIDE DEF f
    <3> QED
      BY <1>1, <2>1, JumpIsFlight
  <2> HIDE DEF x
  <2> QED
    BY <2>2
<1> HIDE DEF x
<1>7. /\ up \in Bikes
      /\ SameNitro(up, b) /\ SameDrift(up, b) /\ SameCombo(up, b) /\ SameSerial(up, b)
      /\ SameEvents(up, b, Race!Events \ {"JUMP", "LANDING"})
      /\ up = prepared \/ (thrown /\ ~up.armed)
  <2> HIDE DEF up
  <2>1. CASE up = prepared
    BY <2>1, <1>1 DEF SameEvents
  <2>2. CASE up = x /\ thrown
    BY <2>2, <1>1, <1>6 DEF SameNitro, SameDrift, SameCombo, SameSerial, SameEvents
  <2> QED
    BY <1>4, <2>1, <2>2
<1> HIDE DEF up
<1>8. rise \in Int /\ height \in Int /\ g \in SUBSET Race!Events
  BY <1>7 DEF Bikes, RideConstants, Race!Events
<1>9. /\ y \in Bikes /\ y.armed = up.armed /\ y.flags = up.flags
      /\ SameNitro(y, up) /\ SameDrift(y, up) /\ SameCombo(y, up) /\ SameSerial(y, up)
  <2> HIDE DEF rise, height
  <2> QED
    BY <1>7, <1>8, ClimbIsFlight
<1>10. /\ z \in Bikes /\ z.armed = up.armed /\ z.flags = up.flags \cup {"LANDING"}
       /\ SameNitro(z, up) /\ SameDrift(z, up) /\ SameCombo(z, up) /\ SameSerial(z, up)
  <2>1. 0 \in Int
    OBVIOUS
  <2>2. /\ z \in Bikes /\ z.armed = up.armed /\ z.flags = g
        /\ SameNitro(z, up) /\ SameDrift(z, up) /\ SameCombo(z, up) /\ SameSerial(z, up)
    <3> HIDE DEF g
    <3> QED
      BY <1>7, <1>8, <2>1, LandingIsFlight
  <2> HIDE DEF z
  <2> QED
    BY <2>2
<1> HIDE DEF y, z, a
<1>11. /\ a \in Bikes /\ a.armed = up.armed /\ ("JUMP" \in a.flags <=> "JUMP" \in up.flags)
       /\ SameNitro(a, b) /\ SameDrift(a, b) /\ SameCombo(a, b) /\ SameSerial(a, b)
       /\ SameEvents(a, b, Race!Events \ {"JUMP", "LANDING"})
  <2>1. CASE a = up
    BY <2>1, <1>7
  <2>2. CASE a = y
    BY <2>2, <1>7, <1>9 DEF SameNitro, SameDrift, SameCombo, SameSerial, SameEvents
  <2>3. CASE a = z
    BY <2>3, <1>7, <1>10 DEF SameNitro, SameDrift, SameCombo, SameSerial, SameEvents
  <2> QED
    BY <1>3, <2>1, <2>2, <2>3
<1>12. a.armed => b.armed \/ where >= Rearm
  BY <1>1, <1>7, <1>11
<1>13. "JUMP" \in a.flags /\ "JUMP" \notin b.flags => b.armed /\ where \in Ramp /\ ~a.armed
  BY <1>1, <1>2, <1>5, <1>7, <1>11
<1> QED
  BY <1>11, <1>12, <1>13 DEF a

\* A bike with another combo and another risk.
Scoring(b, combo, timer, risk, f) == [b EXCEPT !.combo = combo, !.timer = timer, !.risk = risk, !.flags = f]

LEMMA ScoreIsCombo ==
  ASSUME NEW b \in Bikes, NEW combo \in 0 .. MaxCombo, NEW timer \in 0 .. ComboTimeout, NEW risk \in 0 .. MaxRisk,
         NEW f \in SUBSET Race!Events
  PROVE  LET a == Scoring(b, combo, timer, risk, f)
         IN /\ a \in Bikes
            /\ a.combo = combo /\ a.timer = timer /\ a.risk = risk /\ a.flags = f
            /\ SameNitro(a, b) /\ SameDrift(a, b) /\ SameFlight(a, b) /\ SameSerial(a, b)
<1> DEFINE a == Scoring(b, combo, timer, risk, f)
<1>1. a \in Bikes
  BY DEF Bikes, Scoring
<1>2. a.combo = combo /\ a.timer = timer /\ a.risk = risk /\ a.flags = f
  BY DEF Bikes, Scoring
<1>3. SameNitro(a, b) /\ SameDrift(a, b)
  BY DEF Bikes, Scoring, SameNitro, SameDrift
<1>4. SameFlight(a, b) /\ SameSerial(a, b)
  BY DEF Bikes, Scoring, SameFlight, SameSerial
<1> QED
  BY <1>1, <1>2, <1>3, <1>4

\* The same, where a part of it stays as it is.
Tired(b, combo, timer, risk) == [b EXCEPT !.combo = combo, !.timer = timer, !.risk = risk]
Rewarded(b, combo, timer, f) == [b EXCEPT !.combo = combo, !.timer = timer, !.flags = f]
Paid(b, risk, f) == [b EXCEPT !.risk = risk, !.flags = f]
Flagged(b, f) == [b EXCEPT !.flags = f]

LEMMA PartsScore ==
  ASSUME NEW b \in Bikes, NEW combo, NEW timer, NEW risk, NEW f
  PROVE  /\ Tired(b, combo, timer, risk) = Scoring(b, combo, timer, risk, b.flags)
         /\ Rewarded(b, combo, timer, f) = Scoring(b, combo, timer, b.risk, f)
         /\ Paid(b, risk, f) = Scoring(b, b.combo, b.timer, risk, f)
         /\ Flagged(b, f) = Scoring(b, b.combo, b.timer, b.risk, f)
<1>1. Tired(b, combo, timer, risk)
      = [b EXCEPT !.combo = combo, !.timer = timer, !.risk = risk, !.flags = b.flags]
  BY DEF Tired, Bikes
<1>2. Rewarded(b, combo, timer, f)
      = [b EXCEPT !.combo = combo, !.timer = timer, !.risk = b.risk, !.flags = f]
  BY DEF Rewarded, Bikes
<1>3. Paid(b, risk, f) = [b EXCEPT !.combo = b.combo, !.timer = b.timer, !.risk = risk, !.flags = f]
  BY DEF Paid, Bikes
<1>4. Flagged(b, f) = [b EXCEPT !.combo = b.combo, !.timer = b.timer, !.risk = b.risk, !.flags = f]
  BY DEF Flagged, Bikes
<1> QED
  BY <1>1, <1>2, <1>3, <1>4 DEF Scoring

LEMMA NothingScored ==
  ASSUME RideConstants
  PROVE  0 \in 0 .. MaxCombo /\ 0 \in 0 .. ComboTimeout /\ 0 \in 0 .. MaxRisk
BY DEF RideConstants

\* Whatever is scored, the rest of the bike stays.
Scored(a, b) ==
  /\ a \in Bikes
  /\ SameNitro(a, b) /\ SameDrift(a, b) /\ SameFlight(a, b) /\ SameSerial(a, b)

LEMMA PartsKeep ==
  ASSUME NEW b \in Bikes, NEW combo \in 0 .. MaxCombo, NEW timer \in 0 .. ComboTimeout, NEW risk \in 0 .. MaxRisk,
         NEW f \in SUBSET Race!Events
  PROVE  /\ LET a == Tired(b, combo, timer, risk)
            IN Scored(a, b) /\ a.combo = combo /\ a.timer = timer /\ a.risk = risk /\ a.flags = b.flags
         /\ LET a == Rewarded(b, combo, timer, f)
            IN Scored(a, b) /\ a.combo = combo /\ a.timer = timer /\ a.risk = b.risk /\ a.flags = f
         /\ LET a == Paid(b, risk, f)
            IN Scored(a, b) /\ a.combo = b.combo /\ a.timer = b.timer /\ a.risk = risk /\ a.flags = f
         /\ LET a == Flagged(b, f)
            IN Scored(a, b) /\ SameCombo(a, b) /\ a.flags = f
<1>1. /\ b.combo \in 0 .. MaxCombo /\ b.timer \in 0 .. ComboTimeout /\ b.risk \in 0 .. MaxRisk
      /\ b.flags \in SUBSET Race!Events
  BY DEF Bikes
<1>2. \A c \in 0 .. MaxCombo, t \in 0 .. ComboTimeout, r \in 0 .. MaxRisk, g \in SUBSET Race!Events :
        LET a == Scoring(b, c, t, r, g)
        IN Scored(a, b) /\ a.combo = c /\ a.timer = t /\ a.risk = r /\ a.flags = g
  BY ScoreIsCombo DEF Scored
<1>3. /\ Tired(b, combo, timer, risk) = Scoring(b, combo, timer, risk, b.flags)
      /\ Rewarded(b, combo, timer, f) = Scoring(b, combo, timer, b.risk, f)
      /\ Paid(b, risk, f) = Scoring(b, b.combo, b.timer, risk, f)
      /\ Flagged(b, f) = Scoring(b, b.combo, b.timer, b.risk, f)
  BY PartsScore
<1> QED
  BY <1>1, <1>2, <1>3 DEF SameCombo

\* An award is a combo that has just grown.
LEMMA AwardOfTick ==
  ASSUME RideConstants, NEW b \in Bikes, NEW n \in Nat
  PROVE  LET a == Race!Awarded(b, n)
         IN /\ Scored(a, b) /\ a.risk = b.risk
            /\ SameEvents(a, b, Race!Events \ {"COMBO"})
            /\ IF n = 0 THEN a = b ELSE a.timer = ComboTimeout /\ "COMBO" \in a.flags
<1> DEFINE combo == Race!AtMost(b.combo + n, MaxCombo)
           f == b.flags \cup {"COMBO"}
           a == Rewarded(b, combo, ComboTimeout, f)
<1>1. Race!Awarded(b, n) = IF n = 0 THEN b ELSE a
  BY DEF Race!Awarded, Rewarded
<1>2. combo \in 0 .. MaxCombo /\ ComboTimeout \in 0 .. ComboTimeout /\ 0 \in 0 .. MaxRisk /\ f \in SUBSET Race!Events
  BY DEF Bikes, RideConstants, Race!AtMost, Race!Events
<1>3. Scored(a, b) /\ a.combo = combo /\ a.timer = ComboTimeout /\ a.risk = b.risk /\ a.flags = f
  <2> HIDE DEF combo, f
  <2> QED
    BY <1>2, PartsKeep
<1>4. Scored(b, b) /\ SameEvents(b, b, Race!Events \ {"COMBO"})
  BY DEF Scored, SameNitro, SameDrift, SameFlight, SameSerial, SameEvents
<1> HIDE DEF a
<1>5. SameEvents(a, b, Race!Events \ {"COMBO"}) /\ "COMBO" \in a.flags
  BY <1>3 DEF SameEvents
<1> QED
  BY <1>1, <1>3, <1>4, <1>5

LEMMA ScoredTwice ==
  ASSUME NEW a, NEW b, NEW c, Scored(a, b), Scored(b, c)
  PROVE  Scored(a, c)
BY DEF Scored, SameNitro, SameDrift, SameFlight, SameSerial

\* A combo on a bike has just grown, or is the one it was.
Grown(a, b) ==
  a.combo > 0 => \/ a.timer = ComboTimeout /\ "COMBO" \in a.flags
                 \/ a.combo = b.combo /\ a.timer = b.timer /\ ("COMBO" \in a.flags <=> "COMBO" \in b.flags)

LEMMA TouchOfTick ==
  ASSUME RideConstants, NEW b \in Bikes, NEW struck \in SUBSET Rivals, NEW passed \in SUBSET Rivals
  PROVE  LET a == Race!Touched(b, struck, passed)
         IN /\ Scored(a, b) /\ Grown(a, b) /\ a.risk \in {b.risk, 0}
            /\ SameEvents(a, b, Race!Events \ {"NEAR_MISS", "COMBO", "COLLISION"})
<1> DEFINE after == {i \in passed : \A j \in struck : i > j}
           hurt == Tired(b, 0, 0, 0)
           calm == IF struck = {} THEN b ELSE hurt
           told == IF passed = {} THEN {} ELSE {"NEAR_MISS", "COMBO"}
           n == Cardinality(after)
           u == Race!Awarded(calm, n)
           f == u.flags \cup told \cup (IF struck = {} THEN {} ELSE {"COLLISION"})
           a == Flagged(u, f)
<1>1. Race!Touched(b, struck, passed) = a
  BY DEF Race!Touched, Tired, Flagged, Race!Cardinality, Cardinality
<1>2. n \in Nat /\ (n = 0 <=> after = {})
  <2>1. IsFiniteSet(Rivals)
    BY RivalsCounted DEF RideConstants
  <2>2. after \subseteq Rivals
    OBVIOUS
  <2> HIDE DEF after
  <2>3. IsFiniteSet(after)
    BY <2>1, <2>2, FS_Subset
  <2> QED
    BY <2>3, FS_CardinalityType, FS_EmptySet
<1>3. after = {} => passed = {} \/ struck # {}
  OBVIOUS
<1>4. /\ Scored(calm, b) /\ calm \in Bikes /\ calm.flags = b.flags /\ calm.risk \in {b.risk, 0}
      /\ IF struck = {} THEN calm = b ELSE calm.combo = 0
  <2>1. 0 \in 0 .. MaxCombo /\ 0 \in 0 .. ComboTimeout /\ 0 \in 0 .. MaxRisk /\ b.flags \in SUBSET Race!Events
    BY DEF Bikes, RideConstants
  <2>2. Scored(hurt, b) /\ hurt.combo = 0 /\ hurt.risk = 0 /\ hurt.flags = b.flags
    BY <2>1, PartsKeep
  <2>3. Scored(b, b)
    BY DEF Scored, SameNitro, SameDrift, SameFlight, SameSerial
  <2> HIDE DEF hurt
  <2> QED
    BY <2>2, <2>3 DEF Scored
<1> HIDE DEF after, n, calm
<1>5. /\ Scored(u, calm) /\ u.risk = calm.risk /\ u \in Bikes
      /\ SameEvents(u, calm, Race!Events \ {"COMBO"})
      /\ IF n = 0 THEN u = calm ELSE u.timer = ComboTimeout /\ "COMBO" \in u.flags
  BY <1>2, <1>4, AwardOfTick DEF Scored
<1> HIDE DEF u
<1>6. Scored(a, u) /\ SameCombo(a, u) /\ a.flags = f
  <2>1. /\ f \in SUBSET Race!Events /\ 0 \in 0 .. MaxCombo /\ 0 \in 0 .. ComboTimeout /\ 0 \in 0 .. MaxRisk
    BY <1>5 DEF Bikes, RideConstants, Race!Events
  <2> HIDE DEF f
  <2> QED
    BY <1>5, <2>1, PartsKeep
<1> HIDE DEF a
<1>7. Scored(a, b)
  BY <1>4, <1>5, <1>6, ScoredTwice
<1>8. SameEvents(a, b, Race!Events \ {"NEAR_MISS", "COMBO", "COLLISION"}) /\ a.risk \in {b.risk, 0}
  BY <1>4, <1>5, <1>6 DEF SameEvents, SameCombo
<1>9. Grown(a, b)
  <2>1. a.combo = u.combo /\ a.timer = u.timer
    BY <1>6 DEF SameCombo
  <2>2. CASE n # 0
    BY <1>5, <1>6, <2>1, <2>2 DEF Grown
  <2>3. CASE n = 0 /\ struck # {}
    BY <1>4, <1>5, <2>1, <2>3 DEF Grown
  <2>4. CASE n = 0 /\ struck = {}
    <3>1. told = {} /\ u = b
      BY <1>2, <1>3, <1>4, <1>5, <2>4
    <3> QED
      BY <1>6, <2>1, <2>4, <3>1 DEF Grown
  <2> QED
    BY <2>2, <2>3, <2>4
<1> QED
  BY <1>1, <1>7, <1>8, <1>9

\* A combo lasts on, or has just grown; a drift that is worth something pays
\* when it ends.
LEMMA RiskOfTick ==
  ASSUME RideConstants, NEW b \in Bikes, NEW was, NEW slide \in Nat,
         was \/ b.risk < Payout
  PROVE  LET a == Race!Risked(b, was, slide)
         IN /\ Scored(a, b)
            /\ ~a.drifting => a.risk < Payout
            /\ SameEvents(a, b, Race!Events \ {"COMBO", "DRIFT_BOOST"})
            /\ a.combo > 0 => \/ a.timer = ComboTimeout /\ "COMBO" \in a.flags
                              \/ /\ a.combo = b.combo /\ b.timer > 0 /\ a.timer = b.timer - 1
                                 /\ ("COMBO" \in a.flags <=> "COMBO" \in b.flags)
<1> DEFINE combo == IF b.timer > 0 THEN b.combo ELSE 0
           timer == Race!AtLeast(b.timer - 1, 0)
           risk == IF b.drifting THEN Race!AtMost(b.risk + slide, MaxRisk) ELSE b.risk
           idle == Tired(b, combo, timer, risk)
           pays == was /\ ~b.drifting /\ idle.risk >= Payout
           u == Race!Awarded(idle, 1)
           f == u.flags \cup {"DRIFT_BOOST"}
           paid == Paid(u, 0, f)
           a == Race!Risked(b, was, slide)
<1>1. a = IF pays THEN paid ELSE idle
  BY DEF Race!Risked, Tired, Paid
<1>2. combo \in 0 .. MaxCombo /\ timer \in 0 .. ComboTimeout /\ risk \in 0 .. MaxRisk /\ (~b.drifting => risk = b.risk)
      /\ (combo > 0 => combo = b.combo /\ b.timer > 0 /\ timer = b.timer - 1)
      /\ b.flags \in SUBSET Race!Events /\ b.drifting \in BOOLEAN
      /\ Payout \in Nat \ {0}
  BY DEF Bikes, RideConstants, Race!AtLeast, Race!AtMost
<1> HIDE DEF combo, timer, risk
<1>3. Scored(idle, b) /\ idle.combo = combo /\ idle.timer = timer /\ idle.risk = risk /\ idle.flags = b.flags
  BY <1>2, PartsKeep
<1> HIDE DEF idle
<1>4. /\ Scored(u, idle) /\ SameEvents(u, idle, Race!Events \ {"COMBO"})
      /\ u.timer = ComboTimeout /\ "COMBO" \in u.flags /\ u \in Bikes
  <2>1. idle \in Bikes
    BY <1>3 DEF Scored
  <2> DEFINE one == 1
  <2>2. one \in Nat /\ one # 0
    OBVIOUS
  <2> HIDE DEF one
  <2>3. /\ Scored(Race!Awarded(idle, one), idle)
        /\ SameEvents(Race!Awarded(idle, one), idle, Race!Events \ {"COMBO"})
        /\ Race!Awarded(idle, one).timer = ComboTimeout /\ "COMBO" \in Race!Awarded(idle, one).flags
    BY <2>1, <2>2, AwardOfTick
  <2> QED
    BY <2>3 DEF Scored, one
<1> HIDE DEF u
<1>5. /\ Scored(paid, u) /\ paid.timer = u.timer /\ paid.risk = 0 /\ paid.flags = f
  <2>1. f \in SUBSET Race!Events
    BY <1>4 DEF Bikes, Race!Events
  <2>2. u.combo \in 0 .. MaxCombo /\ u.timer \in 0 .. ComboTimeout
    BY <1>4 DEF Bikes
  <2> HIDE DEF f
  <2> QED
    BY <1>2, <1>4, <2>1, <2>2, PartsKeep, NothingScored
<1> HIDE DEF paid, a, pays
<1>6. CASE a = paid
  <2>1. Scored(a, b)
    BY <1>3, <1>4, <1>5, <1>6, ScoredTwice
  <2>2. SameEvents(a, b, Race!Events \ {"COMBO", "DRIFT_BOOST"})
    BY <1>3, <1>4, <1>5, <1>6 DEF SameEvents
  <2> QED
    BY <2>1, <2>2, <1>2, <1>4, <1>5, <1>6 DEF a
<1>7. CASE a = idle /\ ~pays
  <2>1. ~a.drifting => a.risk < Payout
    <3>1. a.drifting = b.drifting /\ a.risk = risk
      BY <1>3, <1>7 DEF Scored, SameDrift
    <3>2. ~b.drifting => ~was \/ risk < Payout
      BY <1>2, <1>3, <1>7 DEF pays
    <3> QED
      BY <1>2, <3>1, <3>2
  <2>2. SameEvents(a, b, Race!Events \ {"COMBO", "DRIFT_BOOST"})
    BY <1>3, <1>7 DEF SameEvents
  <2> QED
    BY <2>1, <2>2, <1>2, <1>3, <1>7 DEF a
<1> QED
  BY <1>1, <1>6, <1>7

\* What an update tells is played once.
LEMMA PlayOfTick ==
  ASSUME RideConstants, NEW b \in Bikes, b.serial = b.heard
  PROVE  LET told == Race!Told(b)
             a == Race!Play(told).bike
         IN /\ a \in Bikes /\ a.serial = a.heard /\ a.flags = b.flags
            /\ SameNitro(a, b) /\ SameDrift(a, b) /\ SameFlight(a, b) /\ SameCombo(a, b)
            /\ told.flags = b.flags /\ told.combo = b.combo /\ Race!Play(told).played = b.flags
<1> DEFINE n == (b.serial + 1) % Word
           loud == [b EXCEPT !.serial = n]
           told == Race!Told(b)
           a == [told EXCEPT !.heard = told.serial]
<1>1. n \in Nat /\ n # b.serial
  <2>1. b.serial \in Nat /\ Word \in Nat /\ Word > 1
    BY DEF Bikes, RideConstants
  <2> QED
    BY <2>1
<1> HIDE DEF n
<1>2. /\ loud \in Bikes /\ loud.serial = n /\ loud.heard = b.heard /\ loud.flags = b.flags
      /\ SameNitro(loud, b) /\ SameDrift(loud, b) /\ SameFlight(loud, b) /\ SameCombo(loud, b)
  BY <1>1 DEF Bikes, SameNitro, SameDrift, SameFlight, SameCombo
<1>3. told = IF b.flags = {} THEN b ELSE loud
  BY DEF Race!Told, n
<1> HIDE DEF loud, told
<1>4. /\ told \in Bikes /\ told.flags = b.flags
      /\ SameNitro(told, b) /\ SameDrift(told, b) /\ SameFlight(told, b) /\ SameCombo(told, b)
      /\ (told.serial = told.heard <=> b.flags = {})
  BY <1>1, <1>2, <1>3 DEF SameNitro, SameDrift, SameFlight, SameCombo
<1>5. /\ a \in Bikes /\ a.serial = told.serial /\ a.heard = told.serial /\ a.flags = told.flags
      /\ SameNitro(a, told) /\ SameDrift(a, told) /\ SameFlight(a, told) /\ SameCombo(a, told)
  <2>1. told.serial \in Nat
    BY <1>4 DEF Bikes
  <2> DEFINE s == told.serial
             c == [told EXCEPT !.heard = s]
  <2>2. told \in Bikes /\ s \in Nat
    BY <1>4, <2>1
  <2>3. /\ c \in Bikes /\ c.heard = s /\ c.serial = told.serial /\ c.flags = told.flags
        /\ SameNitro(c, told) /\ SameDrift(c, told) /\ SameFlight(c, told) /\ SameCombo(c, told)
    <3> HIDE DEF s
    <3>1. c \in Bikes
      BY ONLY <2>2 DEF Bikes
    <3>2. c.heard = s /\ c.serial = told.serial /\ c.flags = told.flags
      BY ONLY <2>2 DEF Bikes
    <3>3. SameNitro(c, told) /\ SameDrift(c, told)
      BY ONLY <2>2 DEF Bikes, SameNitro, SameDrift
    <3>4. SameFlight(c, told) /\ SameCombo(c, told)
      BY ONLY <2>2 DEF Bikes, SameFlight, SameCombo
    <3> QED
      BY <3>1, <3>2, <3>3, <3>4
  <2> QED
    BY <2>3
<1>6. CASE told.serial = told.heard
  <2>1. Race!Play(told).bike = told /\ Race!Play(told).played = {}
    BY <1>6 DEF Race!Play
  <2> QED
    BY <2>1, <1>4, <1>6 DEF told, SameCombo
<1>7. CASE told.serial # told.heard
  <2>1. Race!Play(told).bike = a /\ Race!Play(told).played = told.flags
    BY <1>7 DEF Race!Play
  <2> HIDE DEF a
  <2>2. /\ a \in Bikes /\ a.serial = a.heard /\ a.flags = b.flags
        /\ SameNitro(a, b) /\ SameDrift(a, b) /\ SameFlight(a, b) /\ SameCombo(a, b)
    BY <1>4, <1>5 DEF SameNitro, SameDrift, SameFlight, SameCombo
  <2> QED
    BY <2>1, <2>2, <1>4, <1>7 DEF told, SameCombo
<1> QED
  BY <1>6, <1>7

Logs == [travelled : Int, jumps : Nat, cues : Nat, since : Nat,
         events : SUBSET Race!Events, played : SUBSET Race!Events]

\* A flame that was lit while the button is held goes on or has left less than
\* a tick of fuel; an armed bike has not jumped yet in the lap; the clock of a
\* combo runs as its age does; and the feedback is up to date.
RideInductive ==
  /\ bike \in Bikes /\ log \in Logs
  /\ bike.active => bike.nitro > 0
  /\ log.cues <= 1 /\ (log.cues = 1 => bike.active \/ bike.nitro <= Drain)
  /\ log.jumps <= raceLaps + (IF \E at \in Ramp : at <= progress THEN 1 ELSE 0)
  /\ bike.armed /\ progress < Rearm => log.jumps <= raceLaps
  /\ ~bike.drifting => bike.risk < Payout
  /\ bike.combo > 0 => log.since + bike.timer <= ComboTimeout
  /\ bike.serial = bike.heard /\ log.played = log.events
  /\ racePhase = "finished" => "FINISH" \in bike.flags
  /\ racePhase = "failed" => "FAIL" \in bike.flags

RaceEvents == {"CHECKPOINT", "LAP", "FINISH", "OFFTRACK", "FAIL"}

\* The whole ride of a tick, before anybody is told.
Tick(nitro, drift, where, distance, struck, passed, slide, emitted) ==
  [Race!Risked(Race!Touched(Race!Flown(Race!Drifts(Race!Fuelled([bike EXCEPT !.flags = {}], nitro), drift), where, distance),
                            struck, passed), bike.drifting, slide)
        EXCEPT !.flags = @ \cup emitted]

LEMMA RideOfTick ==
  ASSUME RideConstants, bike \in Bikes, bike.serial = bike.heard, ~bike.drifting => bike.risk < Payout,
         NEW nitro, NEW drift, NEW where \in Nat, NEW distance,
         NEW struck \in SUBSET Rivals, NEW passed \in SUBSET Rivals, NEW slide \in Nat,
         NEW emitted \in SUBSET RaceEvents
  PROVE  LET a == Tick(nitro, drift, where, distance, struck, passed, slide, emitted)
             burning == nitro /\ bike.nitro > 0 /\ bike.nitro > Drain
         IN /\ a \in Bikes /\ a.serial = a.heard /\ emitted \subseteq a.flags
            /\ a.active <=> burning
            /\ a.nitro = IF nitro /\ bike.nitro > 0 THEN Race!AtLeast(bike.nitro - Drain, 0)
                         ELSE Race!AtMost(bike.nitro + Recharge, Tank)
            /\ "NITRO" \in a.flags <=> burning /\ ~bike.active
            /\ a.armed => bike.armed \/ where >= Rearm
            /\ "JUMP" \in a.flags => bike.armed /\ where \in Ramp /\ ~a.armed
            /\ ~a.drifting => a.risk < Payout
            /\ a.combo > 0 => \/ a.timer <= ComboTimeout /\ "COMBO" \in a.flags
                              \/ a.combo = bike.combo /\ a.timer = bike.timer - 1
<1> DEFINE none == {}
           clear == Flagged(bike, none)
           burning == nitro /\ bike.nitro > 0 /\ bike.nitro > Drain
           fuel == Race!Fuelled(clear, nitro)
           slid == Race!Drifts(fuel, drift)
           ridden == Race!Flown(slid, where, distance)
           met == Race!Touched(ridden, struck, passed)
           was == bike.drifting
           risked == Race!Risked(met, was, slide)
           f == risked.flags \cup emitted
           a == Flagged(risked, f)
<1>1. /\ clear \in Bikes /\ clear.flags = {}
      /\ SameNitro(clear, bike) /\ SameDrift(clear, bike) /\ SameFlight(clear, bike)
      /\ SameCombo(clear, bike) /\ SameSerial(clear, bike)
  <2>1. none \in SUBSET Race!Events
    OBVIOUS
  <2>2. Scored(clear, bike) /\ SameCombo(clear, bike) /\ clear.flags = none
    <3> HIDE DEF none
    <3> QED
      BY <2>1, PartsKeep, NothingScored
  <2> QED
    BY <2>2 DEF Scored
<1> HIDE DEF clear
<1>2. /\ fuel \in Bikes
      /\ SameDrift(fuel, clear) /\ SameFlight(fuel, clear) /\ SameCombo(fuel, clear) /\ SameSerial(fuel, clear)
      /\ SameEvents(fuel, clear, Race!Events \ {"NITRO"})
      /\ fuel.active <=> nitro /\ clear.nitro > 0 /\ clear.nitro > Drain
      /\ fuel.nitro = IF nitro /\ clear.nitro > 0 THEN Race!AtLeast(clear.nitro - Drain, 0)
                      ELSE Race!AtMost(clear.nitro + Recharge, Tank)
      /\ "NITRO" \in fuel.flags <=>
           \/ "NITRO" \in clear.flags
           \/ (nitro /\ clear.nitro > 0 /\ clear.nitro > Drain) /\ ~clear.active
  BY <1>1, NitroOfTick
<1> HIDE DEF fuel
<1>3. /\ slid \in Bikes
      /\ SameNitro(slid, fuel) /\ SameFlight(slid, fuel) /\ SameCombo(slid, fuel) /\ SameSerial(slid, fuel)
      /\ SameEvents(slid, fuel, Race!Events \ {"DRIFT"})
  BY <1>2, DriftOfTick
<1> HIDE DEF slid
<1>4. /\ ridden \in Bikes
      /\ SameNitro(ridden, slid) /\ SameDrift(ridden, slid) /\ SameCombo(ridden, slid) /\ SameSerial(ridden, slid)
      /\ SameEvents(ridden, slid, Race!Events \ {"JUMP", "LANDING"})
      /\ ridden.armed => slid.armed \/ where >= Rearm
      /\ "JUMP" \in ridden.flags /\ "JUMP" \notin slid.flags => slid.armed /\ where \in Ramp /\ ~ridden.armed
  BY <1>3, FlightOfTick
<1> HIDE DEF ridden
<1>5. /\ Scored(met, ridden) /\ Grown(met, ridden) /\ met.risk \in {ridden.risk, 0} /\ met \in Bikes
      /\ SameEvents(met, ridden, Race!Events \ {"NEAR_MISS", "COMBO", "COLLISION"})
  BY <1>4, TouchOfTick DEF Scored
<1> HIDE DEF met
<1>6. ridden.risk = bike.risk /\ ridden.combo = bike.combo /\ ridden.timer = bike.timer
  BY <1>1, <1>2, <1>3, <1>4 DEF SameCombo
<1>7. was \/ met.risk < Payout
  BY <1>5, <1>6 DEF Bikes, RideConstants
<1> HIDE DEF was
<1>8. /\ Scored(risked, met) /\ risked \in Bikes
      /\ ~risked.drifting => risked.risk < Payout
      /\ SameEvents(risked, met, Race!Events \ {"COMBO", "DRIFT_BOOST"})
      /\ risked.combo > 0 => \/ risked.timer = ComboTimeout /\ "COMBO" \in risked.flags
                             \/ /\ risked.combo = met.combo /\ met.timer > 0 /\ risked.timer = met.timer - 1
                                /\ ("COMBO" \in risked.flags <=> "COMBO" \in met.flags)
  <2>1. RideConstants /\ met \in Bikes /\ slide \in Nat /\ (was \/ met.risk < Payout)
    BY <1>5, <1>7
  <2> DEFINE c == Race!Risked(met, was, slide)
  <2>2. /\ Scored(c, met)
        /\ ~c.drifting => c.risk < Payout
        /\ SameEvents(c, met, Race!Events \ {"COMBO", "DRIFT_BOOST"})
        /\ c.combo > 0 => \/ c.timer = ComboTimeout /\ "COMBO" \in c.flags
                          \/ /\ c.combo = met.combo /\ met.timer > 0 /\ c.timer = met.timer - 1
                             /\ ("COMBO" \in c.flags <=> "COMBO" \in met.flags)
    BY ONLY <2>1, RiskOfTick
  <2> HIDE DEF c
  <2>3. c \in Bikes
    BY <2>2 DEF Scored
  <2> QED
    BY <2>2, <2>3 DEF c, risked
<1> HIDE DEF risked
<1>9. Scored(a, risked) /\ SameCombo(a, risked) /\ a.flags = risked.flags \cup emitted
  <2>1. f \in SUBSET Race!Events
    BY <1>8 DEF Bikes, Race!Events, RaceEvents
  <2>2. Scored(a, risked) /\ SameCombo(a, risked) /\ a.flags = f
    <3> HIDE DEF f
    <3> QED
      BY <1>8, <2>1, PartsKeep, NothingScored
  <2> QED
    BY <2>2
<1>10. a = [risked EXCEPT !.flags = @ \cup emitted]
  BY DEF Flagged
<1> HIDE DEF a
<1>11. a \in Bikes /\ a.serial = a.heard /\ emitted \subseteq a.flags
  <2>1. a \in Bikes /\ emitted \subseteq a.flags
    BY <1>9 DEF Scored
  <2>2. /\ SameSerial(a, risked) /\ SameSerial(risked, met) /\ SameSerial(met, ridden)
        /\ SameSerial(ridden, slid) /\ SameSerial(slid, fuel) /\ SameSerial(fuel, clear)
        /\ SameSerial(clear, bike)
    BY <1>1, <1>2, <1>3, <1>4, <1>5, <1>8, <1>9 DEF Scored
  <2>3. a.serial = bike.serial /\ a.heard = bike.heard
    BY ONLY <2>2 DEF SameSerial
  <2> QED
    BY <2>1, <2>3
<1>12. /\ a.active = fuel.active /\ a.nitro = fuel.nitro
       /\ clear.nitro = bike.nitro /\ clear.active = bike.active
  BY <1>1, <1>2, <1>3, <1>4, <1>5, <1>8, <1>9 DEF Scored, SameNitro
<1>13. a.armed = ridden.armed /\ slid.armed = bike.armed
  BY <1>1, <1>2, <1>3, <1>4, <1>5, <1>8, <1>9 DEF Scored, SameFlight
<1>14. /\ "NITRO" \in a.flags <=> "NITRO" \in fuel.flags
       /\ "JUMP" \in a.flags <=> "JUMP" \in ridden.flags
       /\ "NITRO" \notin clear.flags /\ "JUMP" \notin slid.flags /\ "COMBO" \notin ridden.flags
       /\ "COMBO" \in a.flags <=> "COMBO" \in risked.flags
  BY <1>1, <1>2, <1>3, <1>4, <1>5, <1>8, <1>9 DEF SameEvents, Race!Events, RaceEvents
<1>15. ~a.drifting => a.risk < Payout
  BY <1>8, <1>9 DEF Scored, SameDrift, SameCombo
<1>16. a.combo > 0 => \/ a.timer <= ComboTimeout /\ "COMBO" \in a.flags
                      \/ a.combo = bike.combo /\ a.timer = bike.timer - 1
  <2>1. a.combo = risked.combo /\ a.timer = risked.timer /\ ComboTimeout \in Nat
    BY <1>9 DEF SameCombo, RideConstants
  <2>2. a.timer \in Nat /\ met.timer \in Nat
    BY <1>5, <1>11 DEF Bikes
  <2>3. met.combo > 0 => \/ met.timer = ComboTimeout /\ "COMBO" \in met.flags
                         \/ met.combo = bike.combo /\ met.timer = bike.timer
    BY <1>5, <1>6 DEF Grown
  <2>4. risked.combo > 0 =>
          \/ risked.timer = ComboTimeout /\ "COMBO" \in risked.flags
          \/ /\ risked.combo = met.combo /\ met.timer > 0 /\ risked.timer = met.timer - 1
             /\ ("COMBO" \in risked.flags <=> "COMBO" \in met.flags)
    BY <1>8
  <2>5. "COMBO" \in a.flags <=> "COMBO" \in risked.flags
    BY <1>14
  <2>6. ASSUME a.combo > 0
        PROVE  \/ a.timer <= ComboTimeout /\ "COMBO" \in a.flags
               \/ a.combo = bike.combo /\ a.timer = bike.timer - 1
    <3>1. risked.combo > 0
      BY <2>1, <2>6
    <3>2. CASE risked.timer = ComboTimeout /\ "COMBO" \in risked.flags
      BY ONLY <2>1, <2>2, <2>5, <3>2
    <3>3. CASE /\ risked.combo = met.combo /\ met.timer > 0 /\ risked.timer = met.timer - 1
               /\ ("COMBO" \in risked.flags <=> "COMBO" \in met.flags)
      <4>1. met.combo > 0
        BY <3>1, <3>3
      <4> QED
        BY ONLY <2>1, <2>2, <2>3, <2>5, <3>3, <4>1
    <3> QED
      BY <2>4, <3>1, <3>2, <3>3
  <2> QED
    BY <2>6
<1>17. /\ a.active <=> burning
       /\ "NITRO" \in a.flags <=> burning /\ ~bike.active
       /\ a.nitro = IF nitro /\ bike.nitro > 0 THEN Race!AtLeast(bike.nitro - Drain, 0)
                    ELSE Race!AtMost(bike.nitro + Recharge, Tank)
  BY <1>2, <1>12, <1>14
<1>18. /\ a.armed => bike.armed \/ where >= Rearm
       /\ "JUMP" \in a.flags => bike.armed /\ where \in Ramp /\ ~a.armed
  BY <1>4, <1>13, <1>14
<1>19. a = Tick(nitro, drift, where, distance, struck, passed, slide, emitted)
  BY <1>10 DEF Tick, risked, was, met, ridden, slid, fuel, clear, Flagged
<1> QED
  BY <1>11, <1>15, <1>16, <1>17, <1>18, <1>19

LEMMA RaceEmits ==
  ASSUME NEW distance, NEW struck
  PROVE  /\ Race!Emitted(distance, struck) \in SUBSET RaceEvents
         /\ "FINISH" \in Race!Advance(distance).events => "FINISH" \in Race!Emitted(distance, struck)
         /\ offtrack' >= OfftrackTicks \/ (struck # {} /\ integrity' = 0)
              => "FAIL" \in Race!Emitted(distance, struck)
<1>1. Race!Advance(distance).events \in SUBSET RaceEvents
  <2> DEFINE end == progress + distance
             atLine == Race!PassGates(gate, progress, TrackLength)
             lap == atLine = Len(Gates)
             anew == Race!PassGates(0, 0, end - TrackLength)
             on == Race!PassGates(gate, progress, end)
  <2>1. Race!Advance(distance).events = IF end < TrackLength THEN IF on > gate THEN {"CHECKPOINT"} ELSE {}
             ELSE (IF atLine > gate \/ anew > 0 THEN {"CHECKPOINT"} ELSE {})
                  \cup (IF lap THEN {"LAP"} ELSE {})
                  \cup (IF lap /\ raceLaps + 1 >= LapsToGo THEN {"FINISH"} ELSE {})
    BY DEF Race!Advance
  <2> HIDE DEF end, atLine, lap, anew, on
  <2> QED
    BY <2>1 DEF RaceEvents
<1> QED
  BY <1>1 DEF Race!Emitted, RaceEvents

\* The ride of a tick, and what the log and the feedback keep of it.
LEMMA RiddenIsKept ==
  ASSUME RideConstants, RideInductive,
         NEW distance \in Nat, NEW keys, NEW slide \in Nat, NEW where \in Nat,
         NEW struck \in SUBSET Rivals, NEW passed \in SUBSET Rivals,
         Race!Ridden(distance, keys, slide, where, struck, passed)
  PROVE  LET burning == "nitro" \in keys /\ bike.nitro > 0 /\ bike.nitro > Drain
         IN /\ bike' \in Bikes /\ log' \in Logs /\ bike'.serial = bike'.heard /\ log'.played = log'.events
            /\ Race!Emitted(distance, struck) \subseteq bike'.flags
            /\ bike'.active <=> burning
            /\ bike'.nitro = IF "nitro" \in keys /\ bike.nitro > 0 THEN Race!AtLeast(bike.nitro - Drain, 0)
                             ELSE Race!AtMost(bike.nitro + Recharge, Tank)
            /\ log'.cues = IF "nitro" \notin keys THEN 0 ELSE log.cues + (IF burning /\ ~bike.active THEN 1 ELSE 0)
            /\ bike'.armed => bike.armed \/ where >= Rearm
            /\ \/ log'.jumps = log.jumps
               \/ log'.jumps = log.jumps + 1 /\ bike.armed /\ where \in Ramp /\ ~bike'.armed
            /\ ~bike'.drifting => bike'.risk < Payout
            /\ bike'.combo > 0 => log'.since + bike'.timer <= ComboTimeout
<1> DEFINE nitro == "nitro" \in keys
           drift == "drift" \in keys
           emitted == Race!Emitted(distance, struck)
           burning == nitro /\ bike.nitro > 0 /\ bike.nitro > Drain
           a == Tick(nitro, drift, where, distance, struck, passed, slide, emitted)
           b == Race!Told(a)
<1>1. /\ bike \in Bikes /\ bike.serial = bike.heard /\ (~bike.drifting => bike.risk < Payout)
      /\ emitted \in SUBSET RaceEvents
  BY RaceEmits DEF RideInductive
<1>2. /\ bike' = Race!Play(b).bike
      /\ log' = [travelled |-> log.travelled + distance,
                 jumps |-> log.jumps + (IF "JUMP" \in b.flags THEN 1 ELSE 0),
                 cues |-> IF "nitro" \notin keys THEN 0
                          ELSE log.cues + (IF "NITRO" \in b.flags THEN 1 ELSE 0),
                 since |-> IF b.combo > 0 /\ "COMBO" \in b.flags THEN 0
                           ELSE Race!AtMost(log.since + 1, ComboTimeout + 1),
                 events |-> b.flags, played |-> Race!Play(b).played]
  BY Zenon DEF Race!Ridden, Tick
<1> HIDE DEF emitted, nitro, drift
<1>3. /\ a \in Bikes /\ a.serial = a.heard /\ emitted \subseteq a.flags
      /\ a.active <=> burning
      /\ a.nitro = IF nitro /\ bike.nitro > 0 THEN Race!AtLeast(bike.nitro - Drain, 0)
                   ELSE Race!AtMost(bike.nitro + Recharge, Tank)
      /\ "NITRO" \in a.flags <=> burning /\ ~bike.active
      /\ a.armed => bike.armed \/ where >= Rearm
      /\ "JUMP" \in a.flags => bike.armed /\ where \in Ramp /\ ~a.armed
      /\ ~a.drifting => a.risk < Payout
      /\ a.combo > 0 => \/ a.timer <= ComboTimeout /\ "COMBO" \in a.flags
                        \/ a.combo = bike.combo /\ a.timer = bike.timer - 1
  BY <1>1, RideOfTick
<1> HIDE DEF a
<1>4. /\ bike' \in Bikes /\ bike'.serial = bike'.heard /\ bike'.flags = a.flags
      /\ SameNitro(bike', a) /\ SameDrift(bike', a) /\ SameFlight(bike', a) /\ SameCombo(bike', a)
      /\ b.flags = a.flags /\ b.combo = a.combo /\ Race!Play(b).played = a.flags
  BY <1>2, <1>3, PlayOfTick
<1> DEFINE jumps == log.jumps + (IF "JUMP" \in a.flags THEN 1 ELSE 0)
           cues == IF "nitro" \notin keys THEN 0 ELSE log.cues + (IF "NITRO" \in a.flags THEN 1 ELSE 0)
           ago == IF a.combo > 0 /\ "COMBO" \in a.flags THEN 0 ELSE Race!AtMost(log.since + 1, ComboTimeout + 1)
<1>5. /\ log' \in Logs /\ log'.jumps = jumps /\ log'.cues = cues /\ log'.since = ago
      /\ log'.events = a.flags /\ log'.played = a.flags
  <2>1. log' = [travelled |-> log.travelled + distance, jumps |-> jumps, cues |-> cues, since |-> ago,
                events |-> a.flags, played |-> a.flags]
    BY <1>2, <1>4
  <2>2. /\ log.travelled + distance \in Int /\ jumps \in Nat /\ cues \in Nat /\ ago \in Nat
        /\ a.flags \in SUBSET Race!Events
    BY <1>3 DEF RideInductive, Logs, Bikes, RideConstants, Race!AtMost
  <2> HIDE DEF jumps, cues, ago
  <2> QED
    BY <2>1, <2>2 DEF Logs
<1>6. bike'.combo > 0 => log'.since + bike'.timer <= ComboTimeout
  <2>1. bike'.combo = a.combo /\ bike'.timer = a.timer
    BY <1>4 DEF SameCombo
  <2>2. /\ bike.combo > 0 => log.since + bike.timer <= ComboTimeout
        /\ log.since \in Nat /\ bike.timer \in Nat /\ a.timer \in Nat /\ ComboTimeout \in Nat
    BY <1>3 DEF RideInductive, Logs, Bikes, RideConstants
  <2>3. ago = 0 \/ (ago <= log.since + 1 /\ ago \in Nat /\ ~(a.combo > 0 /\ "COMBO" \in a.flags))
    BY <2>2 DEF Race!AtMost
  <2>4. a.combo > 0 => \/ a.timer <= ComboTimeout /\ "COMBO" \in a.flags
                       \/ a.combo = bike.combo /\ a.timer = bike.timer - 1
    BY <1>3
  <2>5. a.combo > 0 /\ "COMBO" \in a.flags => ago = 0
    OBVIOUS
  <2> HIDE DEF ago
  <2>6. log'.since = ago
    BY <1>5 DEF ago
  <2>7. ASSUME a.combo > 0 PROVE ago + a.timer <= ComboTimeout
    BY ONLY <2>2, <2>3, <2>4, <2>5, <2>7
  <2> QED
    BY <2>1, <2>6, <2>7
<1>7. /\ bike'.active = a.active /\ bike'.nitro = a.nitro /\ bike'.armed = a.armed
      /\ bike'.drifting = a.drifting /\ bike'.risk = a.risk
  BY <1>4 DEF SameNitro, SameDrift, SameFlight, SameCombo
<1>8. log.jumps \in Nat /\ log.cues \in Nat
  BY DEF RideInductive, Logs
<1> QED
  BY <1>3, <1>4, <1>5, <1>6, <1>7, <1>8 DEF emitted, nitro

LEMMA RideStarts ==
  ASSUME RideConstants
  PROVE  /\ Race!NewBike \in Bikes /\ Race!NewBike.serial = Race!NewBike.heard /\ ~Race!NewBike.active
         /\ Race!NewBike.risk = 0 /\ Race!NewBike.combo = 0
         /\ Race!NewLog \in Logs /\ Race!NewLog.jumps = 0 /\ Race!NewLog.cues = 0 /\ Race!NewLog.played = Race!NewLog.events
BY DEF Race!NewBike, Race!NewLog, Bikes, Logs, RideConstants

LEMMA DriveKeepsRide ==
  ASSUME RideConstants, RaceInductive, RideInductive,
         NEW distance \in 0 .. MaxStep, NEW off \in BOOLEAN, NEW steps \in [Rivals -> 1 .. MaxStep],
         NEW hits \in SUBSET Rivals, NEW passes \in SUBSET Rivals, NEW keys, NEW slide \in Nat,
         Race!Drive(distance, off, steps, hits, passes, keys, slide)
  PROVE  RideInductive'
<1> DEFINE moved == Race!Moved(steps)
           where == Race!Wrap(progress + distance)
           struck == Race!Struck(hits, where, moved)
           passed == Race!Passed(passes, where, moved)
           race == Race!Advance(distance)
           left == integrity - Race!Cardinality(struck)
           emitted == Race!Emitted(distance, struck)
<1>1. /\ racePhase = "playing"
      /\ TickOf(distance, off, steps, keys, slide, moved, where, struck, passed)
  BY TickParts
<1>2. /\ Race!Race(distance, off, steps, struck) /\ Race!Ridden(distance, keys, slide, where, struck, passed)
      /\ struck \in SUBSET Rivals /\ passed \in SUBSET Rivals
  BY <1>1 DEF TickOf, Race!Struck, Race!Passed
<1> HIDE DEF struck, passed
<1>3. /\ where \in 0 .. TrackLength - 1 /\ race.laps \in {raceLaps, raceLaps + 1}
      /\ race.laps = raceLaps => where = progress + distance
  BY LapsAreDriven DEF RideConstants
<1>4. /\ raceLaps' = race.laps /\ progress' = where /\ integrity' = Race!AtLeast(left, 0)
      /\ racePhase' = CASE struck # {} /\ left <= 0 -> "failed"
                        [] ~(struck # {} /\ left <= 0) /\ "FINISH" \in race.events -> "finished"
                        [] OTHER -> IF offtrack' >= OfftrackTicks THEN "failed" ELSE "playing"
  BY <1>2 DEF Race!Race
<1> HIDE DEF where, race, left
<1>5. racePhase' = "finished" => "FINISH" \in race.events
  BY <1>4
<1>6. racePhase' = "failed" => offtrack' >= OfftrackTicks \/ (struck # {} /\ integrity' = 0)
  <2>1. left \in Int
    <3>1. IsFiniteSet(Rivals)
      BY RivalsCounted DEF RideConstants
    <3>2. IsFiniteSet(struck)
      BY <1>2, <3>1, FS_Subset
    <3>3. Cardinality(struck) \in Nat
      BY <3>2, FS_CardinalityType
    <3>4. integrity \in Nat
      BY DEF RaceInductive
    <3> QED
      BY <3>3, <3>4 DEF left, Race!Cardinality, Cardinality
  <2> QED
    BY <1>4, <2>1 DEF Race!AtLeast
<1>7. /\ racePhase' = "finished" => "FINISH" \in emitted
      /\ racePhase' = "failed" => "FAIL" \in emitted
  BY <1>5, <1>6, RaceEmits DEF race
<1> HIDE DEF emitted
<1>8. /\ where \in Nat /\ distance \in Nat /\ raceLaps \in Nat /\ progress \in Nat /\ TrackLength \in Nat
      /\ MaxStep \in Nat /\ Rearm \in Nat
      /\ \A at \in Ramp : at \in Nat /\ at < Rearm
  BY <1>3 DEF RaceInductive, RideConstants, RaceConstants
<1> DEFINE burning == "nitro" \in keys /\ bike.nitro > 0 /\ bike.nitro > Drain
<1>9. /\ bike' \in Bikes /\ log' \in Logs /\ bike'.serial = bike'.heard /\ log'.played = log'.events
      /\ emitted \subseteq bike'.flags
      /\ bike'.active <=> burning
      /\ bike'.nitro = IF "nitro" \in keys /\ bike.nitro > 0 THEN Race!AtLeast(bike.nitro - Drain, 0)
                       ELSE Race!AtMost(bike.nitro + Recharge, Tank)
      /\ log'.cues = IF "nitro" \notin keys THEN 0 ELSE log.cues + (IF burning /\ ~bike.active THEN 1 ELSE 0)
      /\ bike'.armed => bike.armed \/ where >= Rearm
      /\ \/ log'.jumps = log.jumps
         \/ log'.jumps = log.jumps + 1 /\ bike.armed /\ where \in Ramp /\ ~bike'.armed
      /\ ~bike'.drifting => bike'.risk < Payout
      /\ bike'.combo > 0 => log'.since + bike'.timer <= ComboTimeout
  BY <1>2, <1>8, RiddenIsKept DEF emitted
<1>10. /\ bike'.active => bike'.nitro > 0
       /\ log'.cues <= 1 /\ (log'.cues = 1 => bike'.active \/ bike'.nitro <= Drain)
  <2>1. /\ bike.nitro \in Nat /\ Drain \in Nat /\ Recharge \in Nat /\ Tank \in Nat /\ Recharge <= Drain
        /\ log.cues \in Nat /\ log.cues <= 1 /\ (log.cues = 1 => bike.active \/ bike.nitro <= Drain)
    BY DEF RideInductive, RideConstants, Bikes, Logs
  <2>2. bike'.nitro = IF "nitro" \in keys /\ bike.nitro > 0
                      THEN IF bike.nitro > Drain THEN bike.nitro - Drain ELSE 0
                      ELSE IF bike.nitro + Recharge < Tank THEN bike.nitro + Recharge ELSE Tank
    BY <1>9, <2>1 DEF Race!AtLeast, Race!AtMost
  <2>3. /\ bike'.active <=> burning
        /\ log'.cues = IF "nitro" \notin keys THEN 0 ELSE log.cues + (IF burning /\ ~bike.active THEN 1 ELSE 0)
    BY <1>9
  <2>4. CASE burning
    BY ONLY <2>1, <2>2, <2>3, <2>4
  <2>5. CASE ~burning
    BY ONLY <2>1, <2>2, <2>3, <2>5
  <2> QED
    BY <2>4, <2>5
<1>11. /\ log.jumps \in Nat
       /\ log.jumps <= raceLaps + (IF \E at \in Ramp : at <= progress THEN 1 ELSE 0)
       /\ bike.armed /\ progress < Rearm => log.jumps <= raceLaps
  BY DEF RideInductive, Logs
<1>12. /\ raceLaps' \in {raceLaps, raceLaps + 1} /\ progress' = where /\ (raceLaps' = raceLaps => where = progress + distance)
  BY <1>3, <1>4
<1>13. /\ log'.jumps <= raceLaps' + (IF \E at \in Ramp : at <= progress' THEN 1 ELSE 0)
       /\ bike'.armed /\ progress' < Rearm => log'.jumps <= raceLaps'
  <2>1. bike'.armed => bike.armed \/ where >= Rearm
    BY <1>9
  <2>2. CASE log'.jumps = log.jumps
    <3>1. CASE raceLaps' = raceLaps
      <4>1. where = progress + distance /\ progress <= where
        BY <1>8, <1>12, <3>1
      <4>2. (\E at \in Ramp : at <= progress) => \E at \in Ramp : at <= where
        BY <1>8, <4>1
      <4> QED
        BY <1>8, <1>11, <1>12, <2>1, <2>2, <3>1, <4>1, <4>2
    <3>2. CASE raceLaps' = raceLaps + 1
      <4>1. log.jumps <= raceLaps'
        BY <1>8, <1>11, <3>2
      <4> QED
        BY <1>8, <1>11, <1>12, <2>2, <3>2, <4>1
    <3> QED
      BY <1>12, <3>1, <3>2
  <2>3. CASE log'.jumps = log.jumps + 1 /\ bike.armed /\ where \in Ramp /\ ~bike'.armed
    <3>1. log.jumps <= raceLaps'
      <4>1. CASE raceLaps' = raceLaps
        BY <1>8, <1>11, <1>12, <2>3, <4>1
      <4>2. CASE raceLaps' = raceLaps + 1
        BY <1>8, <1>11, <4>2
      <4> QED
        BY <1>12, <4>1, <4>2
    <3>2. \E at \in Ramp : at <= progress'
      BY <1>8, <1>12, <2>3
    <3>3. raceLaps' \in Nat
      BY <1>8, <1>12
    <3> QED
      BY <1>11, <2>3, <3>1, <3>2, <3>3
  <2> QED
    BY <1>9, <2>2, <2>3
<1> QED
  BY <1>7, <1>9, <1>10, <1>13 DEF RideInductive, Bikes, Logs

\* The log and the bike, where only what was told changes.
Played(l, f, g) == [l EXCEPT !.events = f, !.played = g]

LEMMA ToldAgain ==
  ASSUME NEW l \in Logs, NEW f \in SUBSET Race!Events, NEW g \in SUBSET Race!Events
  PROVE  LET m == Played(l, f, g)
         IN /\ m \in Logs /\ m.events = f /\ m.played = g
            /\ m.jumps = l.jumps /\ m.cues = l.cues /\ m.since = l.since
BY DEF Logs, Played

LEMMA CountdownKeepsRide ==
  ASSUME RideConstants, RideInductive, Race!Countdown
  PROVE  RideInductive'
<1> DEFINE f == IF countdown' = 0 THEN {"START"} ELSE {}
           told == Flagged(bike, f)
           b == Race!Told(told)
           news == b.flags
           heard == Race!Play(b).played
<1>1. /\ racePhase' \in {"countdown", "playing"}
      /\ bike' = Race!Play(b).bike
      /\ log' = Played(log, news, heard)
      /\ progress' = progress /\ raceLaps' = raceLaps
  BY DEF Race!Countdown, Flagged, Played
<1>2. /\ Scored(told, bike) /\ SameCombo(told, bike) /\ told.flags = f
      /\ f \in SUBSET Race!Events
  <2>1. f \in SUBSET Race!Events /\ bike \in Bikes
    BY DEF Race!Events, RideInductive
  <2> HIDE DEF f
  <2> QED
    BY <2>1, PartsKeep, NothingScored
<1> HIDE DEF told, f
<1>3. told \in Bikes /\ told.serial = told.heard
  BY <1>2 DEF Scored, SameSerial, RideInductive
<1>4. /\ bike' \in Bikes /\ bike'.serial = bike'.heard
      /\ SameNitro(bike', told) /\ SameDrift(bike', told) /\ SameFlight(bike', told) /\ SameCombo(bike', told)
      /\ news = told.flags /\ heard = told.flags
  BY <1>1, <1>3, PlayOfTick
<1> HIDE DEF news, heard
<1>5. /\ log' \in Logs /\ log'.events = log'.played
      /\ log'.jumps = log.jumps /\ log'.cues = log.cues /\ log'.since = log.since
  <2>1. news \in SUBSET Race!Events /\ heard \in SUBSET Race!Events /\ log \in Logs
    BY <1>2, <1>4 DEF RideInductive
  <2> QED
    BY <1>1, <1>4, <2>1, ToldAgain
<1>6. /\ SameNitro(bike', bike) /\ SameDrift(bike', bike) /\ SameFlight(bike', bike) /\ SameCombo(bike', bike)
  BY <1>2, <1>4 DEF Scored, SameNitro, SameDrift, SameFlight, SameCombo
<1>7. /\ bike'.nitro = bike.nitro /\ bike'.active = bike.active /\ bike'.drifting = bike.drifting
      /\ bike'.armed = bike.armed /\ bike'.risk = bike.risk /\ bike'.combo = bike.combo
      /\ bike'.timer = bike.timer
  BY <1>6 DEF SameNitro, SameDrift, SameFlight, SameCombo
<1> QED
  BY <1>1, <1>4, <1>5, <1>7 DEF RideInductive

LEMMA NextKeepsRide ==
  ASSUME RideConstants, RaceInductive, RideInductive, [Race!Next]_(Race!vars)
  PROVE  RideInductive'
<1>1. CASE Race!Countdown
  BY <1>1, CountdownKeepsRide
<1>2. ASSUME NEW distance \in 0 .. MaxStep, NEW off \in BOOLEAN, NEW steps \in [Rivals -> 1 .. MaxStep],
             NEW hits \in SUBSET Rivals, NEW keys,
             NEW passes \in (IF MissGaps = {} THEN {{}} ELSE SUBSET (Rivals \ hits)),
             NEW slide \in (IF "drift" \in keys THEN 0 .. 1 ELSE {0}),
             Race!Drive(distance, off, steps, hits, passes, keys, slide)
      PROVE  RideInductive'
  <2>1. passes \in SUBSET Rivals /\ slide \in Nat
    OBVIOUS
  <2> QED
    BY <1>2, <2>1, DriveKeepsRide
<1>3. CASE Race!Over
  <2>1. bike.serial = bike.heard
    BY DEF RideInductive
  <2>2. Race!Play(bike).bike = bike /\ Race!Play(bike).played = {}
    BY <2>1 DEF Race!Play
  <2>3. /\ bike' = bike /\ log' = [log EXCEPT !.events = {}, !.played = {}]
        /\ racePhase' = racePhase /\ progress' = progress /\ raceLaps' = raceLaps
    BY <1>3, <2>2 DEF Race!Over
  <2> DEFINE none == {}
  <2>4. /\ log' \in Logs /\ log'.events = log'.played
        /\ log'.jumps = log.jumps /\ log'.cues = log.cues /\ log'.since = log.since
    <3>1. none \in SUBSET Race!Events /\ log \in Logs /\ log' = Played(log, none, none)
      BY <2>3 DEF RideInductive, Played
    <3> HIDE DEF none
    <3> QED
      BY <3>1, ToldAgain
  <2> QED
    BY <2>3, <2>4 DEF RideInductive
<1>4. CASE Race!Reset
  <2>1. racePhase' = "countdown" /\ progress' = 0 /\ raceLaps' = 0 /\ bike' = Race!NewBike /\ log' = Race!NewLog
    BY <1>4 DEF Race!Reset
  <2> QED
    BY <2>1, RideStarts DEF RideInductive, RideConstants
<1>5. CASE UNCHANGED Race!vars
  BY <1>5 DEF Race!vars, RideInductive
<1> QED
  BY <1>1, <1>2, <1>3, <1>4, <1>5 DEF Race!Next

\* Who holds a place is one of those who drive.
LEMMA RanksArePlaces ==
  ASSUME RaceConstants, NEW p, NEW n, NEW rivals
  PROVE  Race!Rank(p, n, rivals) \in Places
<1> DEFINE S == {i \in Rivals : Race!Distance(rivals[i].progress, rivals[i].laps) > Race!Distance(p, n)}
<1>1. Race!Rank(p, n, rivals) = 1 + Cardinality(S)
  BY DEF Race!Rank, Race!Cardinality, Cardinality
<1>2. S \subseteq Rivals
  OBVIOUS
<1> HIDE DEF S
<1>3. Cardinality(S) <= Cardinality(Rivals) /\ IsFiniteSet(S)
  BY <1>2, RivalsCounted, FS_Subset
<1>4. Cardinality(S) \in Nat
  BY <1>3, FS_CardinalityType
<1> QED
  BY <1>1, <1>3, <1>4, RivalsCounted DEF Places

LEMMA RaceTypes ==
  ASSUME RideConstants, RaceInductive, bike \in Bikes
  PROVE  Race!TypeOK
<1>1. RaceConstants /\ LapsToGo \in Nat \ {0} /\ OfftrackTicks \in Nat /\ FullIntegrity \in Nat /\ Len(Gates) \in Nat
  BY DEF RideConstants, RaceConstants
<1>2. /\ racePhase \in {"countdown", "playing", "finished", "failed"} /\ countdown \in 0 .. CountdownTicks
      /\ progress \in 0 .. TrackLength - 1 /\ raceLaps \in 0 .. LapsToGo
      /\ gate \in 0 .. Len(Gates) /\ missed \in 0 .. LapsToGo
      /\ offtrack \in 0 .. OfftrackTicks /\ integrity \in 0 .. FullIntegrity
  BY <1>1 DEF RaceInductive, Behind
<1>3. ASSUME NEW i \in Rivals
      PROVE  /\ rival[i].progress \in 0 .. TrackLength - 1 /\ rival[i].laps \in 0 .. LapsToGo
             /\ rival[i].cooldown \in 0 .. Cooldown /\ rival[i].miss \in 0 .. MissCooldown
             /\ rival[i].place \in Places
  BY DEF RaceInductive, Vehicles, VehicleType
<1>4. position \in Places
  BY <1>1, RanksArePlaces DEF RaceInductive
<1>5. /\ bike.nitro \in 0 .. Tank /\ bike.risk \in 0 .. MaxRisk /\ bike.combo \in 0 .. MaxCombo
      /\ bike.timer \in 0 .. ComboTimeout /\ bike.flags \subseteq Race!Events
  BY DEF Bikes
<1>6. Places = 1 .. Race!Cardinality(Rivals) + 1
  BY DEF Places, Race!Cardinality, Cardinality
<1> QED
  BY <1>2, <1>3, <1>4, <1>5, <1>6, Zenon DEF Race!TypeOK

\* On any track and with any bike, one press lights the nitro once, the ramp
\* throws the bike once in a lap, what a drift has gathered is paid or gone
\* when it ends, a combo lives its time, and every event is played once, the
\* end of the race included (RideIsFair); and every count of the race and of
\* the ride stays in its range.
THEOREM RidesAreFair == RideConstants => (Race!Spec => [](Race!TypeOK /\ Race!RideIsFair))
<1> SUFFICES ASSUME RideConstants PROVE Race!Spec => [](Race!TypeOK /\ Race!RideIsFair)
  OBVIOUS
<1> DEFINE Inv == RaceInductive /\ RideInductive
<1>1. Race!Init => Inv
  <2> SUFFICES ASSUME Race!Init PROVE Inv
    OBVIOUS
  <2>1. racePhase = "countdown" /\ progress = 0 /\ raceLaps = 0 /\ bike = Race!NewBike /\ log = Race!NewLog
    BY DEF Race!Init
  <2> QED
    BY <2>1, RideStarts, InitIsRace DEF RideInductive, RideConstants
<1>2. Inv /\ [Race!Next]_(Race!vars) => Inv'
  <2> SUFFICES ASSUME Inv, [Race!Next]_(Race!vars) PROVE Inv'
    OBVIOUS
  <2>1. RaceInductive'
    BY NextKeepsRace DEF RideConstants
  <2>2. RideInductive'
    BY NextKeepsRide
  <2> QED
    BY <2>1, <2>2
<1>3. Inv => Race!RideIsFair
  <2> SUFFICES ASSUME Inv PROVE Race!RideIsFair
    OBVIOUS
  <2>1. bike.combo > 0 => log.since <= ComboTimeout
    <3>1. log.since \in Nat /\ bike.timer \in Nat /\ ComboTimeout \in Nat
      BY DEF RideInductive, Logs, Bikes, RideConstants
    <3>2. bike.combo > 0 => log.since + bike.timer <= ComboTimeout
      BY DEF RideInductive
    <3> QED
      BY <3>1, <3>2
  <2> QED
    BY <2>1 DEF RideInductive, Race!RideIsFair
<1>4. Inv => Race!TypeOK
  BY RaceTypes DEF RideInductive
<1> HIDE DEF Inv
<1> QED
  BY <1>1, <1>2, <1>3, <1>4, PTL DEF Race!Spec

(***************************************************************************)
(* Buttons and scenes                                                      *)
(***************************************************************************)

\* Where a scene is on the stack.
OnTop(s) == stack # <<>> /\ s = stack[Len(stack)]
Waits(s) == \E n \in 1 .. Len(stack) - 1 : stack[n] = s

\* No scene is on the stack twice, and each is what its place makes of it.
StackTells ==
  /\ stack \in Seq(StackScenes) /\ life \in [StackScenes -> {"out", "running", "paused"}]
  /\ \A m, n \in 1 .. Len(stack) : stack[m] = stack[n] => m = n
  /\ \A s \in StackScenes : /\ OnTop(s) => life[s] = "running"
                            /\ Waits(s) => life[s] = "paused"
                            /\ ~OnTop(s) /\ ~Waits(s) => life[s] = "out"

LEMMA StackTakesTurns ==
  ASSUME StackTells
  PROVE  Ui!ScenesTakeTurns
<1> SUFFICES ASSUME NEW s \in StackScenes
             PROVE  life[s] = CASE stack # <<>> /\ s = stack[Len(stack)] -> "running"
                                [] \E n \in 1 .. Len(stack) - 1 : stack[n] = s -> "paused"
                                [] OTHER -> "out"
  BY Zenon DEF Ui!ScenesTakeTurns, Ui!Top
<1>1. ~(OnTop(s) /\ Waits(s))
  BY DEF StackTells, OnTop, Waits
<1>2. CASE OnTop(s)
  <2>1. life[s] = "running" /\ ~Waits(s)
    BY <1>1, <1>2 DEF StackTells
  <2> QED
    BY <1>2, <2>1 DEF OnTop, Waits
<1>3. CASE Waits(s)
  <2>1. life[s] = "paused" /\ ~OnTop(s)
    BY <1>1, <1>3 DEF StackTells
  <2> QED
    BY <1>3, <2>1 DEF OnTop, Waits
<1>4. CASE ~OnTop(s) /\ ~Waits(s)
  BY <1>4 DEF StackTells, OnTop, Waits
<1> QED
  BY <1>2, <1>3, <1>4

\* A scene that is told something in turn makes of it what it should.
LEMMA ToldInTurn ==
  ASSUME NEW l \in [StackScenes -> {"out", "running", "paused"}], NEW s \in StackScenes
  PROVE  /\ l[s] = "out" => Ui!Told(l, "enter", s) = [l EXCEPT ![s] = "running"]
         /\ l[s] = "running" => Ui!Told(l, "pause", s) = [l EXCEPT ![s] = "paused"]
         /\ l[s] = "paused" => Ui!Told(l, "resume", s) = [l EXCEPT ![s] = "running"]
         /\ l[s] = "running" => Ui!Told(l, "exit", s) = [l EXCEPT ![s] = "out"]
BY DEF Ui!Told, Ui!Turns

LEMMA PushTells ==
  ASSUME StackTells, NEW s \in StackScenes, Ui!Push(s)
  PROVE  StackTells'
<1>1. /\ s \notin {stack[n] : n \in 1 .. Len(stack)}
      /\ stack' = Append(stack, s)
      /\ life' = Ui!Told(IF stack = <<>> THEN life ELSE Ui!Told(life, "pause", stack[Len(stack)]), "enter", s)
  BY DEF Ui!Push, Ui!Top, StackTells
<1>2. /\ Len(stack) \in Nat /\ stack' \in Seq(StackScenes) /\ Len(stack') = Len(stack) + 1 /\ stack'[Len(stack) + 1] = s
      /\ \A n \in 1 .. Len(stack) : stack'[n] = stack[n] /\ stack[n] \in StackScenes /\ stack[n] # s
  BY <1>1 DEF StackTells
<1>3. life[s] = "out"
  BY <1>2 DEF StackTells, OnTop, Waits
<1>4. \A m, n \in 1 .. Len(stack') : stack'[m] = stack'[n] => m = n
  BY <1>2 DEF StackTells
<1>5. CASE stack = <<>>
  <2>1. Len(stack) = 0
    BY <1>5
  <2>2. life' = [life EXCEPT ![s] = "running"]
    BY <1>1, <1>3, <1>5, ToldInTurn DEF StackTells
  <2>3. \A t \in StackScenes : life[t] = "out"
    BY <1>5, <2>1 DEF StackTells, OnTop, Waits
  <2>4. \A t \in StackScenes : life'[t] = IF t = s THEN "running" ELSE "out"
    BY <2>2, <2>3 DEF StackTells
  <2>5. \A t \in StackScenes : (OnTop(t)' <=> t = s) /\ ~Waits(t)'
    BY <1>2, <2>1 DEF OnTop, Waits
  <2>6. life' \in [StackScenes -> {"out", "running", "paused"}]
    BY <2>2 DEF StackTells
  <2> QED
    BY <1>2, <1>4, <2>4, <2>5, <2>6 DEF StackTells
<1>6. CASE stack # <<>>
  <2> DEFINE top == stack[Len(stack)]
             l == [life EXCEPT ![top] = "paused"]
  <2>1. Len(stack) \in 1 .. Len(stack) /\ top \in StackScenes /\ top # s
    BY <1>2, <1>6 DEF StackTells
  <2>2. life[top] = "running"
    BY <1>6, <2>1 DEF StackTells, OnTop
  <2>3. l \in [StackScenes -> {"out", "running", "paused"}] /\ l[s] = "out"
    BY <1>3, <2>1 DEF StackTells
  <2>4. life' = [l EXCEPT ![s] = "running"]
    BY <1>1, <1>6, <2>1, <2>2, <2>3, ToldInTurn DEF StackTells
  <2>5. life' \in [StackScenes -> {"out", "running", "paused"}]
    BY <2>3, <2>4
  <2>6. \A t \in StackScenes : life'[t] = IF t = s THEN "running" ELSE IF t = top THEN "paused" ELSE life[t]
    BY <2>4 DEF StackTells
  <2>7. ASSUME NEW t \in StackScenes
        PROVE  /\ OnTop(t)' <=> t = s
               /\ Waits(t)' <=> OnTop(t) \/ Waits(t)
    <3>1. OnTop(t)' <=> t = s
      BY <1>2 DEF OnTop
    <3>2. Waits(t)' <=> \E n \in 1 .. Len(stack) : stack[n] = t
      BY <1>2 DEF Waits
    <3>3. (\E n \in 1 .. Len(stack) : stack[n] = t) <=> OnTop(t) \/ Waits(t)
      BY <1>2, <1>6, <2>1 DEF OnTop, Waits
    <3> QED
      BY <3>1, <3>2, <3>3
  <2>8. ASSUME NEW t \in StackScenes
        PROVE  /\ OnTop(t)' => life'[t] = "running"
               /\ Waits(t)' => life'[t] = "paused"
               /\ ~OnTop(t)' /\ ~Waits(t)' => life'[t] = "out"
    <3>1. OnTop(t) <=> t = top
      BY <1>6 DEF OnTop
    <3>2. t = s => ~Waits(t) /\ ~OnTop(t)
      BY <1>2, <2>1, <3>1 DEF Waits
    <3> QED
      BY <2>6, <2>7, <3>1, <3>2 DEF StackTells
  <2> QED
    BY <1>2, <1>4, <2>5, <2>8 DEF StackTells
<1> QED
  BY <1>5, <1>6

LEMMA PopTells ==
  ASSUME StackTells, Ui!Pop
  PROVE  StackTells'
<1> DEFINE n == Len(stack)
           top == stack[n]
           l == [life EXCEPT ![top] = "out"]
<1>1. /\ stack # <<>> /\ stack' = SubSeq(stack, 1, n - 1)
      /\ life' = IF n > 1 THEN Ui!Told(Ui!Told(life, "exit", top), "resume", stack[n - 1])
                 ELSE Ui!Told(life, "exit", top)
  BY DEF Ui!Pop, Ui!Top, Ui!Below
<1>2. /\ n \in Nat \ {0} /\ stack' \in Seq(StackScenes) /\ Len(stack') = n - 1
      /\ \A m \in 1 .. n - 1 : stack'[m] = stack[m] /\ stack[m] \in StackScenes
      /\ top \in StackScenes
  <2>1. stack \in Seq(StackScenes) /\ n \in Nat \ {0}
    BY <1>1 DEF StackTells
  <2>2. n - 1 \in 0 .. n /\ \A m \in 1 .. n - 1 : m \in 1 .. n
    BY <2>1
  <2>3. \A m \in 1 .. n : stack[m] \in StackScenes
    BY <2>1
  <2> DEFINE k == n - 1
             rest == SubSeq(stack, 1, k)
  <2>4. 1 \in Int /\ k \in Int /\ \A m \in 1 .. k : stack[m] \in StackScenes
    BY <2>1, <2>2, <2>3
  <2> HIDE DEF k
  <2>5. /\ rest \in Seq(StackScenes) /\ Len(rest) = IF 1 <= k THEN k - 1 + 1 ELSE 0
        /\ \A m \in 1 .. k - 1 + 1 : rest[m] = stack[1 + m - 1]
    BY <2>4, SubSeqProperties
  <2> HIDE DEF rest
  <2>6. k \in Nat
    BY <2>1 DEF k
  <2>7. Len(rest) = k /\ \A m \in 1 .. k : rest[m] = stack[m]
    BY <2>5, <2>6
  <2>8. stack' = rest
    BY <1>1 DEF rest, k
  <2> QED
    BY <2>1, <2>2, <2>3, <2>5, <2>7, <2>8 DEF k
<1>3. \A m \in 1 .. n - 1 : stack[m] # top
  BY <1>2 DEF StackTells
<1>4. life[top] = "running"
  BY <1>1, <1>2 DEF StackTells, OnTop
<1>5. Ui!Told(life, "exit", top) = l /\ l \in [StackScenes -> {"out", "running", "paused"}]
  BY <1>2, <1>4, ToldInTurn DEF StackTells
<1>6. \A t \in StackScenes : l[t] = IF t = top THEN "out" ELSE life[t]
  BY DEF StackTells
<1>7. \A m, k \in 1 .. Len(stack') : stack'[m] = stack'[k] => m = k
  BY <1>2 DEF StackTells
<1> HIDE DEF l
<1>8. CASE n > 1
  <2> DEFINE below == stack[n - 1]
  <2>1. n - 1 \in 1 .. n - 1 /\ below \in StackScenes /\ below # top /\ Waits(below)
    BY <1>2, <1>3, <1>8 DEF Waits
  <2>2. l[below] = "paused"
    BY <1>6, <2>1 DEF StackTells
  <2>3. life' = [l EXCEPT ![below] = "running"]
    BY <1>1, <1>5, <1>8, <2>1, <2>2, ToldInTurn
  <2>4. life' \in [StackScenes -> {"out", "running", "paused"}]
    BY <1>5, <2>3
  <2>5. \A t \in StackScenes : life'[t] = IF t = below THEN "running" ELSE IF t = top THEN "out" ELSE life[t]
    BY <1>5, <1>6, <2>3
  <2>6. ASSUME NEW t \in StackScenes
        PROVE  /\ OnTop(t)' <=> t = below
               /\ Waits(t)' <=> \E m \in 1 .. n - 2 : stack[m] = t
    BY <1>2, <1>8, <2>1 DEF OnTop, Waits
  <2>7. ASSUME NEW t \in StackScenes
        PROVE  /\ OnTop(t)' => life'[t] = "running"
               /\ Waits(t)' => life'[t] = "paused"
               /\ ~OnTop(t)' /\ ~Waits(t)' => life'[t] = "out"
    <3>1. OnTop(t) <=> t = top
      BY <1>1 DEF OnTop
    <3>2. Waits(t) <=> t = below \/ \E m \in 1 .. n - 2 : stack[m] = t
      BY <1>2, <1>8, <2>1 DEF Waits
    <3>3. (\E m \in 1 .. n - 2 : stack[m] = t) => t # below /\ t # top
      <4>1. ASSUME NEW m \in 1 .. n - 2, stack[m] = below PROVE FALSE
        BY <1>2, <1>8, <4>1 DEF StackTells
      <4>2. \A m \in 1 .. n - 2 : m \in 1 .. n - 1
        BY <1>2
      <4> QED
        BY <1>3, <4>1, <4>2
    <3> QED
      BY <2>1, <2>5, <2>6, <3>1, <3>2, <3>3 DEF StackTells
  <2> QED
    BY <1>2, <1>7, <2>4, <2>7 DEF StackTells
<1>9. CASE n = 1
  <2>1. life' = l /\ stack' = <<>>
    BY <1>1, <1>2, <1>5, <1>9
  <2>2. \A t \in StackScenes : ~Waits(t) /\ (OnTop(t) <=> t = top) /\ ~Waits(t)' /\ ~OnTop(t)'
    BY <1>1, <1>2, <1>9, <2>1 DEF OnTop, Waits
  <2> QED
    BY <1>2, <1>5, <1>6, <1>7, <2>1, <2>2 DEF StackTells
<1> QED
  BY <1>2, <1>8, <1>9

LEMMA ReplaceTells ==
  ASSUME StackTells, NEW s \in StackScenes, Ui!Replace(s)
  PROVE  StackTells'
<1>1. CASE stack = <<>>
  <2>1. Len(stack) = 0 /\ stack' = <<s>> /\ life' = Ui!Told(life, "enter", s)
    BY <1>1 DEF Ui!Replace
  <2>2. life[s] = "out" /\ \A t \in StackScenes : ~OnTop(t) /\ ~Waits(t)
    BY <1>1, <2>1 DEF StackTells, OnTop, Waits
  <2>3. life' = [life EXCEPT ![s] = "running"]
    BY <2>1, <2>2, ToldInTurn DEF StackTells
  <2>4. Len(stack') = 1 /\ stack' \in Seq(StackScenes) /\ stack'[1] = s /\ stack' # <<>>
    BY <2>1
  <2>5. \A t \in StackScenes : (OnTop(t)' <=> t = s) /\ ~Waits(t)'
    BY <2>4 DEF OnTop, Waits
  <2>6. \A t \in StackScenes : life[t] = "out"
    BY <2>2 DEF StackTells
  <2>7. \A t \in StackScenes : life'[t] = IF t = s THEN "running" ELSE "out"
    BY <2>3, <2>6 DEF StackTells
  <2>8. life' \in [StackScenes -> {"out", "running", "paused"}]
    BY <2>3 DEF StackTells
  <2> QED
    BY <2>4, <2>5, <2>7, <2>8 DEF StackTells
<1>2. CASE stack # <<>>
  <2> DEFINE n == Len(stack)
             top == stack[n]
             l == [life EXCEPT ![top] = "out"]
  <2>1. /\ n \in Nat \ {0} /\ top \in StackScenes
        /\ \A m \in 1 .. n - 1 : stack[m] # s
        /\ stack' = [stack EXCEPT ![n] = s]
        /\ life' = Ui!Told(Ui!Told(life, "exit", top), "enter", s)
    BY <1>2 DEF StackTells, Ui!Replace, Ui!Top
  <2>2. /\ Len(stack') = n /\ stack' \in Seq(StackScenes) /\ stack'[n] = s /\ stack' # <<>>
        /\ \A m \in 1 .. n - 1 : stack'[m] = stack[m]
    BY <1>2, <2>1 DEF StackTells
  <2>3. life[top] = "running" /\ \A m \in 1 .. n - 1 : stack[m] # top
    BY <1>2, <2>1 DEF StackTells, OnTop
  <2>4. Ui!Told(life, "exit", top) = l /\ l \in [StackScenes -> {"out", "running", "paused"}]
    BY <2>1, <2>3, ToldInTurn DEF StackTells
  <2>5. \A t \in StackScenes : l[t] = IF t = top THEN "out" ELSE life[t]
    BY DEF StackTells
  <2> HIDE DEF l
  <2>6. ~Waits(s) /\ \A t \in StackScenes : (OnTop(t) <=> t = top)
    BY <1>2, <2>1 DEF Waits, OnTop
  <2>7. l[s] = "out"
    BY <2>5, <2>6 DEF StackTells
  <2>8. life' = [l EXCEPT ![s] = "running"]
    BY <2>1, <2>4, <2>7, ToldInTurn
  <2>9. \A t \in StackScenes : life'[t] = IF t = s THEN "running" ELSE IF t = top THEN "out" ELSE life[t]
    BY <2>4, <2>5, <2>8
  <2>10. \A t \in StackScenes : (OnTop(t)' <=> t = s) /\ (Waits(t)' <=> Waits(t))
    BY <2>2 DEF OnTop, Waits
  <2>11. ASSUME NEW m \in 1 .. n, NEW k \in 1 .. n, stack'[m] = stack'[k] PROVE m = k
    <3>1. (m = n \/ m \in 1 .. n - 1) /\ (k = n \/ k \in 1 .. n - 1)
      BY <2>1
    <3>2. stack[m] = stack[k] => m = k
      BY DEF StackTells
    <3> HIDE DEF n
    <3> QED
      BY <2>1, <2>2, <2>11, <3>1, <3>2
  <2>12. ~Waits(top)
    BY <2>3 DEF Waits
  <2>13. life' \in [StackScenes -> {"out", "running", "paused"}]
    BY <2>4, <2>8
  <2> HIDE DEF top, n
  <2>14. ASSUME NEW t \in StackScenes
         PROVE  /\ OnTop(t)' => life'[t] = "running"
                /\ Waits(t)' => life'[t] = "paused"
                /\ ~OnTop(t)' /\ ~Waits(t)' => life'[t] = "out"
    BY <2>6, <2>9, <2>10, <2>12 DEF StackTells
  <2> QED
    BY <2>2, <2>11, <2>13, <2>14 DEF StackTells
<1> QED
  BY <1>1, <1>2

Down(s) == uiPointer[s].active
Of(s, f) == Down(s) /\ uiPointer[s].track = f

UiTypes ==
  /\ visible \subseteq DOMAIN Nodes /\ lit \subseteq Ui!Buttons /\ focused \in Ui!Buttons \cup {0}
  /\ uiPointer \in [Ui!Slot -> [track : UiTracks \cup {Nil}, at : UiCells \cup {Nil}, active : BOOLEAN]]
  /\ glass \in [UiTracks -> UiCells \cup {Nil}]

\* A finger has one slot at most, which knows where it is.
HeldOnce ==
  /\ \A s \in Ui!Slot : Down(s) => /\ uiPointer[s].track \in UiTracks /\ uiPointer[s].at \in UiCells
                                   /\ uiPointer[s].at = glass[uiPointer[s].track]
  /\ \A s, u \in Ui!Slot : Down(s) /\ Of(u, uiPointer[s].track) => s = u

\* What is lit has a finger on it, unless it was hidden or shown since.
LitTells ==
  \A i \in (Ui!Buttons \cap visible) \ turned : i \in lit <=> \E s \in Ui!Slot : Down(s) /\ uiPointer[s].at \in Nodes[i].at

LEMMA FirstOf ==
  ASSUME NEW n \in Nat, NEW S \in SUBSET (1 .. n), S # {}
  PROVE  Ui!First(S) \in S
BY LeastExists DEF Ui!First

LEMMA SlotFound ==
  ASSUME UiConstants, UiTypes, HeldOnce, NEW f \in UiTracks, NEW down \in BOOLEAN
  PROVE  LET s == Ui!SlotOf(f, down) IN
         /\ s = Nil \/ s \in Ui!Slot
         /\ \A u \in Ui!Slot : Of(u, f) => u = s
         /\ s # Nil => down \/ Of(s, f)
<1> DEFINE its == {s \in Ui!Slot : uiPointer[s].active /\ uiPointer[s].track = f}
           free == {s \in Ui!Slot : ~uiPointer[s].active}
           s == Ui!SlotOf(f, down)
<1>1. s = IF its # {} THEN Ui!First(its) ELSE IF down /\ free # {} THEN Ui!First(free) ELSE Nil
  BY DEF Ui!SlotOf
<1>2. (its # {} => Ui!First(its) \in its) /\ (free # {} => Ui!First(free) \in free)
  BY FirstOf DEF UiConstants, Ui!Slot
<1>3. CASE its # {}
  <2>1. s \in its
    BY <1>1, <1>2, <1>3
  <2>2. \A u \in Ui!Slot : Of(u, f) => u = s
    BY <2>1 DEF HeldOnce, Of, Down
  <2>3. s \in Ui!Slot /\ Of(s, f)
    BY <2>1 DEF Of, Down
  <2> QED
    BY <2>2, <2>3
<1>4. CASE its = {}
  <2>1. \A u \in Ui!Slot : ~Of(u, f)
    BY <1>4 DEF Of, Down
  <2>2. s = Nil \/ (down /\ s \in Ui!Slot)
    BY <1>1, <1>2, <1>4
  <2> QED
    BY <2>1, <2>2
<1> QED
  BY <1>3, <1>4

LEMMA PointerTells ==
  ASSUME UiConstants, UiTypes, HeldOnce, LitTells, NEW f \in UiTracks, NEW c \in UiCells, NEW down \in BOOLEAN,
         Ui!Pointer(f, c, down)
  PROVE  /\ UiTypes' /\ HeldOnce' /\ LitTells' /\ clicks'.heard \subseteq clicks'.meant
         /\ (\E s \in Ui!Slot : Of(s, f)) => clicks'.heard = clicks'.meant \/ down
         /\ \A g \in UiTracks \ {f} : glass'[g] = glass[g]
<1> DEFINE place == Ui!SlotOf(f, down)
           new == IF down THEN [track |-> f, at |-> c, active |-> TRUE] ELSE Ui!Unused
<1>1. /\ place = Nil \/ place \in Ui!Slot
      /\ \A u \in Ui!Slot : Of(u, f) => u = place
      /\ place # Nil => down \/ Of(place, f)
      /\ Nil \notin Ui!Slot
  BY SlotFound DEF UiConstants, Ui!Slot
<1>2. /\ glass' = [glass EXCEPT ![f] = IF down THEN c ELSE Nil]
      /\ uiPointer' = IF place = Nil THEN uiPointer ELSE [uiPointer EXCEPT ![place] = new]
      /\ lit' = Ui!Lit(uiPointer', lit) /\ turned' = {} /\ visible' = visible /\ focused' = focused
  BY DEF Ui!Pointer
<1>3. /\ clicks'.heard = IF place = Nil \/ down THEN {} ELSE {i \in Ui!On(c) : uiPointer[place].at \in Nodes[i].at}
      /\ clicks'.meant = IF down THEN {} ELSE {i \in Ui!Buttons \cap visible : {c, glass[f]} \subseteq Nodes[i].at}
  <2>1. clicks' = [heard |-> IF place = Nil \/ down THEN {}
                             ELSE {i \in Ui!On(c) : (IF place = Nil THEN Nil ELSE uiPointer[place].at) \in Nodes[i].at},
                   meant |-> IF down THEN {} ELSE {i \in Ui!Buttons \cap visible : {c, glass[f]} \subseteq Nodes[i].at}]
    BY DEF Ui!Pointer
  <2> QED
    BY <2>1
<1>4. new \in [track : UiTracks \cup {Nil}, at : UiCells \cup {Nil}, active : BOOLEAN] /\ new.active = down
      /\ (down => new.track = f /\ new.at = c)
  BY DEF Ui!Unused
<1> HIDE DEF new
<1>5. \A u \in Ui!Slot : uiPointer'[u] = IF u = place THEN new ELSE uiPointer[u]
  BY <1>1, <1>2 DEF UiTypes
<1>6. glass' \in [UiTracks -> UiCells \cup {Nil}] /\ glass'[f] = (IF down THEN c ELSE Nil)
      /\ \A g \in UiTracks \ {f} : glass'[g] = glass[g]
  BY <1>2 DEF UiTypes
<1>7. uiPointer' \in [Ui!Slot -> [track : UiTracks \cup {Nil}, at : UiCells \cup {Nil}, active : BOOLEAN]]
  BY <1>1, <1>2, <1>4 DEF UiTypes
<1> HIDE DEF place
<1>8. \A i \in Ui!Buttons \cap visible : i \in lit' <=> \E s \in Ui!Slot : uiPointer'[s].active /\ uiPointer'[s].at \in Nodes[i].at
  BY <1>2 DEF Ui!Lit, Ui!On
<1>9. lit' \subseteq Ui!Buttons
  BY <1>2 DEF Ui!Lit, Ui!On, UiTypes
<1>10. UiTypes'
  BY <1>2, <1>6, <1>7, <1>9 DEF UiTypes, Ui!Buttons, Ui!Slot
<1>11. LitTells'
  BY <1>2, <1>8 DEF LitTells, Down, Ui!Buttons, Ui!Slot
<1>12. HeldOnce'
  <2>1. ASSUME NEW s \in Ui!Slot, Down(s)'
        PROVE  /\ uiPointer'[s].track \in UiTracks /\ uiPointer'[s].at \in UiCells
               /\ uiPointer'[s].at = glass'[uiPointer'[s].track]
               /\ uiPointer'[s].track = f => s = place
    <3>1. CASE s = place
      BY <1>4, <1>5, <1>6, <2>1, <3>1 DEF Down
    <3>2. CASE s # place
      <4>1. uiPointer'[s] = uiPointer[s] /\ Down(s)
        BY <1>5, <2>1, <3>2 DEF Down
      <4>2. uiPointer[s].track # f
        BY <1>1, <3>2, <4>1 DEF Of
      <4> QED
        BY <1>6, <4>1, <4>2 DEF HeldOnce
    <3> QED
      BY <3>1, <3>2
  <2>2. ASSUME NEW s \in Ui!Slot, NEW u \in Ui!Slot, Down(s)', Of(u, uiPointer[s].track)'
        PROVE  s = u
    <3>1. Down(u)' /\ uiPointer'[u].track = uiPointer'[s].track
      BY <2>2 DEF Of
    <3>2. CASE uiPointer'[s].track = f
      BY <2>1, <2>2, <3>1, <3>2
    <3>3. CASE uiPointer'[s].track # f
      <4>1. s # place /\ u # place
        BY <1>4, <1>5, <2>2, <3>1, <3>3 DEF Down
      <4> QED
        BY <1>5, <2>2, <3>1, <4>1 DEF HeldOnce, Of, Down
    <3> QED
      BY <3>2, <3>3
  <2>3. Ui!Slot' = Ui!Slot
    BY DEF Ui!Slot
  <2> QED
    BY <2>1, <2>2, <2>3 DEF HeldOnce
<1>13. place # Nil /\ ~down => clicks'.heard = clicks'.meant
  <2> SUFFICES ASSUME place # Nil, ~down PROVE clicks'.heard = clicks'.meant
    OBVIOUS
  <2>1. uiPointer[place].at = glass[f]
    BY <1>1 DEF HeldOnce, Of
  <2> QED
    BY <1>3, <2>1 DEF Ui!On
<1>14. clicks'.heard \subseteq clicks'.meant
  BY <1>3, <1>13
<1>15. (\E s \in Ui!Slot : Of(s, f)) => clicks'.heard = clicks'.meant \/ down
  BY <1>1, <1>13
<1> QED
  BY <1>6, <1>10, <1>11, <1>12, <1>14, <1>15

ButtonsTell == UiTypes /\ HeldOnce /\ LitTells /\ clicks.heard \subseteq clicks.meant

LEMMA ActionTells ==
  ASSUME UiConstants, ButtonsTell, NEW d \in Directions, NEW confirm \in BOOLEAN, Ui!Action(d, confirm)
  PROVE  ButtonsTell'
<1>1. /\ focused' = IF d = 0 THEN focused ELSE Ui!Found(focused, d)
      /\ clicks' = IF confirm /\ focused' # 0 THEN [heard |-> {focused'}, meant |-> {focused'}] ELSE Ui!NoClicks
      /\ UNCHANGED <<visible, lit, uiPointer, glass, turned>>
  BY DEF Ui!Action
<1>2. Ui!Found(focused, d) \in Ui!Buttons \cup {0}
  <2> DEFINE there == {n \in DOMAIN Nodes : Ui!Around(focused, n * d) \in Ui!Buttons \cap visible}
  <2>1. Ui!Found(focused, d) = IF there = {} THEN focused ELSE Ui!Around(focused, Ui!First(there) * d)
    BY DEF Ui!Found
  <2>2. there # {} => Ui!First(there) \in there
    <3>1. DOMAIN Nodes = 1 .. Len(Nodes) /\ Len(Nodes) \in Nat
      BY DEF UiConstants
    <3> QED
      BY <3>1, FirstOf
  <2> QED
    BY <2>1, <2>2 DEF ButtonsTell, UiTypes
<1>3. UiTypes'
  BY <1>1, <1>2 DEF ButtonsTell, UiTypes, Ui!Buttons, Ui!Slot
<1>4. HeldOnce' /\ LitTells'
  BY <1>1 DEF ButtonsTell, HeldOnce, LitTells, Down, Of, Ui!Buttons, Ui!Slot
<1>5. clicks'.heard \subseteq clicks'.meant
  BY <1>1 DEF Ui!NoClicks
<1> QED
  BY <1>3, <1>4, <1>5 DEF ButtonsTell

LEMMA TurnTells ==
  ASSUME UiConstants, ButtonsTell, NEW i \in Ui!Buttons, Ui!Turn(i)
  PROVE  ButtonsTell'
<1>1. /\ visible' = IF i \in visible THEN visible \ {i} ELSE visible \cup {i}
      /\ turned' = turned \cup {i} /\ clicks' = Ui!NoClicks
      /\ UNCHANGED <<lit, focused, uiPointer, glass>>
  BY DEF Ui!Turn
<1>2. UiTypes'
  BY <1>1 DEF ButtonsTell, UiTypes, Ui!Buttons, Ui!Slot
<1>3. HeldOnce'
  BY <1>1 DEF ButtonsTell, HeldOnce, Down, Of, Ui!Slot
<1>4. LitTells'
  BY <1>1 DEF ButtonsTell, LitTells, Down, Ui!Buttons, Ui!Slot
<1>5. clicks'.heard \subseteq clicks'.meant
  BY <1>1 DEF Ui!NoClicks
<1> QED
  BY <1>2, <1>3, <1>4, <1>5 DEF ButtonsTell

LEMMA UiBegins ==
  ASSUME UiConstants, Ui!Init
  PROVE  ButtonsTell /\ StackTells
<1>1. ButtonsTell
  BY DEF Ui!Init, Ui!Unused, Ui!NoClicks, UiConstants, ButtonsTell, UiTypes, HeldOnce, LitTells, Down, Of
<1>2. StackTells
  BY DEF Ui!Init, StackTells, OnTop, Waits
<1> QED
  BY <1>1, <1>2

LEMMA StepTells ==
  ASSUME UiConstants, ButtonsTell, StackTells, [Ui!Next]_Ui!vars
  PROVE  ButtonsTell' /\ StackTells'
<1>1. ASSUME NEW f \in UiTracks, NEW c \in UiCells, NEW down \in BOOLEAN, Ui!Pointer(f, c, down)
      PROVE  ButtonsTell' /\ UNCHANGED <<stack, life>>
  <2>1. UNCHANGED <<stack, life>>
    BY <1>1 DEF Ui!Pointer, Ui!scenes
  <2>2. UiTypes' /\ HeldOnce' /\ LitTells' /\ clicks'.heard \subseteq clicks'.meant
    BY <1>1, PointerTells DEF ButtonsTell
  <2> QED
    BY <2>1, <2>2 DEF ButtonsTell
<1>2. ASSUME NEW d \in Directions, NEW confirm \in BOOLEAN, Ui!Action(d, confirm)
      PROVE  ButtonsTell' /\ UNCHANGED <<stack, life>>
  BY <1>2, ActionTells DEF Ui!Action, Ui!scenes
<1>3. ASSUME NEW i \in Ui!Buttons, Ui!Turn(i)
      PROVE  ButtonsTell' /\ UNCHANGED <<stack, life>>
  BY <1>3, TurnTells DEF Ui!Turn, Ui!scenes
<1>4. ASSUME UNCHANGED <<stack, life>> PROVE StackTells'
  BY <1>4 DEF StackTells, OnTop, Waits
<1>5. ASSUME UNCHANGED <<visible, lit, focused, uiPointer, glass, clicks, turned>> PROVE ButtonsTell'
  BY <1>5 DEF ButtonsTell, UiTypes, HeldOnce, LitTells, Down, Of, Ui!Buttons, Ui!Slot
<1>6. CASE UNCHANGED Ui!vars
  BY <1>4, <1>5, <1>6 DEF Ui!vars, Ui!ui, Ui!scenes
<1>7. CASE (\E s \in StackScenes : Ui!Push(s) \/ Ui!Replace(s)) \/ Ui!Pop
  <2>1. UNCHANGED <<visible, lit, focused, uiPointer, glass, clicks, turned>>
    BY <1>7 DEF Ui!Push, Ui!Replace, Ui!Pop, Ui!ui
  <2> QED
    BY <1>5, <1>7, <2>1, PushTells, ReplaceTells, PopTells
<1> QED
  BY <1>1, <1>2, <1>3, <1>4, <1>6, <1>7 DEF Ui!Next

LEMMA ButtonsTellFingers ==
  ASSUME UiConstants, ButtonsTell
  PROVE  Ui!ButtonsFollowFingers
<1>1. \A S : Ui!Cardinality(S) = Cardinality(S)
  BY DEF Ui!Cardinality, Cardinality
<1>2. ASSUME NEW f \in UiTracks
      PROVE  /\ Ui!HeldBy[f] = {s \in Ui!Slot : Of(s, f)}
             /\ Ui!Cardinality(Ui!HeldBy[f]) <= 1
  <2>1. Ui!HeldBy[f] = {s \in Ui!Slot : Of(s, f)}
    BY DEF Ui!HeldBy, Of, Down
  <2>2. CASE Ui!HeldBy[f] = {}
    BY <1>1, <2>1, <2>2, FS_EmptySet
  <2>3. ASSUME NEW s \in Ui!HeldBy[f] PROVE Ui!Cardinality(Ui!HeldBy[f]) <= 1
    <3>1. Ui!HeldBy[f] = {s}
      BY <2>1, <2>3 DEF ButtonsTell, HeldOnce, Of
    <3> QED
      BY <1>1, <3>1, FS_Singleton
  <2> QED
    BY <2>1, <2>2, <2>3
<1>3. \A f \in UiTracks, s \in Ui!Slot : s \in Ui!HeldBy[f] => uiPointer[s].at = glass[f]
  BY <1>2 DEF ButtonsTell, HeldOnce, Of
<1>4. ASSUME NEW i \in (Ui!Buttons \cap visible) \ turned
      PROVE  i \in lit <=> \E f \in UiTracks : Ui!HeldBy[f] # {} /\ glass[f] \in Nodes[i].at
  <2>1. i \in lit <=> \E s \in Ui!Slot : Down(s) /\ uiPointer[s].at \in Nodes[i].at
    BY DEF ButtonsTell, LitTells
  <2>2. ASSUME NEW s \in Ui!Slot, Down(s), uiPointer[s].at \in Nodes[i].at
        PROVE  \E f \in UiTracks : Ui!HeldBy[f] # {} /\ glass[f] \in Nodes[i].at
    <3>1. uiPointer[s].track \in UiTracks /\ s \in Ui!HeldBy[uiPointer[s].track]
      BY <1>2, <2>2 DEF ButtonsTell, HeldOnce, Of
    <3> QED
      BY <1>3, <2>2, <3>1
  <2>3. ASSUME NEW f \in UiTracks, NEW s \in Ui!HeldBy[f], glass[f] \in Nodes[i].at
        PROVE  s \in Ui!Slot /\ Down(s) /\ uiPointer[s].at \in Nodes[i].at
    BY <1>2, <1>3, <2>3 DEF Of
  <2> QED
    BY <2>1, <2>2, <2>3
<1> QED
  BY <1>2, <1>3, <1>4 DEF ButtonsTell, Ui!ButtonsFollowFingers

\* For any buttons, fingers and slots: a button is called only for a finger
\* that is lifted from it and was on it, and is lit while such a finger has a
\* slot; a scene runs on top of the stack, waits below and is out otherwise.
THEOREM UiIsTold == UiConstants => (Ui!Spec => [](Ui!TypeOK /\ Ui!ButtonsFollowFingers /\ Ui!ScenesTakeTurns))
<1> SUFFICES ASSUME UiConstants PROVE Ui!Spec => [](Ui!TypeOK /\ Ui!ButtonsFollowFingers /\ Ui!ScenesTakeTurns)
  OBVIOUS
<1> DEFINE Inv == ButtonsTell /\ StackTells
<1>1. Ui!Init => Inv
  BY UiBegins
<1>2. Inv /\ [Ui!Next]_Ui!vars => Inv'
  BY StepTells
<1>3. Inv => Ui!TypeOK /\ Ui!ButtonsFollowFingers /\ Ui!ScenesTakeTurns
  BY ButtonsTellFingers, StackTakesTurns DEF ButtonsTell, UiTypes, StackTells, Ui!TypeOK
<1> QED
  BY <1>1, <1>2, <1>3, PTL DEF Ui!Spec

\* A finger that had a slot is not lifted unheard.
THEOREM ClicksAreHeard == UiConstants => (Ui!Spec => [][Ui!ClicksAreHeard]_Ui!vars)
<1> SUFFICES ASSUME UiConstants PROVE Ui!Spec => [][Ui!ClicksAreHeard]_Ui!vars
  OBVIOUS
<1> DEFINE Inv == ButtonsTell /\ StackTells
<1>1. Ui!Init => Inv
  BY UiBegins
<1>2. Inv /\ [Ui!Next]_Ui!vars => Inv'
  BY StepTells
<1>3. Inv /\ [Ui!Next]_Ui!vars => [Ui!ClicksAreHeard]_Ui!vars
  <2> SUFFICES ASSUME Inv, Ui!Next, NEW f \in UiTracks, glass[f] # Nil, glass'[f] = Nil, Ui!HeldBy[f] # {}
               PROVE  clicks'.heard = clicks'.meant
    BY DEF Ui!ClicksAreHeard
  <2>1. PICK g \in UiTracks, c \in UiCells, down \in BOOLEAN : Ui!Pointer(g, c, down)
    <3>1. ~UNCHANGED glass
      OBVIOUS
    <3> QED
      BY <3>1 DEF Ui!Next, Ui!Action, Ui!Turn, Ui!Push, Ui!Replace, Ui!Pop, Ui!ui
  <2>2. g = f
    BY <2>1, PointerTells DEF ButtonsTell
  <2>3. ~down
    BY <2>1, <2>2 DEF Ui!Pointer, ButtonsTell, UiTypes, UiConstants
  <2>4. \E s \in Ui!Slot : Of(s, f)
    BY DEF Ui!HeldBy, Of, Down
  <2> QED
    BY <2>1, <2>2, <2>3, <2>4, PointerTells DEF ButtonsTell
<1> QED
  BY <1>1, <1>2, <1>3, PTL DEF Ui!Spec

(***************************************************************************)
(* The tower defence game                                                  *)
(***************************************************************************)
FoeType == [kind : Tower!Kinds, hp : Nat, waypoint : 0 .. TowerPath]
Fields == [1 .. TowerFoes -> FoeType]
Volleys == [1 .. TowerShots -> [target : 0 .. TowerFoes, damage : Nat]]
Flight == [enemies : Fields, shots : Volleys, killed : Nat, paid : Nat]
Up(field) == {i \in 1 .. TowerFoes : field[i].hp > 0}

LEMMA UpIsFinite ==
  ASSUME TowerConstants, NEW field
  PROVE  IsFiniteSet(Up(field)) /\ Cardinality(Up(field)) \in Nat
<1>1. IsFiniteSet(1 .. TowerFoes)
  BY FS_Interval DEF TowerConstants
<1>2. Up(field) \subseteq 1 .. TowerFoes
  BY DEF Up
<1> HIDE DEF Up
<1> QED
  BY <1>1, <1>2, FS_Subset, FS_CardinalityType

\* A slot whose enemy dies holds one enemy less.
LEMMA Dies ==
  ASSUME TowerConstants, NEW before, NEW after, NEW i \in Up(before), Up(after) = Up(before) \ {i}
  PROVE  Cardinality(Up(after)) = Cardinality(Up(before)) - 1
<1>1. IsFiniteSet(Up(before))
  BY UpIsFinite
<1> HIDE DEF Up
<1> QED
  BY <1>1, FS_RemoveElement, Zenon

\* The health of one enemy.
LEMMA HealthIs ==
  ASSUME NEW field \in Fields, NEW i \in 1 .. TowerFoes, NEW hp \in Nat
  PROVE  /\ [field EXCEPT ![i].hp = hp] \in Fields
         /\ hp > 0 /\ i \in Up(field) => Up([field EXCEPT ![i].hp = hp]) = Up(field)
         /\ hp = 0 => Up([field EXCEPT ![i].hp = hp]) = Up(field) \ {i}
<1> DEFINE after == [field EXCEPT ![i].hp = hp]
<1>1. after = [j \in 1 .. TowerFoes |-> IF j = i THEN [field[i] EXCEPT !.hp = hp] ELSE field[j]]
  BY DEF Fields
<1>2. \A j \in 1 .. TowerFoes : field[j] \in FoeType
  BY DEF Fields
<1>3. [field[i] EXCEPT !.hp = hp] \in FoeType /\ [field[i] EXCEPT !.hp = hp].hp = hp
  BY <1>2 DEF FoeType
<1>4. after \in Fields /\ after[i].hp = hp /\ \A j \in 1 .. TowerFoes \ {i} : after[j] = field[j]
  BY <1>1, <1>2, <1>3 DEF Fields
<1> HIDE DEF after
<1>5. /\ hp > 0 /\ i \in Up(field) => Up(after) = Up(field)
      /\ hp = 0 => Up(after) = Up(field) \ {i}
  BY <1>4 DEF Up
<1> QED
  BY <1>4, <1>5 DEF after

\* A projectile at its turn: what it takes from the field it has counted.
LEMMA ShotIsCounted ==
  ASSUME TowerConstants, wave \in Nat, NEW given \in Flight, NEW s \in 1 .. TowerShots, NEW fate
  PROVE  /\ Tower!Fly(given, s, fate) \in Flight
         /\ Tower!Fly(given, s, fate).killed + Cardinality(Up(Tower!Fly(given, s, fate).enemies)) = given.killed + Cardinality(Up(given.enemies))
<1> DEFINE target == given.shots[s].target
           left == given.enemies[target].hp - given.shots[s].damage
           gone == [given EXCEPT !.shots[s].target = 0]
           hurt == [gone EXCEPT !.enemies[target].hp = left]
           dead == [enemies |-> [given.enemies EXCEPT ![target].hp = 0], shots |-> gone.shots,
                    killed |-> given.killed + 1, paid |-> given.paid + Tower!Reward(given.enemies[target].kind)]
           Fine(f) == f \in Flight /\ f.killed + Cardinality(Up(f.enemies)) = given.killed + Cardinality(Up(given.enemies))
<1>1. /\ given.enemies \in Fields /\ given.shots \in Volleys /\ given.killed \in Nat /\ given.paid \in Nat
      /\ target \in 0 .. TowerFoes /\ given.shots[s].damage \in Nat
      /\ DOMAIN given = {"enemies", "shots", "killed", "paid"}
  BY DEF Flight, Volleys
<1>0. SUFFICES Fine(Tower!Fly(given, s, fate))
  OBVIOUS
<1>2. CASE target = 0 \/ (fate[s] = "flies" /\ ~Tower!Spent(given, s, fate))
  <2>1. Tower!Fly(given, s, fate) = given
    BY <1>2 DEF Tower!Fly
  <2> QED
    BY <2>1
<1>3. CASE target # 0
  <2>1. target \in 1 .. TowerFoes /\ TowerFoes \in Nat
    BY <1>1, <1>3 DEF TowerConstants
  <2>2. given.enemies[target] \in FoeType
    BY <1>1, <2>1 DEF Fields
  <2>3. given.enemies[target].hp \in Nat /\ given.enemies[target].kind \in Tower!Kinds /\ left \in Int
    BY <1>1, <2>2 DEF FoeType
  <2>4. /\ gone \in Flight /\ gone.enemies = given.enemies /\ gone.killed = given.killed /\ gone.paid = given.paid
    <3>1. [given.shots EXCEPT ![s].target = 0] \in Volleys
      <4>3. 0 \in 0 .. TowerFoes
        BY <2>1
      <4>4. given.shots[s] \in [target : 0 .. TowerFoes, damage : Nat]
        BY <1>1, Zenon DEF Volleys
      <4>1. given.shots[s] \in [target : 0 .. TowerFoes, damage : Nat] /\ 0 \in 0 .. TowerFoes
        BY <4>3, <4>4
      <4>2. [given.shots[s] EXCEPT !.target = 0] \in [target : 0 .. TowerFoes, damage : Nat]
        BY <4>1
      <4> QED
        BY <1>1, <4>2 DEF Volleys
    <3> QED
      BY <1>1, <3>1 DEF Flight
  <2>5. Fine(gone)
    BY <2>4
  <2>6. CASE Tower!Spent(given, s, fate)
    <3>1. Tower!Fly(given, s, fate) = gone
      BY <1>3, <2>6 DEF Tower!Fly
    <3> HIDE DEF gone
    <3> QED
      BY <2>5, <3>1
  <2>7. CASE ~Tower!Spent(given, s, fate) /\ fate[s] # "flies"
    <3>1. given.enemies[target].hp # 0
      BY <2>7 DEF Tower!Spent
    <3>2. target \in Up(given.enemies)
      BY <2>1, <2>3, <3>1 DEF Up
    <3>3. CASE left > 0
      <4>1. Tower!Fly(given, s, fate) = hurt
        BY <1>3, <2>7, <3>3 DEF Tower!Fly
      <4>2. left \in Nat
        BY <2>3, <3>3
      <4> HIDE DEF left, target
      <4>3. /\ [given.enemies EXCEPT ![target].hp = left] \in Fields
            /\ Up([given.enemies EXCEPT ![target].hp = left]) = Up(given.enemies)
        BY <1>1, <2>1, <3>2, <3>3, <4>2, HealthIs
      <4> HIDE DEF gone
      <4>4. hurt \in Flight /\ hurt.enemies = [given.enemies EXCEPT ![target].hp = left] /\ hurt.killed = given.killed
        BY <2>4, <4>3 DEF Flight
      <4> HIDE DEF hurt
      <4>5. Fine(hurt)
        BY <4>3, <4>4
      <4> QED
        BY <4>1, <4>5 DEF hurt, gone, left, target
    <3>4. CASE ~(left > 0)
      <4>1. Tower!Fly(given, s, fate) = dead
        BY <1>3, <2>7, <3>4 DEF Tower!Fly
      <4>2. Tower!Reward(given.enemies[target].kind) \in Nat
        BY <2>3 DEF Tower!Reward, Tower!Kinds
      <4> HIDE DEF left, target
      <4>3. /\ [given.enemies EXCEPT ![target].hp = 0] \in Fields
            /\ Up([given.enemies EXCEPT ![target].hp = 0]) = Up(given.enemies) \ {target}
        BY <1>1, <2>1, HealthIs
      <4> HIDE DEF gone
      <4>4. /\ dead \in Flight /\ dead.enemies = [given.enemies EXCEPT ![target].hp = 0]
            /\ dead.killed = given.killed + 1
        <5>1. gone.shots \in Volleys
          BY <2>4 DEF Flight
        <5>2. given.killed + 1 \in Nat /\ given.paid + Tower!Reward(given.enemies[target].kind) \in Nat
          BY <1>1, <4>2
        <5> QED
          BY <5>1, <5>2, <4>3 DEF Flight
      <4>5. Cardinality(Up([given.enemies EXCEPT ![target].hp = 0])) = Cardinality(Up(given.enemies)) - 1
        BY <3>2, <4>3, Dies
      <4>6. Cardinality(Up(given.enemies)) \in Nat
        BY UpIsFinite
      <4> HIDE DEF dead
      <4>7. Fine(dead)
        BY <1>1, <4>4, <4>5, <4>6
      <4> QED
        BY <4>1, <4>7 DEF dead, gone, left, target
    <3> QED
      BY <3>3, <3>4
  <2> QED
    BY <1>2, <2>6, <2>7
<1> QED
  BY <1>2, <1>3

\* A set of numbers with 0 in which each but the last has its successor.
LEMMA CountUp ==
  ASSUME NEW n \in Nat, NEW S \in SUBSET (0 .. n), 0 \in S, \A k \in 1 .. n : k - 1 \in S => k \in S
  PROVE  \A k \in 0 .. n : k \in S
<1> DEFINE Missing == (1 .. n) \ S
<1>1. Missing = {}
  <2> SUFFICES ASSUME Missing # {} PROVE FALSE
    OBVIOUS
  <2>1. PICK k \in Missing : \A j \in Missing : k <= j
    BY LeastExists
  <2>2. k \in 1 .. n /\ k \notin S /\ (k = 1 \/ (k - 1 \in 1 .. n /\ k - 1 \notin Missing))
    BY <2>1
  <2> QED
    BY <2>2
<1> QED
  BY <1>1

IsFlight(f, n, field, guns, fate) ==
  f = [s \in 0 .. n |-> IF s = 0 THEN Tower!Aloft(field, guns) ELSE Tower!Fly(f[s - 1], s, fate)]

LEMMA FlightExists ==
  ASSUME NEW field, NEW guns, NEW fate, NEW n \in Nat
  PROVE  \E f : IsFlight(f, n, field, guns, fate)
<1> DEFINE S == {k \in 0 .. n : \E f : IsFlight(f, k, field, guns, fate)}
<1>1. 0 \in S
  <2> DEFINE f == [s \in 0 .. 0 |-> Tower!Aloft(field, guns)]
  <2>1. f = [s \in 0 .. 0 |-> IF s = 0 THEN Tower!Aloft(field, guns) ELSE Tower!Fly(f[s - 1], s, fate)]
    OBVIOUS
  <2> HIDE DEF f
  <2> QED
    BY <2>1 DEF IsFlight
<1>2. ASSUME NEW k \in 1 .. n, k - 1 \in S PROVE k \in S
  <2>1. PICK g : IsFlight(g, k - 1, field, guns, fate)
    BY <1>2
  <2> DEFINE f == [s \in 0 .. k |-> IF s = k THEN Tower!Fly(g[k - 1], k, fate) ELSE g[s]]
  <2>2. \A s \in 0 .. k - 1 : f[s] = g[s] /\ g[s] = IF s = 0 THEN Tower!Aloft(field, guns) ELSE Tower!Fly(g[s - 1], s, fate)
    BY <2>1 DEF IsFlight
  <2>3. f[k] = Tower!Fly(g[k - 1], k, fate) /\ k - 1 \in 0 .. k - 1 /\ k # 0
    OBVIOUS
  <2>4. \A s \in 0 .. k : s # k /\ s # 0 => s \in 0 .. k - 1 /\ s - 1 \in 0 .. k - 1
    OBVIOUS
  <2>5. f = [s \in 0 .. k |-> f[s]] /\ 0 \in 0 .. k - 1
    OBVIOUS
  <2> HIDE DEF f
  <2>6. \A s \in 0 .. k : f[s] = IF s = 0 THEN Tower!Aloft(field, guns) ELSE Tower!Fly(f[s - 1], s, fate)
    BY <2>2, <2>3, <2>4, <2>5
  <2>7. f = [s \in 0 .. k |-> IF s = 0 THEN Tower!Aloft(field, guns) ELSE Tower!Fly(f[s - 1], s, fate)]
    BY <2>5, <2>6
  <2> QED
    BY <2>7 DEF IsFlight
<1> HIDE DEF S
<1>3. \A k \in 0 .. n : k \in S
  BY <1>1, <1>2, CountUp DEF S
<1> QED
  BY <1>3 DEF S

\* An update's projectiles together: what they killed is gone from the field.
LEMMA FlightCounts ==
  ASSUME TowerConstants, wave \in Nat, NEW field \in Fields, NEW guns \in Volleys, NEW fate
  PROVE  /\ Tower!Flown(field, guns, fate) \in Flight
         /\ Tower!Flown(field, guns, fate).killed + Cardinality(Up(Tower!Flown(field, guns, fate).enemies)) = Cardinality(Up(field))
<1> DEFINE f == CHOOSE g : IsFlight(g, TowerShots, field, guns, fate)
           Fine(given) == given \in Flight /\ given.killed + Cardinality(Up(given.enemies)) = Cardinality(Up(field))
           S == {k \in 0 .. TowerShots : Fine(f[k])}
<1>1. Tower!Flown(field, guns, fate) = f[TowerShots]
  BY DEF Tower!Flown, IsFlight
<1>2. TowerShots \in Nat
  BY DEF TowerConstants
<1>3. IsFlight(f, TowerShots, field, guns, fate)
  BY <1>2, FlightExists
<1> HIDE DEF f
<1>4. \A s \in 0 .. TowerShots : f[s] = IF s = 0 THEN Tower!Aloft(field, guns) ELSE Tower!Fly(f[s - 1], s, fate)
  BY <1>3 DEF IsFlight
<1>5. 0 \in S
  <2>1. f[0] = Tower!Aloft(field, guns)
    BY <1>2, <1>4
  <2>2. Cardinality(Up(field)) \in Nat
    BY UpIsFinite
  <2> QED
    BY <1>2, <2>1, <2>2 DEF Tower!Aloft, Flight
<1>6. ASSUME NEW k \in 1 .. TowerShots, k - 1 \in S PROVE k \in S
  <2>1. f[k] = Tower!Fly(f[k - 1], k, fate) /\ Fine(f[k - 1])
    BY <1>2, <1>4, <1>6
  <2> QED
    BY <2>1, ShotIsCounted
<1> HIDE DEF S
<1>7. \A k \in 0 .. TowerShots : k \in S
  BY <1>2, <1>5, <1>6, CountUp DEF S
<1> QED
  BY <1>1, <1>2, <1>7 DEF S

IsFiring(f, n, aim) == f = [pad \in 0 .. n |-> IF pad = 0 THEN volley ELSE Tower!Fire(f[pad - 1], pad, aim)]

LEMMA FiringExists ==
  ASSUME NEW aim, NEW n \in Nat
  PROVE  \E f : IsFiring(f, n, aim)
<1> DEFINE S == {k \in 0 .. n : \E f : IsFiring(f, k, aim)}
<1>1. 0 \in S
  <2> DEFINE f == [pad \in 0 .. 0 |-> volley]
  <2>1. f = [pad \in 0 .. 0 |-> IF pad = 0 THEN volley ELSE Tower!Fire(f[pad - 1], pad, aim)]
    OBVIOUS
  <2> HIDE DEF f
  <2> QED
    BY <2>1 DEF IsFiring
<1>2. ASSUME NEW k \in 1 .. n, k - 1 \in S PROVE k \in S
  <2>1. PICK g : IsFiring(g, k - 1, aim)
    BY <1>2
  <2> DEFINE f == [pad \in 0 .. k |-> IF pad = k THEN Tower!Fire(g[k - 1], k, aim) ELSE g[pad]]
  <2>2. \A s \in 0 .. k - 1 : f[s] = g[s] /\ g[s] = IF s = 0 THEN volley ELSE Tower!Fire(g[s - 1], s, aim)
    BY <2>1 DEF IsFiring
  <2>3. f[k] = Tower!Fire(g[k - 1], k, aim) /\ k - 1 \in 0 .. k - 1 /\ k # 0
    OBVIOUS
  <2>4. \A s \in 0 .. k : s # k /\ s # 0 => s \in 0 .. k - 1 /\ s - 1 \in 0 .. k - 1
    OBVIOUS
  <2>5. f = [pad \in 0 .. k |-> f[pad]] /\ 0 \in 0 .. k - 1
    OBVIOUS
  <2> HIDE DEF f
  <2>6. \A s \in 0 .. k : f[s] = IF s = 0 THEN volley ELSE Tower!Fire(f[s - 1], s, aim)
    BY <2>2, <2>3, <2>4, <2>5
  <2>7. f = [pad \in 0 .. k |-> IF pad = 0 THEN volley ELSE Tower!Fire(f[pad - 1], pad, aim)]
    BY <2>5, <2>6
  <2> QED
    BY <2>7 DEF IsFiring
<1> HIDE DEF S
<1>3. \A k \in 0 .. n : k \in S
  BY <1>1, <1>2, CountUp DEF S
<1> QED
  BY <1>3 DEF S

LEMMA SlotIsFirst ==
  ASSUME NEW n \in Nat, NEW S \in SUBSET (1 .. n), S # {}
  PROVE  Tower!Min(S) \in S
BY LeastExists DEF Tower!Min

\* What the towers fire is aimed at slots there are.
LEMMA FiringHolds ==
  ASSUME TowerConstants, volley \in Volleys, towers \in [1 .. TowerPads -> [type : Tower!Types, level : 0 .. 3]],
         NEW aim, \A p \in DOMAIN aim : aim[p] \in 0 .. TowerFoes
  PROVE  Tower!Fired(aim) \in Volleys
<1> DEFINE f == CHOOSE g : IsFiring(g, TowerPads, aim)
           S == {k \in 0 .. TowerPads : f[k] \in Volleys}
<1>1. Tower!Fired(aim) = f[TowerPads]
  BY DEF Tower!Fired, IsFiring
<1>2. TowerPads \in Nat /\ TowerShots \in Nat
  BY DEF TowerConstants
<1>3. IsFiring(f, TowerPads, aim)
  BY <1>2, FiringExists
<1> HIDE DEF f
<1>4. \A s \in 0 .. TowerPads : f[s] = IF s = 0 THEN volley ELSE Tower!Fire(f[s - 1], s, aim)
  BY <1>3 DEF IsFiring
<1>5. 0 \in S
  BY <1>2, <1>4
<1>6. ASSUME NEW k \in 1 .. TowerPads, k - 1 \in S PROVE k \in S
  <2> DEFINE given == f[k - 1]
             free == {i \in 1 .. TowerShots : given[i].target = 0}
             shot == [target |-> aim[k], damage |-> Tower!DAMAGE(towers[k])]
  <2>1. f[k] = Tower!Fire(given, k, aim) /\ given \in Volleys
    BY <1>2, <1>4, <1>6
  <2> HIDE DEF given
  <2>2. CASE k \notin DOMAIN aim \/ free = {} \/ aim[k] = 0
    <3>1. Tower!Fire(given, k, aim) = given
      BY <2>2 DEF Tower!Fire
    <3> QED
      BY <2>1, <3>1
  <2>3. CASE k \in DOMAIN aim /\ free # {} /\ aim[k] # 0
    <3>1. Tower!Fire(given, k, aim) = [given EXCEPT ![Tower!Min(free)] = shot]
      BY <2>3 DEF Tower!Fire
    <3>2. shot \in [target : 0 .. TowerFoes, damage : Nat]
      <4>1. towers[k] \in [type : Tower!Types, level : 0 .. 3]
        OBVIOUS
      <4>2. towers[k].level \in 0 .. 3
        BY <4>1
      <4> QED
        BY <2>3, <4>2 DEF Tower!DAMAGE
    <3>3. Tower!Min(free) \in 1 .. TowerShots
      <4>1. free \in SUBSET (1 .. TowerShots)
        OBVIOUS
      <4> HIDE DEF free
      <4> QED
        BY <1>2, <2>3, <4>1, SlotIsFirst
    <3> HIDE DEF shot, free
    <3>4. [given EXCEPT ![Tower!Min(free)] = shot] \in Volleys
      BY <2>1, <3>2, <3>3 DEF Volleys
    <3> QED
      BY <2>1, <3>1, <3>4
  <2> QED
    BY <2>2, <2>3
<1> HIDE DEF S
<1>7. \A k \in 0 .. TowerPads : k \in S
  BY <1>2, <1>5, <1>6, CountUp DEF S
<1> QED
  BY <1>1, <1>2, <1>7 DEF S

TowerType == [type : Tower!Types, level : 0 .. 3]

\* A wave sends at most one more enemy, into a slot that is free.
LEMMA SpawnCounts ==
  ASSUME TowerConstants, wave \in Nat, foes \in Fields, NEW due \in BOOLEAN, NEW kind \in Tower!Kinds
  PROVE  /\ Tower!Spawned(due, kind) \in Fields
         /\ Cardinality(Up(Tower!Spawned(due, kind))) = Cardinality(Up(foes)) + IF Tower!Spawned(due, kind) = foes THEN 0 ELSE 1
<1> DEFINE free == {i \in 1 .. TowerFoes : foes[i].hp = 0}
           born == Tower!Spawned(due, kind)
           foe == [kind |-> kind, hp |-> FoeHp(kind), waypoint |-> 1]
<1>0. TowerFoes \in Nat /\ TowerPath \in Nat \ {0} /\ FoeHp(kind) \in Nat \ {0}
  BY DEF TowerConstants
<1>1. CASE ~(due /\ spawned < WaveSize(wave) /\ free # {})
  <2>1. born = foes
    BY <1>1 DEF Tower!Spawned
  <2>2. Cardinality(Up(foes)) \in Nat
    BY UpIsFinite
  <2> HIDE DEF born
  <2> QED
    BY <2>1, <2>2 DEF born
<1>2. CASE due /\ spawned < WaveSize(wave) /\ free # {}
  <2>1. born = [foes EXCEPT ![Tower!Min(free)] = foe]
    BY <1>2 DEF Tower!Spawned
  <2>2. free \in SUBSET (1 .. TowerFoes)
    OBVIOUS
  <2> HIDE DEF free, born
  <2>3. Tower!Min(free) \in free
    BY <1>0, <1>2, <2>2, SlotIsFirst
  <2> DEFINE place == Tower!Min(free)
  <2>4. place \in 1 .. TowerFoes /\ foes[place].hp = 0
    BY <2>3 DEF free
  <2> HIDE DEF place
  <2>5. foe \in FoeType /\ foe.hp # 0 /\ foe.hp > 0
    BY <1>0 DEF FoeType
  <2> HIDE DEF foe
  <2>6. born \in Fields /\ born[place] = foe /\ \A i \in 1 .. TowerFoes \ {place} : born[i] = foes[i]
    BY <2>1, <2>4, <2>5 DEF Fields, place
  <2>7. Up(born) = Up(foes) \cup {place} /\ place \notin Up(foes) /\ born # foes
    BY <2>4, <2>5, <2>6 DEF Up
  <2>8. IsFiniteSet(Up(foes)) /\ Cardinality(Up(foes)) \in Nat
    BY UpIsFinite
  <2> HIDE DEF Up
  <2>9. Cardinality(Up(born)) = Cardinality(Up(foes)) + 1
    BY <2>7, <2>8, FS_AddElement
  <2> QED
    BY <2>6, <2>7, <2>9 DEF born
<1> QED
  BY <1>1, <1>2

\* Those that leave were up, and the others walk on.
LEMMA WalkCounts ==
  ASSUME TowerConstants, NEW given \in Fields, NEW arrive \in SUBSET Up(given)
  PROVE  /\ Tower!Walked(given, arrive) \in Fields
         /\ IsFiniteSet(Tower!Leaving(given, arrive)) /\ Cardinality(Tower!Leaving(given, arrive)) \in Nat
         /\ Cardinality(Up(Tower!Walked(given, arrive))) = Cardinality(Up(given)) - Cardinality(Tower!Leaving(given, arrive))
<1> DEFINE left == Tower!Leaving(given, arrive)
           field == Tower!Walked(given, arrive)
<1>0. TowerFoes \in Nat /\ TowerPath \in Nat \ {0}
  BY DEF TowerConstants
<1>1. left \subseteq Up(given) /\ Up(given) \subseteq 1 .. TowerFoes
  BY DEF Tower!Leaving, Up
<1>2. \A i \in 1 .. TowerFoes : given[i] \in FoeType
  BY DEF Fields
<1>3. \A i \in 1 .. TowerFoes : /\ field[i] \in FoeType
                              /\ field[i].hp = IF i \in left THEN 0 ELSE given[i].hp
  <2> SUFFICES ASSUME NEW i \in 1 .. TowerFoes
               PROVE  field[i] \in FoeType /\ field[i].hp = IF i \in left THEN 0 ELSE given[i].hp
    OBVIOUS
  <2>1. CASE i \in left
    BY <1>2, <2>1 DEF Tower!Walked, FoeType
  <2>2. CASE i \notin left /\ i \in arrive
    <3>1. given[i].waypoint + 1 \in 0 .. TowerPath
      BY <1>0, <1>2, <2>2 DEF Tower!Leaving, FoeType
    <3> QED
      BY <1>2, <2>2, <3>1 DEF Tower!Walked, FoeType
  <2>3. CASE i \notin left /\ i \notin arrive
    BY <1>2, <2>3 DEF Tower!Walked
  <2> QED
    BY <2>1, <2>2, <2>3
<1>4. field \in Fields
  <2>1. field = [i \in 1 .. TowerFoes |-> field[i]]
    BY DEF Tower!Walked
  <2> HIDE DEF field
  <2> QED
    BY <1>3, <2>1 DEF Fields
<1> HIDE DEF left, field
<1>5. Up(field) = Up(given) \ left
  BY <1>1, <1>3 DEF Up
<1>6. IsFiniteSet(Up(given)) /\ Cardinality(Up(given)) \in Nat
  BY UpIsFinite
<1> HIDE DEF Up
<1>7. IsFiniteSet(left) /\ Cardinality(left) \in Nat
  BY <1>1, <1>6, FS_Subset, FS_CardinalityType
<1>8. Up(given) \cap left = left
  BY <1>1
<1>9. Cardinality(Up(given) \ left) = Cardinality(Up(given)) - Cardinality(left)
  BY <1>6, <1>8, FS_Difference
<1> QED
  BY <1>4, <1>5, <1>7, <1>9 DEF left, field

\* The least of two prices is a price.
LEMMA DealIs ==
  ASSUME NEW tower \in TowerType, towerType \in Tower!Types
  PROVE  Tower!Deal(tower).price \in Int /\ Tower!Deal(tower).tower \in TowerType
<1> DEFINE fresh == [type |-> towerType, level |-> 1]
           cost == Tower!COST(towerType)
           dearer == Tower!UPGRADE_COST(tower.type) * tower.level
<1>1. /\ tower.type \in Tower!Types /\ tower.level \in 0 .. 3 /\ fresh \in TowerType
  BY DEF TowerType
<1>2. \A t \in Tower!Types : Tower!COST(t) \in Nat /\ Tower!UPGRADE_COST(t) \in Nat
  BY DEF Tower!Types, Tower!COST, Tower!UPGRADE_COST
<1>3. cost \in Nat /\ dearer \in Int
  <2>1. Tower!UPGRADE_COST(tower.type) \in Nat /\ tower.level \in Nat
    BY <1>1, <1>2
  <2>2. \A a, b \in Nat : a * b \in Int
    OBVIOUS
  <2> QED
    BY <1>2, <2>1, <2>2
<1>4. Tower!Refund(tower, cost) \in Int
  <2>1. Tower!Investment(tower) \in Int
    <3>1. tower.level * (tower.level - 1) \in Int
      BY <1>1
    <3> DEFINE steps == (tower.level * (tower.level - 1)) \div 2
               step == Tower!UPGRADE_COST(tower.type)
    <3>2. steps \in Int /\ step \in Int /\ Tower!COST(tower.type) \in Int
      BY <1>1, <1>2, <3>1
    <3> HIDE DEF steps, step
    <3>3. step * steps \in Int
      BY <3>2
    <3> QED
      BY <3>2, <3>3 DEF Tower!Investment, steps, step
  <2> DEFINE half == Tower!Investment(tower) \div 2
  <2>2. half \in Int /\ cost \in Int
    BY <1>3, <2>1
  <2> HIDE DEF half, cost
  <2>3. Tower!Min({cost, half}) \in {cost, half}
    BY <2>2 DEF Tower!Min
  <2> QED
    BY <2>2, <2>3 DEF Tower!Refund, half
<1>5. CASE tower.level = 0
  <2>1. Tower!Deal(tower) = [price |-> cost, tower |-> fresh]
    BY <1>5 DEF Tower!Deal
  <2> HIDE DEF fresh, cost
  <2> QED
    BY <1>1, <1>3, <2>1
<1>6. CASE tower.level # 0 /\ tower.type # towerType
  <2>1. Tower!Deal(tower) = [price |-> cost - Tower!Refund(tower, cost), tower |-> fresh]
    BY <1>6 DEF Tower!Deal
  <2> HIDE DEF fresh, cost
  <2> QED
    BY <1>1, <1>3, <1>4, <2>1
<1>7. CASE tower.level # 0 /\ tower.type = towerType /\ tower.level < 3
  <2>1. Tower!Deal(tower) = [price |-> dearer, tower |-> [tower EXCEPT !.level = tower.level + 1]]
    BY <1>7 DEF Tower!Deal
  <2>2. [tower EXCEPT !.level = tower.level + 1] \in TowerType
    BY <1>1, <1>7 DEF TowerType
  <2> HIDE DEF dearer
  <2> QED
    BY <1>3, <2>1, <2>2
<1>8. CASE tower.level # 0 /\ tower.type = towerType /\ ~(tower.level < 3)
  <2>1. Tower!Deal(tower) = [price |-> 0, tower |-> tower]
    BY <1>8 DEF Tower!Deal
  <2> QED
    BY <2>1
<1> QED
  BY <1>5, <1>6, <1>7, <1>8

TowerTypes ==
  /\ towerPhase \in {"start", "playing", "paused", "over"} /\ tapping \in BOOLEAN /\ towerType \in Tower!Types
  /\ towers \in [1 .. TowerPads -> TowerType]
  /\ credits \in Nat /\ base \in 0 .. TowerBase /\ wave \in 1 .. LastWave
  /\ foes \in Fields /\ volley \in Volleys
  /\ spawned \in Nat /\ fallen \in Nat /\ through \in Nat

TowerInductive ==
  /\ TowerTypes
  /\ spawned = Cardinality(Up(foes)) + fallen + through
  /\ towerPhase # "start" => (base = 0 <=> towerPhase = "over")

LEMMA FieldIsEmpty ==
  ASSUME TowerConstants, NEW field, \A i \in 1 .. TowerFoes : field[i].hp = 0
  PROVE  Cardinality(Up(field)) = 0
<1>1. Up(field) = {}
  BY DEF Up
<1> QED
  BY <1>1, FS_EmptySet

LEMMA NoneYet ==
  ASSUME TowerConstants
  PROVE  /\ [i \in 1 .. TowerFoes |-> [kind |-> 0, hp |-> 0, waypoint |-> 0]] \in Fields
         /\ [i \in 1 .. TowerShots |-> [target |-> 0, damage |-> 0]] \in Volleys
         /\ [i \in 1 .. TowerPads |-> [type |-> 0, level |-> 0]] \in [1 .. TowerPads -> TowerType]
         /\ Cardinality(Up([i \in 1 .. TowerFoes |-> [kind |-> 0, hp |-> 0, waypoint |-> 0]])) = 0
<1>0. TowerFoes \in Nat /\ TowerPath \in Nat
  BY DEF TowerConstants
<1>1. [kind |-> 0, hp |-> 0, waypoint |-> 0] \in FoeType
  BY <1>0 DEF FoeType, Tower!Kinds
<1>2. [target |-> 0, damage |-> 0] \in [target : 0 .. TowerFoes, damage : Nat]
  BY <1>0
<1>3. [type |-> 0, level |-> 0] \in TowerType
  BY DEF TowerType, Tower!Types
<1>4. \A i \in 1 .. TowerFoes : [j \in 1 .. TowerFoes |-> [kind |-> 0, hp |-> 0, waypoint |-> 0]][i].hp = 0
  OBVIOUS
<1>5. Cardinality(Up([i \in 1 .. TowerFoes |-> [kind |-> 0, hp |-> 0, waypoint |-> 0]])) = 0
  BY <1>4, FieldIsEmpty
<1> QED
  BY <1>1, <1>2, <1>3, <1>5 DEF Fields, Volleys

LEMMA TowersBegin ==
  ASSUME TowerConstants, Tower!Init
  PROVE  TowerInductive
<1>1. Savings \in Nat /\ TowerBase \in Nat \ {0} /\ LastWave \in Nat \ {0}
  BY DEF TowerConstants
<1>2. foes \in Fields /\ volley \in Volleys /\ towers \in [1 .. TowerPads -> TowerType] /\ Cardinality(Up(foes)) = 0
  BY NoneYet DEF Tower!Init
<1>3. /\ spawned = 0 /\ fallen = 0 /\ through = 0 /\ base # 0 /\ towerPhase = "start"
  BY <1>1 DEF Tower!Init
<1>4. towerPhase = "start" /\ tapping = FALSE /\ towerType = 0 /\ credits = Savings /\ base = TowerBase /\ wave = 1
  BY DEF Tower!Init
<1>5. TowerTypes
  <2>1. towerType \in Tower!Types /\ credits \in Nat /\ base \in 0 .. TowerBase /\ wave \in 1 .. LastWave
    BY <1>1, <1>4 DEF Tower!Types
  <2>2. spawned \in Nat /\ fallen \in Nat /\ through \in Nat
    BY <1>3
  <2> QED
    BY <1>2, <1>4, <2>1, <2>2, Zenon DEF TowerTypes
<1> QED
  BY <1>2, <1>3, <1>5 DEF TowerInductive

LEMMA PressKeepsTowers ==
  ASSUME TowerConstants, TowerInductive, Tower!Press
  PROVE  TowerInductive'
<1>1. CASE Tower!NewGame("playing")
  <2>1. Savings \in Nat /\ TowerBase \in Nat \ {0} /\ LastWave \in Nat \ {0}
    BY DEF TowerConstants
  <2>2. foes' \in Fields /\ volley' \in Volleys /\ towers' \in [1 .. TowerPads -> TowerType] /\ Cardinality(Up(foes')) = 0
    BY <1>1, NoneYet DEF Tower!NewGame
  <2>3. tapping' = TRUE
    BY DEF Tower!Press
  <2>4. Up(foes)' = Up(foes')
    BY DEF Up
  <2> QED
    BY <1>1, <2>1, <2>2, <2>3, <2>4 DEF Tower!NewGame, TowerInductive, TowerTypes, Tower!Types
<1>2. ASSUME NEW i \in 1 .. TowerPads, Tower!TapPad(i), tapping' = TRUE PROVE TowerInductive'
  <2>1. towers[i] \in TowerType
    BY DEF TowerInductive, TowerTypes
  <2>2. Tower!Deal(towers[i]).price \in Int /\ Tower!Deal(towers[i]).tower \in TowerType
    BY <2>1, DealIs DEF TowerInductive, TowerTypes
  <2> DEFINE deal == Tower!Deal(towers[i])
  <2>3. credits' \in Nat /\ towers' \in [1 .. TowerPads -> TowerType]
    <3>1. CASE credits >= deal.price
      <4>1. credits' = credits - deal.price /\ towers' = [towers EXCEPT ![i] = deal.tower]
        BY <1>2, <3>1 DEF Tower!TapPad
      <4> HIDE DEF deal
      <4>2. deal.price \in Int /\ deal.tower \in TowerType /\ credits \in Nat
        BY <2>2 DEF deal, TowerInductive, TowerTypes
      <4>3. [towers EXCEPT ![i] = deal.tower] \in [1 .. TowerPads -> TowerType]
        BY <4>2 DEF TowerInductive, TowerTypes
      <4> QED
        BY <3>1, <4>1, <4>2, <4>3
    <3>2. CASE ~(credits >= deal.price)
      <4>1. credits' = credits /\ towers' = towers
        BY <1>2, <3>2 DEF Tower!TapPad
      <4> QED
        BY <4>1 DEF TowerInductive, TowerTypes
    <3> QED
      BY <3>1, <3>2
  <2>4. UNCHANGED <<towerPhase, towerType, base, foes, volley, wave, spawned, fallen, through>>
    BY <1>2 DEF Tower!TapPad
  <2> QED
    BY <1>2, <2>3, <2>4 DEF TowerInductive, TowerTypes, Up
<1>3. ASSUME NEW t \in Tower!Types, Tower!TapType(t), tapping' = TRUE PROVE TowerInductive'
  BY <1>3 DEF Tower!TapType, TowerInductive, TowerTypes, Up
<1>4. ASSUME Tower!TapPause, tapping' = TRUE PROVE TowerInductive'
  BY <1>4 DEF Tower!TapPause, TowerInductive, TowerTypes, Up
<1> QED
  BY <1>1, <1>2, <1>3, <1>4 DEF Tower!Press

\* An enemy is sent, leaves or is shot once.
LEMMA Tally ==
  ASSUME NEW sent \in Nat, NEW up \in Nat, NEW standing \in Nat, NEW away \in Nat, NEW shot \in Nat,
         NEW before \in Nat, NEW out \in Nat, shot + standing = (up + sent) - away
  PROVE  /\ ((up + before) + out) + sent \in Nat
         /\ ((up + before) + out) + sent = standing + (before + shot) + (out + away)
OBVIOUS

LEMMA UpdateKeepsTowers ==
  ASSUME TowerConstants, TowerInductive, Tower!Update
  PROVE  TowerInductive'
<1>0. /\ TowerFoes \in Nat /\ TowerBase \in Nat \ {0} /\ LastWave \in Nat \ {0} /\ wave \in Nat /\ wave \in 1 .. LastWave
      /\ foes \in Fields /\ volley \in Volleys /\ towers \in [1 .. TowerPads -> TowerType]
      /\ spawned \in Nat /\ fallen \in Nat /\ through \in Nat /\ credits \in Nat /\ base \in 0 .. TowerBase
  BY DEF TowerConstants, TowerInductive, TowerTypes
<1>1. PICK due \in BOOLEAN, kind \in Tower!Kinds :
        \E born \in {Tower!Spawned(due, kind)} :
        \E arrive \in SUBSET {i \in 1 .. TowerFoes : born[i].hp > 0} : \E field \in {Tower!Walked(born, arrive)} :
        \E aim \in [{p \in 1 .. TowerPads : towers[p].level > 0} -> {i \in 1 .. TowerFoes : field[i].hp > 0} \cup {0}] :
        \E guns \in {Tower!Fired(aim)} :
        \E fate \in [{s \in 1 .. TowerShots : guns[s].target # 0} -> {"flies", "hits", "spent"}] :
        \E end \in {Tower!Flown(field, guns, fate)} : Tower!Settle(born, Tower!Leaving(born, arrive), end)
  <2>1. (IF wave < 2 THEN {0} ELSE Tower!Kinds) \subseteq Tower!Kinds
    BY DEF Tower!Kinds
  <2> QED
    BY <2>1, Zenon DEF Tower!Update
<1>20. PICK born \in {Tower!Spawned(due, kind)} :
        \E arrive \in SUBSET {i \in 1 .. TowerFoes : born[i].hp > 0} : \E field \in {Tower!Walked(born, arrive)} :
        \E aim \in [{p \in 1 .. TowerPads : towers[p].level > 0} -> {i \in 1 .. TowerFoes : field[i].hp > 0} \cup {0}] :
        \E guns \in {Tower!Fired(aim)} :
        \E fate \in [{s \in 1 .. TowerShots : guns[s].target # 0} -> {"flies", "hits", "spent"}] :
        \E end \in {Tower!Flown(field, guns, fate)} : Tower!Settle(born, Tower!Leaving(born, arrive), end)
  BY <1>1, Zenon
<1>21. PICK arrive \in SUBSET {i \in 1 .. TowerFoes : born[i].hp > 0} : \E field \in {Tower!Walked(born, arrive)} :
        \E aim \in [{p \in 1 .. TowerPads : towers[p].level > 0} -> {i \in 1 .. TowerFoes : field[i].hp > 0} \cup {0}] :
        \E guns \in {Tower!Fired(aim)} :
        \E fate \in [{s \in 1 .. TowerShots : guns[s].target # 0} -> {"flies", "hits", "spent"}] :
        \E end \in {Tower!Flown(field, guns, fate)} : Tower!Settle(born, Tower!Leaving(born, arrive), end)
  BY <1>20, Zenon
<1> DEFINE field == Tower!Walked(born, arrive)
           left == Tower!Leaving(born, arrive)
<1>22. PICK aim \in [{p \in 1 .. TowerPads : towers[p].level > 0} -> {i \in 1 .. TowerFoes : field[i].hp > 0} \cup {0}] :
        \E guns \in {Tower!Fired(aim)} :
        \E fate \in [{s \in 1 .. TowerShots : guns[s].target # 0} -> {"flies", "hits", "spent"}] :
        \E end \in {Tower!Flown(field, guns, fate)} : Tower!Settle(born, left, end)
  BY <1>21, Zenon
<1> DEFINE guns == Tower!Fired(aim)
<1>23. PICK fate : Tower!Settle(born, left, Tower!Flown(field, guns, fate))
  BY <1>22, Zenon
<1> DEFINE end == Tower!Flown(field, guns, fate)
<1>24. /\ Tower!Settle(born, left, end) /\ towerPhase = "playing"
       /\ UNCHANGED <<tapping, towerType, towers>>
  BY <1>23 DEF Tower!Update
<1>2. /\ born \in Fields
      /\ Cardinality(Up(born)) = Cardinality(Up(foes)) + IF born = foes THEN 0 ELSE 1
  BY <1>0, <1>20, SpawnCounts
<1>3. /\ field \in Fields /\ IsFiniteSet(left) /\ Cardinality(left) \in Nat
      /\ Cardinality(Up(field)) = Cardinality(Up(born)) - Cardinality(left)
  <2>1. arrive \in SUBSET Up(born)
    BY <1>21 DEF Up
  <2> QED
    BY <1>2, <2>1, WalkCounts
<1>4. guns \in Volleys
  <2>1. \A p \in DOMAIN aim : aim[p] \in 0 .. TowerFoes
    BY <1>0, <1>22
  <2> HIDE DEF field
  <2> QED
    BY <1>0, <2>1, FiringHolds DEF TowerType
<1>5. end \in Flight /\ end.killed + Cardinality(Up(end.enemies)) = Cardinality(Up(field))
  <2> HIDE DEF field, guns
  <2> QED
    BY <1>0, <1>3, <1>4, FlightCounts DEF field, guns
<1> HIDE DEF field, left, guns, end
<1>6. /\ end.enemies \in Fields /\ end.shots \in Volleys /\ end.killed \in Nat /\ end.paid \in Nat
  BY <1>5 DEF Flight
<1> DEFINE strong == {i \in left : born[i].kind = 1}
           hurt == Cardinality(left) + 2 * Cardinality(strong)
           sent == IF born = foes THEN 0 ELSE 1
           out == spawned + sent
           over == out >= WaveSize(wave) /\ \A i \in 1 .. TowerFoes : end.enemies[i].hp = 0
<1>7. hurt \in Nat /\ (left = {} => hurt = 0)
  <2>1. IsFiniteSet(strong) /\ Cardinality(strong) \in Nat
    <3>1. strong \subseteq left
      OBVIOUS
    <3> HIDE DEF strong
    <3> QED
      BY <1>3, <3>1, FS_Subset, FS_CardinalityType
  <2>2. left = {} => strong = {}
    OBVIOUS
  <2>3. Cardinality({}) = 0
    BY FS_EmptySet
  <2> HIDE DEF strong
  <2>4. left = {} => Cardinality(left) = 0 /\ Cardinality(strong) = 0
    BY <2>2, <2>3
  <2> QED
    BY <1>3, <2>1, <2>4
<1>8. /\ over => wave < LastWave
      /\ base' = IF base > hurt THEN base - hurt ELSE 0
      /\ towerPhase' = IF left # {} /\ base' = 0 THEN "over" ELSE towerPhase
      /\ foes' = end.enemies /\ volley' = end.shots
      /\ wave' = IF over THEN wave + 1 ELSE wave
      /\ spawned' = IF over THEN 0 ELSE out
      /\ fallen' = IF over THEN 0 ELSE fallen + end.killed
      /\ through' = IF over THEN 0 ELSE through + Cardinality(left)
      /\ credits' = credits + end.paid + IF over THEN Tower!Bonus(wave + 1) ELSE 0
      /\ UNCHANGED <<tapping, towerType, towers>>
  <2>1. \A S : Tower!Cardinality(S) = Cardinality(S)
    BY DEF Tower!Cardinality, Cardinality
  <2> QED
    BY <1>24, <2>1 DEF Tower!Settle
<1> HIDE DEF hurt
<1>9. base' \in 0 .. TowerBase /\ towerPhase' \in {"playing", "over"} /\ (base' = 0 <=> towerPhase' = "over")
  <2>1. base # 0 /\ towerPhase = "playing"
    BY <1>24 DEF TowerInductive
  <2> HIDE DEF over, out
  <2>2. base' \in 0 .. TowerBase
    BY <1>0, <1>7, <1>8
  <2>3. left = {} => base' # 0
    BY <1>0, <1>7, <1>8, <2>1
  <2> QED
    BY <1>8, <2>1, <2>2, <2>3
<1>10. Cardinality(Up(end.enemies)) \in Nat /\ Cardinality(Up(foes)) \in Nat
  BY UpIsFinite
<1>11. out \in Nat /\ out = Cardinality(Up(end.enemies)) + (fallen + end.killed) + (through + Cardinality(left))
  <2>1. spawned = Cardinality(Up(foes)) + fallen + through
    BY DEF TowerInductive
  <2>2. sent \in Nat /\ Cardinality(Up(born)) = Cardinality(Up(foes)) + sent
    BY <1>2
  <2> HIDE DEF sent
  <2>3. end.killed + Cardinality(Up(end.enemies)) = (Cardinality(Up(foes)) + sent) - Cardinality(left)
    BY <1>3, <1>5, <2>2
  <2> QED
    <3>0. /\ fallen \in Nat /\ through \in Nat /\ Cardinality(left) \in Nat /\ end.killed \in Nat /\ sent \in Nat
          /\ Cardinality(Up(end.enemies)) \in Nat /\ Cardinality(Up(foes)) \in Nat
      BY <1>0, <1>3, <1>6, <1>10, <2>2
    <3>1. /\ ((Cardinality(Up(foes)) + fallen) + through) + sent \in Nat
          /\ ((Cardinality(Up(foes)) + fallen) + through) + sent =
               Cardinality(Up(end.enemies)) + (fallen + end.killed) + (through + Cardinality(left))
      <4> DEFINE up == Cardinality(Up(foes))
                 standing == Cardinality(Up(end.enemies))
                 away == Cardinality(left)
                 shot == end.killed
      <4>1. shot + standing = (up + sent) - away
        BY <2>3
      <4>2. fallen \in Nat /\ through \in Nat /\ away \in Nat /\ shot \in Nat /\ sent \in Nat /\ standing \in Nat /\ up \in Nat
        BY <3>0
      <4> HIDE DEF up, standing, away, shot
      <4>3. ((up + fallen) + through) + sent \in Nat
        BY <4>2
      <4>4. ((up + fallen) + through) + sent = standing + (fallen + shot) + (through + away)
        BY ONLY <4>1, <4>2, Tally
      <4> QED
        BY <4>3, <4>4 DEF up, standing, away, shot
    <3> QED
      BY <2>1, <3>1, Zenon
<1>12. over => Cardinality(Up(end.enemies)) = 0
  BY FieldIsEmpty
<1> HIDE DEF over, out
<1>13. Tower!Bonus(wave + 1) \in Nat
  BY <1>0 DEF Tower!Bonus
<1>14. /\ wave' \in 1 .. LastWave /\ credits' \in Nat /\ spawned' \in Nat /\ fallen' \in Nat /\ through' \in Nat
       /\ spawned' = Cardinality(Up(end.enemies)) + fallen' + through'
  <2>1. CASE over
    <3>1. /\ wave' = wave + 1 /\ wave < LastWave /\ credits' = credits + end.paid + Tower!Bonus(wave + 1) /\ spawned' = 0
          /\ fallen' = 0 /\ through' = 0 /\ Cardinality(Up(end.enemies)) = 0
      BY <1>8, <1>12, <2>1
    <3>2. wave' \in 1 .. LastWave
      BY <1>0, <3>1
    <3>3. \A a, b, c \in Nat : a + b + c \in Nat
      OBVIOUS
    <3>4. credits' \in Nat
      BY <1>0, <1>6, <1>13, <3>1, <3>3, Zenon
    <3> QED
      BY <3>1, <3>2, <3>4
  <2>2. CASE ~over
    <3>1. /\ wave' = wave /\ credits' = credits + end.paid + 0 /\ spawned' = out
          /\ fallen' = fallen + end.killed /\ through' = through + Cardinality(left)
      BY <1>8, <2>2
    <3>2. spawned' = Cardinality(Up(end.enemies)) + fallen' + through'
      BY <1>11, <3>1
    <3>3. \A a, b \in Nat : a + b \in Nat /\ a + b + 0 \in Nat
      OBVIOUS
    <3>4. wave' \in 1 .. LastWave /\ credits' \in Nat /\ spawned' \in Nat /\ fallen' \in Nat /\ through' \in Nat
      BY <1>0, <1>3, <1>6, <1>11, <3>1, <3>3, Zenon
    <3> QED
      BY <3>2, <3>4
  <2> QED
    BY <2>1, <2>2
<1>15. Up(foes)' = Up(end.enemies)
  BY <1>8 DEF Up
<1> QED
  BY <1>6, <1>8, <1>9, <1>14, <1>15 DEF TowerInductive, TowerTypes

LEMMA StepKeepsTowers ==
  ASSUME TowerConstants, TowerInductive, [Tower!Next]_Tower!vars
  PROVE  TowerInductive'
<1>1. CASE UNCHANGED Tower!vars
  BY <1>1 DEF Tower!vars, TowerInductive, TowerTypes, Up
<1>2. CASE Tower!Release
  BY <1>2 DEF Tower!Release, TowerInductive, TowerTypes, Up
<1> QED
  BY <1>1, <1>2, PressKeepsTowers, UpdateKeepsTowers DEF Tower!Next

\* For any numbers of pads, slots and waypoints and any waves: each enemy that
\* was sent walks, was shot once or got through once, though the passes of an
\* update share the slots; and the game is over when and only when the base has
\* fallen (tower_game_update, examples/tower_defense/main/tower_game.c).
THEOREM WavesAddUp == TowerConstants => (Tower!Spec => [](Tower!TypeOK /\ Tower!EnemiesAccounted))
<1> SUFFICES ASSUME TowerConstants PROVE Tower!Spec => [](Tower!TypeOK /\ Tower!EnemiesAccounted)
  OBVIOUS
<1>1. Tower!Init => TowerInductive
  BY TowersBegin
<1>2. TowerInductive /\ [Tower!Next]_Tower!vars => TowerInductive'
  BY StepKeepsTowers
<1>3. TowerInductive => Tower!TypeOK /\ Tower!EnemiesAccounted
  <2> SUFFICES ASSUME TowerInductive PROVE Tower!TypeOK /\ Tower!EnemiesAccounted
    OBVIOUS
  <2>1. \A i \in 1 .. TowerFoes : foes[i] \in FoeType
    BY DEF TowerInductive, TowerTypes, Fields
  <2>2. \A s \in 1 .. TowerShots : volley[s] \in [target : 0 .. TowerFoes, damage : Nat]
    BY DEF TowerInductive, TowerTypes, Volleys
  <2>3. Tower!TypeOK
    BY <2>1, <2>2 DEF TowerInductive, TowerTypes, Tower!TypeOK, FoeType, TowerType
  <2> QED
    <3>1. \A S : Tower!Cardinality(S) = Cardinality(S)
      BY DEF Tower!Cardinality, Cardinality
    <3>2. Tower!Active = Up(foes)
      BY DEF Tower!Active, Up
    <3>3. spawned = Tower!Cardinality(Tower!Active) + fallen + through
      BY <3>1, <3>2 DEF TowerInductive
    <3> QED
      BY <2>3, <3>3 DEF TowerInductive, Tower!EnemiesAccounted
<1> QED
  BY <1>1, <1>2, <1>3, PTL DEF Tower!Spec

(***************************************************************************)
(* The invariants of Games                                                 *)
(***************************************************************************)
\* What is looked at stays the same.
LEMMA TitleStays ==
  ASSUME [Play]_games
  PROVE  title' = title
BY DEF Play, games

\* What is stored of a course was driven on it, and a slot that is clean has
\* kept what was asked for.
THEOREM RecordsStayTrue ==
  RallyConstants => (GamesSpec => []RecordsAreTrue)
<1> SUFFICES ASSUME RallyConstants PROVE GamesSpec => []RecordsAreTrue
  OBVIOUS
<1> DEFINE A == title = "records"
<1>1. GamesInit /\ A => Rally!Init
  BY DEF GamesInit, GamesStart
<1>2. A /\ [Play]_games => [Rally!Next]_Rally!vars /\ A'
  BY TitleStays DEF Play, games, RallyVars, Rally!vars
<1>3. ~A /\ [Play]_games => ~A'
  BY TitleStays
<1>4. Rally!Spec => [](Rally!TypeOK /\ Rally!StoredWasDriven /\ Rally!CleanMeansKept)
  BY RecordsHold
<1>5. (A => Rally!TypeOK /\ Rally!StoredWasDriven /\ Rally!CleanMeansKept) => RecordsAreTrue
  BY DEF RecordsAreTrue
<1> QED
  BY <1>1, <1>2, <1>3, <1>4, <1>5,
     PTL DEF GamesSpec, Rally!Spec

\* The living world on show is whole, whatever fails when another is chosen; on
\* a stack of scenes only the top one runs.
THEOREM ScenesStayWhole ==
  WorldConstants /\ UiConstants => (GamesSpec => []SceneIsWhole)
<1> SUFFICES ASSUME WorldConstants /\ UiConstants PROVE GamesSpec => []SceneIsWhole
  OBVIOUS
<1> DEFINE A == title = "worlds"
<1> DEFINE B == title = "ui"
<1>1. GamesInit /\ A => Worlds!Init
  BY DEF GamesInit, GamesStart
<1>2. A /\ [Play]_games => [Worlds!Next]_Worlds!vars /\ A'
  BY TitleStays DEF Play, games, WorldsVars, Worlds!vars
<1>3. ~A /\ [Play]_games => ~A'
  BY TitleStays
<1>4. Worlds!Spec => [](Worlds!TypeOK /\ Worlds!SceneIsWhole)
  BY WorldsAreWhole
<1>5. GamesInit /\ B => Ui!Init
  BY DEF GamesInit, GamesStart
<1>6. B /\ [Play]_games => [Ui!Next]_Ui!vars /\ B'
  BY TitleStays DEF Play, games, UiVars, Ui!vars, Ui!ui, Ui!scenes
<1>7. ~B /\ [Play]_games => ~B'
  BY TitleStays
<1>8. Ui!Spec => [](Ui!TypeOK /\ Ui!ButtonsFollowFingers /\ Ui!ScenesTakeTurns)
  BY UiIsTold
<1>9. (A => Worlds!TypeOK /\ Worlds!SceneIsWhole) /\ (B => Ui!TypeOK /\ Ui!ScenesTakeTurns) => SceneIsWhole
  BY DEF SceneIsWhole
<1> QED
  BY <1>1, <1>2, <1>3, <1>4, <1>5, <1>6, <1>7, <1>8, <1>9,
     PTL DEF GamesSpec, Worlds!Spec, Ui!Spec

\* A control of Sky Hop or Last Zone is held, and a button lit or called, only
\* for a finger that is on it.
THEOREM NothingGetsStuck ==
  HopConstants /\ StickConstants /\ UiConstants => (GamesSpec => []NothingIsStuck)
<1> SUFFICES ASSUME HopConstants /\ StickConstants /\ UiConstants PROVE GamesSpec => []NothingIsStuck
  OBVIOUS
<1> DEFINE A == title = "skyhop"
<1> DEFINE B == title = "stick"
<1> DEFINE C == title = "ui"
<1>1. GamesInit /\ A => Hop!Init
  BY DEF GamesInit, GamesStart
<1>2. A /\ [Play]_games => [Hop!Next]_Hop!vars /\ A'
  BY TitleStays DEF Play, games, HopVars, Hop!vars
<1>3. ~A /\ [Play]_games => ~A'
  BY TitleStays
<1>4. Hop!Spec => [](Hop!TypeOK /\ Hop!NothingIsStuck)
  BY ControlsAreTouched
<1>5. GamesInit /\ B => Stick!Init
  BY DEF GamesInit, GamesStart
<1>6. B /\ [Play]_games => [Stick!Next]_Stick!vars /\ B'
  BY TitleStays DEF Play, games, StickVars, Stick!vars
<1>7. ~B /\ [Play]_games => ~B'
  BY TitleStays
<1>8. Stick!Spec => [](Stick!TypeOK /\ Stick!CapturesAreTouched)
  BY CapturesAreHeld
<1>9. GamesInit /\ C => Ui!Init
  BY DEF GamesInit, GamesStart
<1>10. C /\ [Play]_games => [Ui!Next]_Ui!vars /\ C'
  BY TitleStays DEF Play, games, UiVars, Ui!vars, Ui!ui, Ui!scenes
<1>11. ~C /\ [Play]_games => ~C'
  BY TitleStays
<1>12. Ui!Spec => [](Ui!TypeOK /\ Ui!ButtonsFollowFingers /\ Ui!ScenesTakeTurns)
  BY UiIsTold
<1>13. (A => Hop!TypeOK /\ Hop!NothingIsStuck) /\ (B => Stick!TypeOK /\ Stick!CapturesAreTouched)
       /\ (C => Ui!ButtonsFollowFingers) => NothingIsStuck
  BY DEF NothingIsStuck
<1> QED
  BY <1>1, <1>2, <1>3, <1>4, <1>5, <1>6, <1>7, <1>8, <1>9, <1>10, <1>11, <1>12, <1>13,
     PTL DEF GamesSpec, Hop!Spec, Stick!Spec, Ui!Spec

\* No lap counts without its gates, ranks follow the distance and a ride pays
\* what was driven; no shot falls without the aim it takes, and no mission is
\* won with a hostile up; and every enemy of a wave of the tower defence is
\* accounted for.
THEOREM RulesStayKept ==
  RideConstants /\ ZoneConstants /\ TowerConstants => (GamesSpec => []RulesAreKept)
<1> SUFFICES ASSUME RideConstants /\ ZoneConstants /\ TowerConstants PROVE GamesSpec => []RulesAreKept
  OBVIOUS
<1> DEFINE A == title = "race"
<1> DEFINE B == title = "zone"
<1> DEFINE C == title = "tower"
<1>1. GamesInit /\ A => Race!Init
  BY DEF GamesInit, GamesStart
<1>2. A /\ [Play]_games => [Race!Next]_Race!vars /\ A'
  BY TitleStays DEF Play, games, RaceVars, Race!vars
<1>3. ~A /\ [Play]_games => ~A'
  BY TitleStays
<1>4. Race!Spec => []Race!RaceIsFair
  BY RacesAreFair DEF RideConstants
<1>5. Race!Spec => [](Race!TypeOK /\ Race!RideIsFair)
  BY RidesAreFair
<1>6. GamesInit /\ B => Mission!Init
  BY DEF GamesInit, GamesStart
<1>7. B /\ [Play]_games => [Mission!Next]_Mission!vars /\ B'
  BY TitleStays DEF Play, games, MissionVars, Mission!vars
<1>8. ~B /\ [Play]_games => ~B'
  BY TitleStays
<1>9. Mission!Spec => []Mission!FairWarning
  BY WarningsAreFair
<1>10. Mission!Spec => [](Mission!TypeOK /\ Mission!MissionAccounted)
  BY MissionsAddUp
<1>11. GamesInit /\ C => Tower!Init
  BY DEF GamesInit, GamesStart
<1>12. C /\ [Play]_games => [Tower!Next]_Tower!vars /\ C'
  BY TitleStays DEF Play, games, TowerVars, Tower!vars
<1>13. ~C /\ [Play]_games => ~C'
  BY TitleStays
<1>14. Tower!Spec => [](Tower!TypeOK /\ Tower!EnemiesAccounted)
  BY WavesAddUp
<1>15. /\ A => Race!RaceIsFair /\ Race!TypeOK /\ Race!RideIsFair
       /\ B => Mission!FairWarning /\ Mission!TypeOK /\ Mission!MissionAccounted
       /\ C => Tower!TypeOK /\ Tower!EnemiesAccounted
       => RulesAreKept
  BY DEF RulesAreKept
<1> QED
  BY <1>1, <1>2, <1>3, <1>4, <1>5, <1>6, <1>7, <1>8, <1>9, <1>10, <1>11, <1>12, <1>13, <1>14, <1>15,
     PTL DEF GamesSpec, Race!Spec, Mission!Spec, Tower!Spec

\* Once the flash has been read right, no step makes a stored record worse.
THEOREM RecordsStayGood == RallyConstants => (GamesSpec => RecordsOnlyImprove)
<1> SUFFICES ASSUME RallyConstants PROVE GamesSpec => RecordsOnlyImprove
  OBVIOUS
<1> DEFINE A == title = "records"
           Inv == A => RallyInductive
<1>1. GamesInit => Inv
  BY RallyInit DEF GamesInit, GamesStart
<1>2. [Play]_games => title' = title /\ (A => [Rally!Next]_Rally!vars)
  BY TitleStays DEF Play, games, RallyVars, Rally!vars
<1>3. Inv /\ [Play]_games => Inv'
  BY <1>2, StepKeepsRecords
<1>4. Inv /\ [Play]_games => [title = "records" => Rally!RecordsImprove]_games
  <2> SUFFICES ASSUME Inv, A, [Play]_games PROVE Rally!RecordsImprove
    OBVIOUS
  <2>1. ~misread' => \A c \in Rally!Course : Rally!NoWorse(Kept(c), Kept(c)')
    BY <1>2, StepKeepsRecords
  <2> QED
    BY <2>1 DEF Rally!RecordsImprove, Kept, Rally!TimeOf, Rally!Migrate, Rally!Empty
<1> QED
  BY <1>1, <1>3, <1>4, PTL DEF GamesSpec, RecordsOnlyImprove

(***************************************************************************)
(* The runner that times the games                                         *)
(***************************************************************************)
USE RunnerAssumption

(* Arithmetic: what division, the clamp and the rounded wait do.           *)

\* A quotient and its remainder.
LEMMA Division ==
  ASSUME NEW a \in Int, NEW b \in Nat \ {0}
  PROVE  /\ a \div b \in Int /\ a % b \in 0 .. b - 1
         /\ a = (a \div b) * b + (a % b)
  BY SMT

\* Products keep the order of their factors.
LEMMA Monotone ==
  ASSUME NEW a \in Int, NEW b \in Int, NEW c \in Nat, a <= b
  PROVE  a * c <= b * c
  BY SMT

\* A product is distributed over a sum.
LEMMA Distribute ==
  ASSUME NEW a \in Int, NEW b \in Int, NEW c \in Int
  PROVE  (a + b) * c = a * c + b * c /\ (a - b) * c = a * c - b * c
  BY SMT

\* A quotient is the number of times that fits.
LEMMA Quotient ==
  ASSUME NEW q \in Int, NEW b \in Nat \ {0}, NEW r \in 0 .. b - 1
  PROVE  (q * b + r) \div b = q /\ (q * b + r) % b = r
  BY SMT

LEMMA QuotientOrder ==
  ASSUME NEW a \in Int, NEW b \in Nat \ {0}, NEW q \in Int
  PROVE  q * b <= a <=> q <= a \div b
  BY SMT

\* The clamp leaves what it discards aside, keeps the phase and bounds the rest.
LEMMA Clamping ==
  ASSUME NEW value \in Nat, NEW limit \in Nat
  PROVE  /\ Clamped(value, limit) \in Nat /\ Clamped(value, limit) <= value
         /\ Discarded(value, limit) \in Nat
         /\ Discarded(value, limit) * CreditOne + Clamped(value, limit) = value
         /\ Clamped(value, limit) < (limit + 1) * CreditOne
         /\ Clamped(value, limit) \div CreditOne
              = Least(limit, value \div CreditOne)
<1> DEFINE due == value \div CreditOne
           rest == value % CreditOne
<1>1. due \in Nat /\ rest \in 0 .. CreditOne - 1
      /\ value = due * CreditOne + rest
  <2>1. due \in Int /\ rest \in 0 .. CreditOne - 1
        /\ value = due * CreditOne + rest
    BY Division
  <2>2. 0 * CreditOne <= value /\ 0 \in Int
    BY SMT
  <2>3. 0 <= due
    BY <2>2, QuotientOrder
  <2> QED
    BY <2>1, <2>3
<1>2. CASE due > limit
  <2>1. Clamped(value, limit) = limit * CreditOne + rest
        /\ Discarded(value, limit) = due - limit
    BY <1>2 DEF Clamped, Discarded
  <2>2. (due - limit) * CreditOne = due * CreditOne - limit * CreditOne
        /\ (limit + 1) * CreditOne = limit * CreditOne + 1 * CreditOne
    BY <1>1, Distribute
  <2>3. limit * CreditOne <= due * CreditOne
    BY <1>1, <1>2, Monotone
  <2>4. (limit * CreditOne + rest) \div CreditOne = limit
    BY <1>1, Quotient
  <2>5. limit * CreditOne \in Nat /\ due * CreditOne \in Nat
    BY <1>1
  <2> HIDE DEF due, rest
  <2>6. Least(limit, due) = limit
    BY <1>1, <1>2 DEF Least
  <2>0. Clamped(value, limit) \div CreditOne
          = Least(limit, value \div CreditOne)
    BY <2>1, <2>4, <2>6 DEF due
  <2> DEFINE kept == limit * CreditOne
             whole == due * CreditOne
             next == (limit + 1) * CreditOne
  <2>8. kept \in Nat /\ whole \in Nat /\ kept <= whole
        /\ next = kept + CreditOne
    BY <2>2, <2>3, <2>5
  <2>9. Clamped(value, limit) = kept + rest /\ value = whole + rest
        /\ Discarded(value, limit) * CreditOne = whole - kept
    BY <1>1, <2>1, <2>2
  <2> HIDE DEF kept, whole, next
  <2>10. /\ Clamped(value, limit) \in Nat /\ Clamped(value, limit) <= value
         /\ Discarded(value, limit) * CreditOne + Clamped(value, limit) = value
         /\ Clamped(value, limit) < next
    BY <1>1, <2>8, <2>9
  <2>11. Discarded(value, limit) \in Nat
    BY <1>1, <1>2, <2>1
  <2> QED
    BY <2>0, <2>10, <2>11 DEF next
<1>3. CASE ~(due > limit)
  <2>1. Clamped(value, limit) = value /\ Discarded(value, limit) = 0
    BY <1>3 DEF Clamped, Discarded
  <2>2. due * CreditOne <= limit * CreditOne
    BY <1>1, <1>3, Monotone
  <2>3. (limit + 1) * CreditOne = limit * CreditOne + 1 * CreditOne
    BY Distribute
  <2>4. limit * CreditOne \in Nat /\ due * CreditOne \in Nat
        /\ 0 * CreditOne = 0
    BY <1>1
  <2> HIDE DEF due, rest
  <2>5. Least(limit, due) = due
    BY <1>1, <1>3 DEF Least
  <2> QED
    BY <1>1, <1>3, <2>1, <2>2, <2>3, <2>4, <2>5 DEF due
<1> QED
  BY <1>2, <1>3

\* Earning never lowers a credit nor passes its maximum.
LEMMA Earning ==
  ASSUME NEW value \in 0 .. CreditMax, NEW elapsed \in Nat, NEW rate \in Nat
  PROVE  /\ elapsed * rate \in Nat
         /\ Saturated(value, elapsed, rate) \in 0 .. CreditMax
         /\ Saturated(value, elapsed, rate) <= value + elapsed * rate
<1>1. elapsed * rate \in Nat
  OBVIOUS
<1> QED
  BY <1>1 DEF Saturated

\* The clamp hides the saturation: as many whole credits are left as if the
\* addition had no maximum.
LEMMA SaturationHidden ==
  ASSUME NEW value \in 0 .. CreditMax, NEW elapsed \in Nat, NEW rate \in Nat,
         NEW limit \in Nat, limit * CreditOne <= CreditMax
  PROVE  Clamped(Saturated(value, elapsed, rate), limit) \div CreditOne
           = Least(limit, (value + elapsed * rate) \div CreditOne)
<1> DEFINE total == value + elapsed * rate
<1>1. total \in Nat
  BY Earning
<1>2. Clamped(Saturated(value, elapsed, rate), limit) \div CreditOne
        = Least(limit, Saturated(value, elapsed, rate) \div CreditOne)
  <2>1. Saturated(value, elapsed, rate) \in Nat
    BY Earning
  <2> QED
    BY <2>1, Clamping
<1>3. CASE total > CreditMax
  <2>1. Saturated(value, elapsed, rate) = CreditMax
    BY <1>3 DEF Saturated
  <2>2. limit * CreditOne <= total
    BY <1>1, <1>3
  <2> HIDE DEF total
  <2>3. limit <= CreditMax \div CreditOne /\ limit <= total \div CreditOne
    BY <1>1, <2>2, QuotientOrder
  <2>4. CreditMax \div CreditOne \in Int /\ total \div CreditOne \in Int
    BY <1>1, Division
  <2>5. Least(limit, CreditMax \div CreditOne) = limit
        /\ Least(limit, total \div CreditOne) = limit
    BY <2>3, <2>4 DEF Least
  <2> QED
    BY <1>2, <2>1, <2>5 DEF total
<1>4. CASE ~(total > CreditMax)
  BY <1>2, <1>4 DEF Saturated
<1> QED
  BY <1>3, <1>4

\* The rounded wait is the shortest that completes a credit.
LEMMA Waiting ==
  ASSUME NEW value \in 0 .. CreditOne, NEW rate \in Nat \ {0}
  PROVE  /\ Until(value, rate) \in Nat
         /\ value + Until(value, rate) * rate >= CreditOne
         /\ value < CreditOne =>
              value + (Until(value, rate) - 1) * rate < CreditOne
<1> DEFINE need == CreditOne - value
           sum == need + rate - 1
           wait0 == sum \div rate
<1>1. Until(value, rate) = wait0
  BY DEF Until
<1>2. need \in Nat /\ sum \in Nat
  OBVIOUS
<1> HIDE DEF need, sum
<1>3. wait0 \in Int /\ sum % rate \in 0 .. rate - 1
      /\ sum = wait0 * rate + (sum % rate)
  BY <1>2, Division
<1>4. wait0 >= 0
  <2>1. 0 * rate <= sum /\ 0 \in Int
    BY <1>2
  <2> QED
    BY <1>2, <2>1, QuotientOrder
<1> HIDE DEF wait0
<1>5. (wait0 - 1) * rate = wait0 * rate - 1 * rate
  BY <1>3, Distribute
<1>6. wait0 * rate \in Int
  BY <1>3
<1> QED
  BY <1>1, <1>2, <1>3, <1>4, <1>5, <1>6 DEF need, sum

(* The inductive invariant.                                                *)

\* One credit is within the maximum.
LEMMA OneFits == CreditOne \in 0 .. CreditMax
<1>1. 1 * CreditOne <= MaxLogic * CreditOne
  BY Monotone
<1>2. MaxLogic * CreditOne \in Int
  OBVIOUS
<1> QED
  BY <1>1, <1>2

LEMMA InitInductive == Init => Inductive
<1> SUFFICES ASSUME Init PROVE Inductive
  OBVIOUS
<1> USE DEF Init
<1>2. TypeOK
  <2>1. logic \in 0 .. CreditMax /\ render \in 0 .. CreditMax
    BY OneFits, Zenon
  <2>2. 0 \in Nat /\ 0 \in 0 .. 0
    OBVIOUS
  <2> QED
    BY <2>1, <2>2, Zenon DEF TypeOK
<1>3. ClockOrder /\ Stages /\ BoundedPass
  BY DEF ClockOrder, Stages, BoundedPass
<1>4. NoDrift /\ SleepsExact
  BY DEF NoDrift, SleepsExact
<1> QED
  BY <1>2, <1>3, <1>4 DEF Inductive

\* Step Earn: the credit earned is what the elapsed time is worth.
LEMMA EarnInductive == Inductive /\ Earn => Inductive'
<1> SUFFICES ASSUME Inductive, Earn PROVE Inductive'
  OBVIOUS
<1> USE DEF Inductive
<1> DEFINE elapsed == clock' - previous
           full    == Saturated(logic, elapsed, LogicHz)
           seen   == Saturated(render, elapsed, fps')
<1>1. /\ clock' \in Nat /\ clock' >= clock /\ elapsed \in Nat
      /\ now' = clock' /\ previous' = clock' /\ fps' \in Rates
      /\ fps' \in Nat
  BY DEF Earn, Pass, TypeOK, ClockOrder
<1>2. /\ logic' = Clamped(full, MaxLogic) /\ render' = Clamped(seen, 1)
      /\ ticks' = ticks + Discarded(full, MaxLogic)
      /\ lost' = (lost \/ full < logic + elapsed * LogicHz)
      /\ updates' = 0 /\ frames' = 0 /\ pc' = "logic" /\ pc = "test"
      /\ wait' = wait /\ since' = since
  BY DEF Earn
<1>3. /\ elapsed * LogicHz \in Nat /\ full \in 0 .. CreditMax
      /\ full <= logic + elapsed * LogicHz /\ seen \in 0 .. CreditMax
  BY <1>1, Earning DEF TypeOK
<1> HIDE DEF elapsed, full, seen
<1>4. /\ logic' \in Nat /\ logic' <= full
      /\ Discarded(full, MaxLogic) \in Nat
      /\ Discarded(full, MaxLogic) * CreditOne + logic' = full
      /\ logic' < (MaxLogic + 1) * CreditOne
  BY <1>2, <1>3, Clamping
<1>5. render' \in Nat /\ render' <= seen /\ render' < 2 * CreditOne
  BY <1>2, <1>3, Clamping
<1>6. TypeOK'
  BY <1>1, <1>2, <1>3, <1>4, <1>5 DEF TypeOK, elapsed
<1>7. ClockOrder'
  BY <1>1, <1>2 DEF ClockOrder, TypeOK
<1>8. Stages'
  BY <1>2, <1>4, <1>5 DEF Stages
<1>9. BoundedPass' /\ SleepsExact'
  BY <1>2 DEF BoundedPass, SleepsExact
<1>10. NoDrift'
  <2> SUFFICES ASSUME ~lost'
      PROVE  ticks' * CreditOne + logic'
               = CreditOne + (previous' - since') * LogicHz
    BY DEF NoDrift
  <2>0. ~(full < logic + elapsed * LogicHz) /\ ~lost
    BY <1>2, Zenon
  <2>1. ticks * CreditOne + logic = CreditOne + (previous - since) * LogicHz
    BY <2>0 DEF NoDrift
  <2>2. full = logic + elapsed * LogicHz
    BY <1>3, <2>0 DEF TypeOK
  <2>3. (ticks + Discarded(full, MaxLogic)) * CreditOne
          = ticks * CreditOne + Discarded(full, MaxLogic) * CreditOne
    BY <1>4, Distribute DEF TypeOK
  <2>4. ((previous - since) + elapsed) * LogicHz
          = (previous - since) * LogicHz + elapsed * LogicHz
    BY <1>1, Distribute DEF TypeOK
  <2>5. previous' - since' = (previous - since) + elapsed
    BY <1>1, <1>2 DEF elapsed, TypeOK
  <2>6. /\ ticks * CreditOne \in Int /\ (previous - since) * LogicHz \in Int
        /\ Discarded(full, MaxLogic) * CreditOne \in Int
    BY <1>4 DEF TypeOK
  <2> QED
    BY <1>2, <1>3, <1>4, <2>1, <2>2, <2>3, <2>4, <2>5, <2>6 DEF TypeOK
<1> QED
  BY <1>6, <1>7, <1>8, <1>9, <1>10

\* Step Idle: the credit and the time base start again.
LEMMA IdleInductive == Inductive /\ Idle => Inductive'
<1> SUFFICES ASSUME Inductive, Idle PROVE Inductive'
  OBVIOUS
<1>1. /\ pc = "test" /\ logic' = CreditOne /\ render' = CreditOne
      /\ previous' = clock' /\ since' = clock' /\ now' = now
      /\ updates' = 0 /\ frames' = 0 /\ wait' = 0 /\ ticks' = 0
      /\ pc' = "test" /\ fps' = fps
  BY DEF Idle
<1>2. lost' = FALSE
  BY Zenon DEF Idle
<1>3. clock' \in Nat /\ clock' >= clock
  BY DEF Idle, Pass, Inductive, TypeOK
<1>4. TypeOK'
  <2>1. logic' \in 0 .. CreditMax /\ render' \in 0 .. CreditMax
    BY <1>1, OneFits, Zenon
  <2>2. since' \in 0 .. clock' /\ previous' \in Nat /\ now' \in Nat
        /\ updates' \in Nat /\ frames' \in Nat /\ wait' \in Nat
        /\ ticks' \in Nat
    BY <1>1, <1>3 DEF Inductive, TypeOK
  <2>3. fps' \in Rates /\ pc' \in {"test", "logic", "sleep"}
    BY <1>1 DEF Inductive, TypeOK
  <2> QED
    BY <1>2, <1>3, <2>1, <2>2, <2>3, Zenon DEF TypeOK
<1>5. ClockOrder'
  BY <1>1, <1>3 DEF ClockOrder, Inductive, TypeOK
<1>6. Stages' /\ BoundedPass' /\ SleepsExact'
  BY <1>1 DEF Stages, BoundedPass, SleepsExact
<1>7. NoDrift'
  <2>1. previous' - since' = 0
    <3>1. \A t \in Nat : t - t = 0
      OBVIOUS
    <3> QED
      BY <1>1, <1>3, <3>1
  <2>3. 0 * CreditOne = 0 /\ 0 * LogicHz = 0
    OBVIOUS
  <2>2. ticks' * CreditOne + logic'
          = CreditOne + (previous' - since') * LogicHz
    BY <1>1, <2>1, <2>3
  <2> QED
    BY <2>2, Zenon DEF NoDrift
<1> QED
  BY <1>4, <1>5, <1>6, <1>7 DEF Inductive

\* Step Update: a whole credit becomes an update.
LEMMA UpdateInductive == Inductive /\ Update => Inductive'
<1> SUFFICES ASSUME Inductive, Update PROVE Inductive'
  OBVIOUS
<1> USE DEF Inductive, Update, Run, WholeCredit
<1>1. clock' \in Nat /\ clock' >= clock
  BY DEF Pass, TypeOK
<1>2. /\ (updates + 1) * CreditOne = updates * CreditOne + 1 * CreditOne
      /\ (ticks + 1) * CreditOne = ticks * CreditOne + 1 * CreditOne
  BY Distribute DEF TypeOK
<1>3. updates * CreditOne \in Nat /\ ticks * CreditOne \in Nat
  BY DEF TypeOK
<1>4. TypeOK'
  BY <1>1 DEF TypeOK
<1>5. ClockOrder'
  BY <1>1 DEF ClockOrder, TypeOK
<1>6. Stages'
  BY <1>2, <1>3 DEF Stages, TypeOK
<1>7. BoundedPass'
  <2>1. (updates + 1) * CreditOne < (MaxLogic + 1) * CreditOne
    BY <1>2, <1>3 DEF Stages, TypeOK
  <2>2. CASE updates + 1 > MaxLogic
    <3>1. (MaxLogic + 1) * CreditOne <= (updates + 1) * CreditOne
      BY <2>2, Monotone DEF TypeOK
    <3> QED
      BY <2>1, <3>1 DEF TypeOK
  <2> QED
    BY <2>2 DEF BoundedPass, TypeOK, Stages
<1>8. SleepsExact'
  BY DEF SleepsExact
<1>9. NoDrift'
  <2>1. (previous - since) * LogicHz \in Int
    BY DEF TypeOK
  <2> QED
    BY <1>2, <1>3, <2>1 DEF NoDrift, TypeOK
<1> QED
  BY <1>4, <1>5, <1>6, <1>7, <1>8, <1>9

\* Step Render: a whole credit becomes a frame, and nothing is left to do.
LEMMA RenderInductive == Inductive /\ Render => Inductive'
<1> SUFFICES ASSUME Inductive, Render PROVE Inductive'
  OBVIOUS
<1> USE DEF Inductive, Render, WholeCredit, ledger
<1>1. clock' \in Nat /\ clock' >= clock
  BY DEF Pass, TypeOK
<1>2. TypeOK'
  BY <1>1 DEF TypeOK, Stages
<1>3. ClockOrder'
  BY <1>1 DEF ClockOrder, TypeOK
<1>4. Stages'
  BY DEF Stages
<1>6. BoundedPass'
  BY DEF BoundedPass, Stages, TypeOK
<1>7. NoDrift' /\ SleepsExact'
  BY DEF NoDrift, SleepsExact
<1> QED
  BY <1>2, <1>3, <1>4, <1>6, <1>7

\* Step Sleep: the pass lasts until the first credit is whole.
LEMMA SleepInductive == Inductive /\ Sleep => Inductive'
<1> SUFFICES ASSUME Inductive, Sleep PROVE Inductive'
  OBVIOUS
<1> USE DEF Inductive
<1> DEFINE forLogic  == Until(logic, LogicHz)
           forRender == Until(render, fps)
           until     == Least(forLogic, forRender)
<1>1. /\ pc = "sleep" /\ pc' = "test" /\ previous = now
      /\ logic < CreditOne /\ render < CreditOne
      /\ UNCHANGED <<previous, now, logic, render, fps, updates, frames>>
      /\ UNCHANGED <<since, ticks, lost>>
  BY DEF Sleep, ClockOrder, BoundedPass, credit, work, ledger
<1>2. /\ forLogic \in Nat /\ logic + forLogic * LogicHz >= CreditOne
      /\ logic + (forLogic - 1) * LogicHz < CreditOne
  BY <1>1, Waiting DEF TypeOK
<1>3. /\ forRender \in Nat /\ render + forRender * fps >= CreditOne
      /\ render + (forRender - 1) * fps < CreditOne
  <2>1. fps \in Nat \ {0} /\ render \in 0 .. CreditOne
    BY <1>1 DEF TypeOK
  <2> QED
    BY <1>1, <2>1, Waiting
<1>4. /\ \/ wait' = until - (clock - now) /\ clock' = clock + wait'
            /\ clock - now < until
         \/ wait' = 0 /\ clock' \in Nat /\ clock' >= clock
  BY DEF Sleep, Pass, TypeOK
<1> HIDE DEF forLogic, forRender
<1>5. /\ until \in Nat /\ until <= forLogic /\ until <= forRender
      /\ until = forLogic \/ until = forRender
  BY <1>2, <1>3 DEF Least
<1> HIDE DEF until
<1>6. wait' \in Nat /\ clock' \in Nat /\ clock' >= clock
      /\ (wait' > 0 => clock' - previous' = until)
  BY <1>1, <1>4, <1>5 DEF TypeOK, ClockOrder
<1>7. TypeOK'
  BY <1>1, <1>6 DEF TypeOK
<1>8. ClockOrder'
  BY <1>1, <1>6 DEF ClockOrder, TypeOK
<1>9. Stages' /\ BoundedPass'
  BY <1>1 DEF Stages, BoundedPass, TypeOK
<1>10. NoDrift'
  BY <1>1 DEF NoDrift
<1>11. SleepsExact'
  <2>1. /\ (until - 1) * LogicHz <= (forLogic - 1) * LogicHz
        /\ (until - 1) * fps <= (forRender - 1) * fps
    BY <1>2, <1>3, <1>5, Monotone DEF TypeOK
  <2>2. /\ (until - 1) * LogicHz \in Int /\ (forLogic - 1) * LogicHz \in Int
        /\ (until - 1) * fps \in Int /\ (forRender - 1) * fps \in Int
    BY <1>2, <1>3, <1>5 DEF TypeOK
  <2>3. ~ \/ logic + (until - 1) * LogicHz >= CreditOne
          \/ render + (until - 1) * fps >= CreditOne
    BY <1>2, <1>3, <2>1, <2>2 DEF TypeOK
  <2>4. \/ logic + until * LogicHz >= CreditOne
        \/ render + until * fps >= CreditOne
    BY <1>2, <1>3, <1>5
  <2> QED
    BY <1>1, <1>6, <2>3, <2>4 DEF SleepsExact
<1> QED
  BY <1>7, <1>8, <1>9, <1>10, <1>11

\* Every reachable state satisfies the invariant.
THEOREM InductiveHolds == Spec => []Inductive
<1>1. Init => Inductive
  BY InitInductive
<1>2. Inductive /\ [Next]_vars => Inductive'
  <2> SUFFICES ASSUME Inductive, [Next]_vars PROVE Inductive'
    OBVIOUS
  <2>1. CASE UNCHANGED vars
    BY <2>1 DEF Inductive, vars, time, credit, work, ledger, TypeOK,
       ClockOrder, Stages, BoundedPass, NoDrift, SleepsExact
  <2> QED
    BY <2>1, EarnInductive, IdleInductive, UpdateInductive, RenderInductive,
       SleepInductive DEF Next
<1> QED
  BY <1>1, <1>2, PTL DEF Spec

(* What a reader should know.                                              *)

\* The scheduler's state has its types at all times: credit is never negative
\* and never beyond 64 bits.
THEOREM TypeCorrect == Spec => []TypeOK
<1>1. Inductive => TypeOK
  BY DEF Inductive
<1> QED
  BY <1>1, InductiveHolds, PTL

\* However long the stall, a pass runs at most MAX_LOGIC_UPDATES updates and one
\* frame, and leaves less than one credit of each behind.
THEOREM PassesBounded == Spec => []BoundedPass
<1>1. Inductive => BoundedPass
  BY DEF Inductive
<1> QED
  BY <1>1, InductiveHolds, PTL

\* Updates, discarded updates and phase add up to the time that has passed.
THEOREM LogicKeepsTime == Spec => []NoDrift
<1>1. Inductive => NoDrift
  BY DEF Inductive
<1> QED
  BY <1>1, InductiveHolds, PTL

\* A sleep ends exactly when the first update or frame is due.
THEOREM SleepsEndInTime == Spec => []SleepsExact
<1>1. Inductive => SleepsExact
  BY DEF Inductive
<1> QED
  BY <1>1, InductiveHolds, PTL

\* However time is cut into passes, stalls and sleeps, the schedule is exact.
THEOREM ScheduleIsExact == Spec => []KeepsTime
<1>1. BoundedPass /\ NoDrift /\ SleepsExact => KeepsTime
  BY DEF KeepsTime
<1> QED
  BY <1>1, PassesBounded, LogicKeepsTime, SleepsEndInTime, PTL

\* A pass owes what the elapsed time has earned, up to its limits, saturated or
\* not.
THEOREM PassOwes == Spec => OwedByTime
<1>1. Inductive /\ [Next]_vars =>
        [Earn => LET elapsed == clock' - previous
                 IN  /\ logic' \div CreditOne = Least(MaxLogic,
                          (logic + elapsed * LogicHz) \div CreditOne)
                     /\ render' \div CreditOne = Least(1,
                          (render + elapsed * fps') \div CreditOne)]_vars
  <2> SUFFICES ASSUME Inductive, Earn
      PROVE  /\ logic' \div CreditOne = Least(MaxLogic,
                  (logic + (clock' - previous) * LogicHz) \div CreditOne)
             /\ render' \div CreditOne = Least(1,
                  (render + (clock' - previous) * fps') \div CreditOne)
    OBVIOUS
  <2>1. clock' - previous \in Nat /\ fps' \in Nat
    BY DEF Earn, Pass, Inductive, TypeOK, ClockOrder
  <2>2. logic \in 0 .. CreditMax /\ render \in 0 .. CreditMax
    BY DEF Inductive, TypeOK
  <2>3. MaxLogic * CreditOne <= CreditMax /\ 1 * CreditOne <= CreditMax
    BY OneFits
  <2>4. /\ logic' = Clamped(Saturated(logic, clock' - previous, LogicHz), MaxLogic)
        /\ render' = Clamped(Saturated(render, clock' - previous, fps'), 1)
    BY DEF Earn
  <2>5. logic' \div CreditOne = Least(MaxLogic,
          (logic + (clock' - previous) * LogicHz) \div CreditOne)
    BY <2>1, <2>2, <2>3, <2>4, SaturationHidden
  <2>6. render' \div CreditOne = Least(1,
          (render + (clock' - previous) * fps') \div CreditOne)
    BY <2>1, <2>2, <2>3, <2>4, SaturationHidden
  <2> QED
    BY <2>5, <2>6
<1> QED
  BY <1>1, InductiveHolds, PTL DEF Spec, OwedByTime
=============================================================================
