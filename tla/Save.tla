-------------------------------- MODULE Save --------------------------------
(***************************************************************************)
(* A versioned record in non-volatile storage (raylib_lite_save.c over     *)
(* raylib_lite_save_nvs.c).  A request replaces the pending copy and starts *)
(* the debounce anew; a flush writes the pending copy once it is due, or at *)
(* once when forced, and keeps it when the write fails.                    *)
(*                                                                         *)
(* An operator here is one call: the module of the game that owns the slot *)
(* puts them into its actions.                                             *)
(***************************************************************************)
EXTENDS Integers

CONSTANTS
  Payload,  \* what a game stores
  Zero,     \* the payload of zeros
  Version,  \* version of the game's format
  Faults    \* may calls into the storage fail?

VARIABLES
  slot,     \* raylib_lite_save_t: [ready, dirty, pending]
  flash     \* [seen, kept]: the blob that is read now, and the last one committed

Missing == [kind |-> "missing"]
Corrupt == [kind |-> "corrupt"]
Blob(version, data) == [kind |-> "blob", version |-> version, data |-> data]

Stored == {Missing, Corrupt} \cup {Blob(v, d) : v \in 1..Version, d \in Payload}

SaveTypeOK ==
  /\ slot \in [ready : BOOLEAN, dirty : BOOLEAN, pending : Payload]
  /\ flash \in [seen : Stored, kept : Stored]

Fresh == [ready |-> FALSE, dirty |-> FALSE, pending |-> Zero]

(* raylib_lite_save_init: memset, so a request that is pending is lost. *)
Initialised == [ready |-> TRUE, dirty |-> FALSE, pending |-> Zero]

(* nvs_read: what is there, or any error of nvs_open or nvs_get_blob. *)
Reads == {flash.seen} \cup (IF Faults THEN {[kind |-> "error"]} ELSE {})

(* raylib_lite_save_load with NULL defaults: the answer and the payload,   *)
(* migrated by the game when an older version is stored.                   *)
Loaded(blob, migrated) ==
  CASE blob.kind = "missing" -> [ok |-> TRUE, data |-> Zero]
    [] blob.kind \in {"error", "corrupt"} -> [ok |-> FALSE, data |-> Zero]
    [] blob.kind = "blob" ->
         [ok |-> TRUE, data |-> IF blob.version = Version THEN blob.data ELSE migrated]

(* raylib_lite_save_request *)
Requested(s, payload) == [ready |-> s.ready, dirty |-> TRUE, pending |-> payload]

(* nvs_write: open, set and commit.  A set that is not committed is read   *)
(* until a restart and may not survive it.                                 *)
Writes(blob) ==
  {[ok |-> TRUE, flash |-> [seen |-> blob, kept |-> blob]]} \cup
  (IF Faults THEN {[ok |-> FALSE, flash |-> flash],
                   [ok |-> FALSE, flash |-> [flash EXCEPT !.seen = blob]]}
             ELSE {})

CleanIf(s, ok) == [s EXCEPT !.dirty = ~ok]

(* raylib_lite_save_flush: due when forced or when the debounce has passed. *)
Flushed(s, due) ==
  IF s.dirty /\ due
    THEN {[slot |-> CleanIf(s, w.ok), flash |-> w.flash] : w \in Writes(Blob(Version, s.pending))}
    ELSE {[slot |-> s, flash |-> flash]}
=============================================================================
