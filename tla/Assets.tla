------------------------------- MODULE Assets -------------------------------
(***************************************************************************)
(* The asset store (raylib_lite_assets.c) over its three layers: a         *)
(* memory-mapped partition (raylib_lite_assets_mmap.c), a backing that is  *)
(* either a resident image or a bounded reader, and buffers registered for *)
(* ever.  An asset of a reader is copied to the heap when it is first      *)
(* opened and shared by all its leases; the last release frees it.  Every  *)
(* malloc and every read may fail.  The game keeps the documented rule: it *)
(* releases its views, and closes its streams, before it unmounts.         *)
(***************************************************************************)
EXTENDS Integers, Sequences, FiniteSets, FiniteSetsExt, SequencesExt, Functions

CONSTANTS
  Names,     \* asset names
  Packs,     \* what may be mounted: [files, defect], defect "none" or a reason to refuse
  Addr,      \* heap addresses
  Views,     \* the game's views
  Size,      \* Names -> length in bytes
  Id(_),     \* raylib_lite_asset_id of a name; two names may share one
  MaxFiles,  \* max_files of the mount, at most EMBEDDED_ASSET_CAPACITY
  Capacity,  \* EMBEDDED_ASSET_CAPACITY, of the registered buffers
  None

VARIABLES
  mmap,       \* files of the mapped partition, none when s_store is NULL
  backing,    \* s_backing: [form, entries]
  toc,        \* toc_copy: an address or None
  heap,       \* Addr -> what was last written there, None when free
  bytes,      \* materialized_bytes
  peak,       \* materialized_peak
  registered, \* names of s_embedded
  view,       \* Views -> None or what the game holds
  stream      \* None or [of, entry, skip, pos, got]

vars == <<mmap, backing, toc, heap, bytes, peak, registered, view, stream>>

Unmounted == [form |-> "none", entries |-> <<>>]
FreeAddr == {a \in Addr : heap[a] = None}
Mounted == mmap # <<>> \/ backing.form # "none"

TypeOK ==
  /\ mmap \in {p.files : p \in Packs} \cup {<<>>}
  /\ backing.form \in {"none", "image", "reader"}
  /\ \A i \in DOMAIN backing.entries :
        backing.entries[i] \in [name : Names, buf : Addr \cup {None}, refs : 0..Cardinality(Views)]
  /\ toc \in Addr \cup {None}
  /\ heap \in [Addr -> Names \cup {"toc", None}]
  /\ registered \subseteq Names
  /\ \A v \in Views : view[v] # None =>
        view[v] \in [name : Names, at : Addr \cup {"mmap", "image", "registered"}]

Init ==
  /\ mmap = <<>>
  /\ backing = Unmounted
  /\ toc = None
  /\ heap = [a \in Addr |-> None]
  /\ bytes = 0
  /\ peak = 0
  /\ registered = {}
  /\ view = [v \in Views |-> None]
  /\ stream = None

----------------------------------------------------------------------------
(* The pack passes every check of mount_backing.  One without files is     *)
(* accepted and leaves nothing mounted.                                    *)
Fits(p) == p.defect = "none" /\ Len(p.files) \in 1..MaxFiles

(* raylib_lite_asset_mmap_mount: the driver opens the partition or not. *)
MountMmap(p) ==
  /\ ~Mounted
  /\ Fits(p)
  /\ mmap' = p.files
  /\ UNCHANGED <<backing, toc, heap, bytes, peak, registered, view, stream>>

Entries(files) == [i \in DOMAIN files |-> [name |-> files[i], buf |-> None, refs |-> 0]]

MountImage(p) ==
  /\ ~Mounted
  /\ Fits(p)
  /\ backing' = [form |-> "image", entries |-> Entries(p.files)]
  /\ UNCHANGED <<mmap, toc, heap, bytes, peak, registered, view, stream>>

(* A reader's table of contents is copied first, and freed again when the  *)
(* read or an entry is bad.                                                *)
ReadsToc(p) == p.defect \in {"none", "entry"} /\ Len(p.files) \in 1..MaxFiles

\* Slip: what was allocated for a read that failed is not freed.
Leaked(a) == [heap EXCEPT ![a] = "toc"]
\* What a failed read leaves: its buffer is freed again.
Abandoned(a) == [heap EXCEPT ![a] = None]

MountReader(p) ==
  /\ ~Mounted
  /\ ReadsToc(p)
  /\ \E a \in FreeAddr :
       \/ /\ p.defect = "none"
          /\ toc' = a
          /\ heap' = [heap EXCEPT ![a] = "toc"]
          /\ backing' = [form |-> "reader", entries |-> Entries(p.files)]
       \/ /\ heap' = Abandoned(a)
          /\ UNCHANGED <<backing, toc>>
  /\ UNCHANGED <<mmap, bytes, peak, registered, view, stream>>

Unmount ==
  /\ \A v \in Views : view[v] # None => view[v].at = "registered"
  /\ stream = None
  /\ mmap' = <<>>
  /\ backing' = Unmounted
  /\ toc' = None
  /\ heap' = [a \in Addr |->
                IF a = toc \/ \E i \in DOMAIN backing.entries : backing.entries[i].buf = a
                THEN None ELSE heap[a]]
  /\ bytes' = 0
  /\ UNCHANGED <<peak, registered, view, stream>>

RegisterMemory(n) ==
  /\ \A m \in registered : Id(m) # Id(n)
  /\ Cardinality(registered) < Capacity
  /\ registered' = registered \cup {n}
  /\ UNCHANGED <<mmap, backing, toc, heap, bytes, peak, view, stream>>

----------------------------------------------------------------------------
(* Where a key is found: the mapping first (which passes over files of no  *)
(* length), then the first entry of the backing, then the registered ones. *)
(* A key is the set of the names it stands for.                            *)
Named(n) == {n}
Hashed(n) == {m \in Names : Id(m) = Id(n)}

FileOf(key) == SelectInSeq(mmap, LAMBDA m : m \in key)
InMmap(key) == FileOf(key) # 0 /\ Size[mmap[FileOf(key)]] > 0
EntryOf(key) == SelectInSeq(backing.entries, LAMBDA e : e.name \in key)

\* The backing with a copy of entry i at a, leased that often.
Lent(i, a, leases) ==
  [backing EXCEPT !.entries[i] = [name |-> backing.entries[i].name, buf |-> a, refs |-> leases]]

(* backing_open_entry of a reader: copies the asset, or shares the copy. *)
OpenEntry(v, i) ==
  LET e == backing.entries[i] IN
  \/ /\ e.buf = None
     /\ \E a \in FreeAddr :
          \/ /\ heap' = [heap EXCEPT ![a] = e.name]
             /\ backing' = Lent(i, a, e.refs + 1)
             /\ view' = [view EXCEPT ![v] = [name |-> e.name, at |-> a]]
             /\ bytes' = bytes + Size[e.name]
             /\ peak' = Max({peak, bytes'})
          \/ /\ heap' = Abandoned(a)
             /\ UNCHANGED <<backing, view, bytes, peak>>
  \/ /\ e.buf # None
     /\ backing' = Lent(i, e.buf, e.refs + 1)
     /\ view' = [view EXCEPT ![v] = [name |-> e.name, at |-> e.buf]]
     /\ UNCHANGED <<heap, bytes, peak>>

(* raylib_lite_asset_open and _open_id *)
Open(v, key) ==
  /\ view[v] = None
  /\ \/ /\ InMmap(key)
        /\ view' = [view EXCEPT ![v] = [name |-> mmap[FileOf(key)], at |-> "mmap"]]
        /\ UNCHANGED <<backing, heap, bytes, peak>>
     \/ /\ ~InMmap(key)
        /\ EntryOf(key) # 0
        /\ backing.form = "image"
        /\ view' = [view EXCEPT ![v] = [name |-> backing.entries[EntryOf(key)].name,
                                        at |-> "image"]]
        /\ UNCHANGED <<backing, heap, bytes, peak>>
     \/ /\ ~InMmap(key)
        /\ EntryOf(key) # 0
        /\ backing.form = "reader"
        /\ OpenEntry(v, EntryOf(key))
     \/ /\ ~InMmap(key)
        /\ EntryOf(key) = 0
        /\ \E n \in registered \cap key :
             view' = [view EXCEPT ![v] = [name |-> n, at |-> "registered"]]
        /\ UNCHANGED <<backing, heap, bytes, peak>>
  /\ UNCHANGED <<mmap, toc, registered, stream>>

(* raylib_lite_asset_release: the entry is found by the view's address. *)
Release(v) ==
  /\ view[v] # None
  /\ view' = [view EXCEPT ![v] = None]
  /\ LET Leased(e) == e.buf = view[v].at
         i == SelectInSeq(backing.entries, Leased) IN
     IF i = 0 \/ backing.entries[i].refs = 0
       THEN UNCHANGED <<backing, heap, bytes>>
       ELSE LET e == backing.entries[i] IN
            IF e.refs > 1
              THEN /\ backing' = Lent(i, e.buf, e.refs - 1)
                   /\ UNCHANGED <<heap, bytes>>
              ELSE /\ backing' = Lent(i, None, 0)
                   /\ heap' = [heap EXCEPT ![e.buf] = None]
                   /\ bytes' = bytes - Size[e.name]
  /\ UNCHANGED <<mmap, toc, peak, registered, stream>>

----------------------------------------------------------------------------
(* A stream takes no lease: it reads an entry of a reader through the      *)
(* mount, anything else through its address.                               *)
StreamOpen(n, skip) ==
  /\ stream = None
  /\ InMmap(Named(n)) \/ EntryOf(Named(n)) # 0 \/ n \in registered
  /\ skip <= Size[n]
  /\ stream' = [of |-> n, skip |-> skip, pos |-> skip, got |-> 0,
                entry |-> IF ~InMmap(Named(n)) /\ backing.form = "reader"
                          THEN EntryOf(Named(n)) ELSE 0]
  /\ UNCHANGED <<mmap, backing, toc, heap, bytes, peak, registered, view>>

(* raylib_lite_asset_stream_read of len bytes; got counts what the caller  *)
(* received over all reads.                                                *)
StreamRead(len) ==
  /\ stream # None
  /\ LET take == Min({len, Size[stream.of] - stream.pos}) IN
     stream' \in {[stream EXCEPT !.pos = @ + take, !.got = @ + take]}
                 \cup (IF stream.entry # 0 THEN {stream} ELSE {})
  /\ UNCHANGED <<mmap, backing, toc, heap, bytes, peak, registered, view>>

StreamClose ==
  /\ stream # None
  /\ stream' = None
  /\ UNCHANGED <<mmap, backing, toc, heap, bytes, peak, registered, view>>

Next ==
  \/ \E p \in Packs : MountMmap(p) \/ MountImage(p) \/ MountReader(p)
  \/ Unmount
  \/ \E n \in Names : RegisterMemory(n)
  \/ \E v \in Views, n \in Names : Open(v, Named(n)) \/ Open(v, Hashed(n))
  \/ \E v \in Views : Release(v)
  \/ \E n \in Names, skip \in 0..1 : StreamOpen(n, skip)
  \/ \E len \in 1..2 : StreamRead(len)
  \/ StreamClose

Spec == Init /\ [][Next]_vars

----------------------------------------------------------------------------
Holders(a) == {v \in Views : view[v] # None /\ view[v].at = a}

(* Every copy on the heap is leased exactly as often as the game holds a   *)
(* view of it, holds the asset those views are about, and is the copy of   *)
(* one entry: so no release frees memory that is still in use, whatever    *)
(* the order of opens by name and by hash, failures and releases.          *)
LeasesMatchViews ==
  /\ \A i \in DOMAIN backing.entries :
       LET e == backing.entries[i] IN
       /\ e.refs = IF e.buf = None THEN 0 ELSE Cardinality(Holders(e.buf))
       /\ e.buf # None => e.refs > 0 /\ heap[e.buf] = e.name
  /\ \A v \in Views : view[v] # None /\ view[v].at \in Addr => heap[view[v].at] = view[v].name

\* The entries that have a copy on the heap, and the bytes of the copies.
Materialized == {i \in DOMAIN backing.entries : backing.entries[i].buf # None}
CopiedBytes == UNION {{i} \X (1..Size[backing.entries[i].name]) : i \in Materialized}

(* The heap holds the table of contents of a mounted reader and the leased *)
(* copies and nothing else, and materialized_bytes is their size: a mount  *)
(* that fails, and a whole round of opens and releases, leave nothing.     *)
HeapAccounted ==
  /\ {a \in Addr : heap[a] # None} =
       {a \in Addr : a = toc \/ \E i \in DOMAIN backing.entries : backing.entries[i].buf = a}
  /\ bytes = Cardinality(CopiedBytes)
  /\ bytes <= peak

(* Whatever reads fail, the bytes a stream has delivered are those from    *)
(* its start to its position, so the caller can retry a failed chunk.      *)
StreamsLoseNothing ==
  stream # None => stream.pos = stream.skip + stream.got /\ stream.pos <= Size[stream.of]
=============================================================================
