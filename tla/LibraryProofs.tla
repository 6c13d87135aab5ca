---------------------------- MODULE LibraryProofs ----------------------------
(***************************************************************************)
(* Theorems about the parts of the platform in Library, each in a section  *)
(* of its own: what its specification promises for all values of its       *)
(* constants.  What a theorem asks of the constants is its hypothesis.     *)
(* The last section states the invariants of Library.                      *)
(***************************************************************************)
EXTENDS Library, Integers, Sequences, FiniteSets, FiniteSetTheorems, WellFoundedInduction, TLAPS

\* What a longer or a shorter sequence has at which place.
LEMMA Appended ==
  ASSUME NEW S, NEW s \in Seq(S), NEW e \in S
  PROVE  /\ Append(s, e) \in Seq(S) /\ Append(s, e) # <<>>
         /\ Len(Append(s, e)) = Len(s) + 1 /\ Len(s) \in Nat
         /\ \A i \in 1 .. Len(s) : Append(s, e)[i] = s[i]
         /\ Append(s, e)[Len(s) + 1] = e
OBVIOUS

LEMMA Shortened ==
  ASSUME NEW S, NEW s \in Seq(S), s # <<>>
  PROVE  /\ Tail(s) \in Seq(S) /\ Len(s) \in Nat \ {0} /\ Len(Tail(s)) = Len(s) - 1
         /\ Head(s) = s[1] /\ \A i \in 1 .. Len(s) : s[i] \in S
         /\ \A i \in 1 .. Len(Tail(s)) : Tail(s)[i] = s[i + 1]
OBVIOUS

(***************************************************************************)
(* The video backend of the ESP32-S3-BOX-3                                 *)
(***************************************************************************)

Height == 0 .. PanelRows - 1

\* present holds the frame, between its begin and its answer.
Presenting == panelPc \in {"begin", "strip", "commit", "quiesce"}

Covers(strip, y) == strip[1] <= y /\ y < strip[1] + strip[2]

Strips == Int \X Int \X Int
WireType == wire \in Seq(Strips)

\* Who has the newest frame: the game, present, a failure or nobody.
Lent ==
  /\ acquired => ~panelFailed /\ panelPc = "idle"
  /\ Presenting => ~panelFailed
  /\ acquired \/ Presenting \/ panelPc = "close" => open
  /\ acquired \/ Presenting \/ panelFailed => issued > accepted
  /\ issued >= accepted

\* The wire carries the newest frame, and between two calls nothing unless
\* one has failed.
Wired ==
  /\ \A i \in 1 .. Len(wire) : wire[i][3] = issued
  /\ landed => wire # <<>> /\ \A y \in Height : Covers(wire[1], y) => panel[y] = issued
  /\ ~panelFailed /\ panelPc \in {"idle", "close", "begin"} => wire = <<>>
  /\ ~open => wire = <<>>

\* The panel shows two frames at most, the newest of them on every row that
\* was submitted and is not on the wire any more.
Painted ==
  /\ \A y \in Height : panel[y] \in {accepted, issued}
  /\ ~panelFailed /\ panelPc \in {"idle", "close", "begin"} => \A y \in Height : panel[y] = accepted
  /\ panelPc \in {"strip", "commit", "quiesce"} =>
            \A y \in 0 .. row - 1 : panel[y] = issued \/ \E i \in 1 .. Len(wire) : Covers(wire[i], y)
  /\ panelPc \in {"commit", "quiesce"} => row = PanelRows

PanelInductive == Panel!TypeOK /\ WireType /\ Lent /\ Wired /\ Painted

LEMMA PanelInit ==
  ASSUME PanelConstants, Panel!Init
  PROVE  PanelInductive
<1> USE DEF PanelConstants, Panel!Init
<1>1. Panel!TypeOK
  <2>1. Len(wire) <= Buffers
    OBVIOUS
  <2>2. 0 \in 0 .. MaxFrames /\ 0 \in 0 .. PanelRows
    OBVIOUS
  <2>3. panel \in [0 .. PanelRows - 1 -> 0 .. MaxFrames]
    BY <2>2
  <2> QED
    BY <2>1, <2>2, <2>3, Zenon DEF Panel!TypeOK
<1>2. WireType
  BY DEF WireType
<1>3. Lent
  BY DEF Lent, Presenting
<1>4. Wired
  BY DEF Wired
<1>5. Painted
  BY DEF Painted, Height
<1> QED
  BY <1>1, <1>2, <1>3, <1>4, <1>5 DEF PanelInductive

LEMMA CallKeepsPanel ==
  ASSUME PanelConstants, PanelInductive,
         Panel!Acquire \/ Panel!Present \/ Panel!PresentFails \/ Panel!BeginFrame \/ Panel!CommitFrame
         \/ Panel!Quiesced \/ Panel!Discard \/ Panel!Flush \/ Panel!CloseBegins \/ Panel!Close
  PROVE  PanelInductive'
<1> USE DEF PanelConstants, PanelInductive, Panel!TypeOK, WireType, Lent, Wired, Painted, Presenting, Height, Panel!Idle
<1>1. CASE Panel!Acquire
  <2>1. CASE UNCHANGED <<acquired, issued>>
    BY <1>1, <2>1 DEF Panel!Acquire
  <2>2. CASE ~panelFailed /\ ~acquired /\ issued < MaxFrames /\ acquired' = TRUE
             /\ issued' = issued + 1 /\ answer' = "OK"
    <3>1. wire = <<>> /\ ~landed /\ open /\ panelPc = "idle"
      BY <1>1, <2>2 DEF Panel!Acquire
    <3> QED
      BY <1>1, <2>2, <3>1 DEF Panel!Acquire
  <2> QED
    BY <1>1, <2>1, <2>2 DEF Panel!Acquire, Panel!Lends
<1>2. CASE Panel!Present
  BY <1>2 DEF Panel!Present
<1>3. CASE Panel!PresentFails
  BY <1>3 DEF Panel!PresentFails, Panel!EspErrors, Panel!Result
<1>4. CASE Panel!BeginFrame
  BY <1>4 DEF Panel!BeginFrame
<1>5. CASE Panel!CommitFrame
  BY <1>5 DEF Panel!CommitFrame
<1>6. CASE Panel!Quiesced
  BY <1>6 DEF Panel!Quiesced, Panel!PanelDone
<1>7. CASE Panel!Discard
  BY <1>7 DEF Panel!Discard
<1>8. CASE Panel!Flush
  BY <1>8 DEF Panel!Flush, Panel!EspErrors, Panel!Result
<1>9. CASE Panel!CloseBegins
  BY <1>9 DEF Panel!CloseBegins
<1>10. CASE Panel!Close
  BY <1>10 DEF Panel!Close, Panel!EspErrors, Panel!Result
<1> QED
  BY <1>1, <1>2, <1>3, <1>4, <1>5, <1>6, <1>7, <1>8, <1>9, <1>10

LEMMA StripKeepsPanel ==
  ASSUME PanelConstants, PanelInductive, Panel!Strip
  PROVE  PanelInductive'
<1> USE DEF PanelConstants, PanelInductive, Panel!TypeOK, WireType, Lent, Wired, Painted, Presenting, Height
<1>1. PICK rows \in 1 .. PanelRows - row :
        wire' = Append(wire, <<row, rows, issued>>) /\ row' = row + rows
  BY DEF Panel!Strip
<1>2. /\ Len(wire') = Len(wire) + 1 /\ Len(wire) \in Nat
      /\ \A i \in 1 .. Len(wire) : wire'[i] = wire[i]
      /\ wire'[Len(wire) + 1] = <<row, rows, issued>>
      /\ WireType'
      /\ wire' # <<>>
  <2> DEFINE strip == <<row, rows, issued>>
  <2>1. strip \in Strips
    <3>1. row \in 0 .. PanelRows /\ rows \in 1 .. PanelRows - row /\ issued \in Nat /\ PanelRows \in Nat
      BY <1>1
    <3> QED
      BY ONLY <3>1 DEF Strips
  <2>2. wire \in Seq(Strips) /\ wire' = Append(wire, strip)
    BY <1>1
  <2> HIDE DEF strip
  <2>3. /\ wire' \in Seq(Strips) /\ wire' # <<>>
        /\ Len(wire') = Len(wire) + 1 /\ Len(wire) \in Nat
        /\ \A i \in 1 .. Len(wire) : wire'[i] = wire[i]
        /\ wire'[Len(wire) + 1] = strip
    BY ONLY <2>1, <2>2, Appended
  <2> QED
    BY ONLY <2>3 DEF WireType, strip
<1>3. UNCHANGED <<size, open, acquired, panelFailed, panelPc, landed, panel, issued, accepted, answer>> /\ panelPc = "strip"
      /\ Len(wire) < Buffers
  BY DEF Panel!Strip
<1>4. Panel!TypeOK' /\ Lent'
  BY <1>1, <1>2, <1>3
<1>5. Wired'
  <2>1. landed => wire'[1] = wire[1]
    BY <1>2
  <2>2. ASSUME NEW i \in 1 .. Len(wire') PROVE wire'[i][3] = issued
    <3>1. i \in 1 .. Len(wire) \/ i = Len(wire) + 1
      BY <1>2
    <3>2. CASE i \in 1 .. Len(wire)
      <4>1. wire[i][3] = issued /\ issued' = issued
        BY <1>3, <3>2
      <4> QED
        BY ONLY <1>2, <3>2, <4>1
    <3>3. CASE i = Len(wire) + 1
      BY ONLY <1>2, <3>3
    <3> QED BY <3>1, <3>2, <3>3
  <2>3. open /\ issued' = issued
    BY <1>3
  <2>4. landed' => wire' # <<>> /\ \A y \in Height : Covers(wire'[1], y) => panel'[y] = issued'
    BY <1>2, <1>3, <2>1
  <2> QED BY <1>2, <1>3, <2>2, <2>3, <2>4
<1>6. Painted'
  <2>1. ASSUME NEW y \in 0 .. row' - 1
        PROVE panel'[y] = issued' \/ \E i \in 1 .. Len(wire') : Covers(wire'[i], y)
    <3>1. CASE y < row
      <4>1. panel[y] = issued \/ \E i \in 1 .. Len(wire) : Covers(wire[i], y)
        BY <1>3, <3>1
      <4>2. \A i \in 1 .. Len(wire) : i \in 1 .. Len(wire') /\ wire'[i] = wire[i]
        BY ONLY <1>2
      <4>3. panel' = panel /\ issued' = issued
        BY <1>3
      <4> QED
        BY ONLY <4>1, <4>2, <4>3
    <3>2. CASE y >= row
      <4>1. row' = row + rows /\ row \in Nat /\ rows \in Nat /\ y \in Int /\ y < row'
        BY <1>1
      <4>2. Len(wire) + 1 \in 1 .. Len(wire') /\ wire'[Len(wire) + 1] = <<row, rows, issued>>
        BY ONLY <1>2
      <4>3. Covers(<<row, rows, issued>>, y)
        BY ONLY <3>2, <4>1 DEF Covers
      <4> QED
        BY ONLY <4>2, <4>3
    <3>3. row \in Nat /\ y \in Int
      BY <1>1
    <3> QED BY ONLY <3>1, <3>2, <3>3
  <2> QED BY <1>3, <2>1
<1> QED BY <1>2, <1>4, <1>5, <1>6

LEMMA FirstOfMany ==
  ASSUME NEW S, NEW s \in Seq(S), s # <<>>
  PROVE  Head(s) = s[1] /\ Len(s) \in Nat \ {0} /\ s[1] \in S
OBVIOUS

LEMMA LandKeepsPanel ==
  ASSUME PanelConstants, PanelInductive, Panel!Land
  PROVE  PanelInductive'
<1> USE DEF PanelConstants, PanelInductive, Panel!TypeOK, WireType, Lent, Wired, Painted, Presenting, Height
<1>1. wire # <<>> /\ Head(wire) = wire[1] /\ wire[1][3] = issued
      /\ Len(wire) \in Nat \ {0} /\ wire[1][1] \in Int /\ wire[1][2] \in Int
  <2>1. wire # <<>>
    BY DEF Panel!Land
  <2>2. Head(wire) = wire[1] /\ Len(wire) \in Nat \ {0} /\ wire[1] \in Strips
    <3>1. wire \in Seq(Strips)
      OBVIOUS
    <3> QED
      BY ONLY <2>1, <3>1, FirstOfMany
  <2>3. wire[1][3] = issued
    BY <2>2
  <2>4. wire[1][1] \in Int /\ wire[1][2] \in Int
    BY ONLY <2>2 DEF Strips
  <2> QED BY ONLY <2>1, <2>2, <2>3, <2>4
<1>2. landed' = TRUE /\ UNCHANGED <<size, open, acquired, panelFailed, panelPc, row, wire, issued, accepted, answer>>
  BY DEF Panel!Land
<1>3. panel' = [y \in Height |-> IF Covers(wire[1], y) THEN issued ELSE panel[y]]
  <2>1. \A y \in Height : y \in wire[1][1] .. wire[1][1] + wire[1][2] - 1 <=> Covers(wire[1], y)
    BY ONLY <1>1, PanelConstants DEF Covers, Height, PanelConstants
  <2>2. panel' = [y \in Height |->
                    IF y \in wire[1][1] .. wire[1][1] + wire[1][2] - 1 THEN issued ELSE panel[y]]
    BY <1>1 DEF Panel!Land
  <2> HIDE DEF Height
  <2> QED BY <2>1, <2>2
<1> HIDE DEF Height
<1>4. \A y \in Height : panel'[y] = IF Covers(wire[1], y) THEN issued ELSE panel[y]
  BY <1>3
<1>5. Panel!TypeOK'
  BY <1>2, <1>3 DEF Height
<1>6. WireType' /\ Lent'
  BY <1>2
<1>7. Wired'
  BY <1>1, <1>2, <1>4
<1>8. Painted'
  <2>1. \A y \in Height : panel'[y] \in {accepted', issued'}
    BY <1>2, <1>4
  <2>2. ~(~panelFailed /\ panelPc \in {"idle", "close", "begin"})
    BY <1>1
  <2>3. ASSUME panelPc \in {"strip", "commit", "quiesce"}, NEW y \in 0 .. row - 1
        PROVE  panel'[y] = issued' \/ \E i \in 1 .. Len(wire') : Covers(wire'[i], y)
    <3>1. y \in Height
      BY DEF Height
    <3> QED BY <1>2, <1>4, <2>3, <3>1
  <2> QED BY <1>2, <2>1, <2>2, <2>3
<1> QED BY <1>5, <1>6, <1>7, <1>8

LEMMA TransferKeepsPanel ==
  ASSUME PanelConstants, PanelInductive, Panel!TransferDone
  PROVE  PanelInductive'
<1> USE DEF PanelConstants, PanelInductive, Panel!TypeOK, WireType, Lent, Wired, Painted, Presenting, Height
<1>1. landed /\ landed' = FALSE /\ wire' = Tail(wire) /\ wire # <<>>
      /\ UNCHANGED <<size, open, acquired, panelFailed, panelPc, row, panel, issued, accepted, answer>>
  BY DEF Panel!TransferDone
<1>2. Len(wire') = Len(wire) - 1 /\ WireType' /\ Len(wire) \in Nat \ {0}
      /\ \A i \in 1 .. Len(wire') : wire'[i] = wire[i + 1]
  BY ONLY <1>1, WireType, Shortened DEF WireType
<1>3. Lent'
  BY <1>1
<1>6. Panel!TypeOK'
  <2>1. Len(wire') <= Buffers
    BY ONLY <1>2, PanelConstants, Panel!TypeOK DEF PanelConstants, Panel!TypeOK
  <2> QED
    BY ONLY <1>1, <2>1, Panel!TypeOK DEF Panel!TypeOK
<1>4. Wired'
  <2>1. ASSUME NEW i \in 1 .. Len(wire') PROVE wire'[i][3] = issued
    <3>1. i + 1 \in 1 .. Len(wire)
      BY <1>2
    <3> QED BY <1>2, <3>1
  <2>2. ~(~panelFailed /\ panelPc \in {"idle", "close", "begin"}) /\ open
    BY <1>1
  <2> QED BY <1>1, <2>1, <2>2
<1>5. Painted'
  <2>1. ASSUME panelPc \in {"strip", "commit", "quiesce"}, NEW y \in 0 .. row - 1
        PROVE  panel'[y] = issued' \/ \E i \in 1 .. Len(wire') : Covers(wire'[i], y)
    <3>1. CASE panel[y] = issued
      BY <1>1, <3>1
    <3>2. ASSUME NEW i \in 1 .. Len(wire), Covers(wire[i], y)
          PROVE  panel[y] = issued \/ \E j \in 1 .. Len(wire') : Covers(wire'[j], y)
      <4>1. CASE i = 1
        BY <1>1, <3>2, <4>1
      <4>2. CASE i # 1
        <5>1. i - 1 \in 1 .. Len(wire') /\ wire'[i - 1] = wire[i]
          BY <1>2, <4>2
        <5> QED BY <3>2, <5>1
      <4> QED BY <4>1, <4>2
    <3> QED BY <1>1, <2>1, <3>1, <3>2
  <2> QED BY <1>1, <2>1
<1> QED BY <1>2, <1>3, <1>4, <1>5, <1>6

LEMMA StepKeepsPanel ==
  ASSUME PanelConstants, PanelInductive, [Panel!Next]_Panel!vars
  PROVE  PanelInductive'
<1>1. CASE UNCHANGED Panel!vars
  BY <1>1 DEF Panel!vars, PanelInductive, Panel!TypeOK, WireType, Lent, Wired, Painted, Presenting
<1> QED
  BY <1>1, CallKeepsPanel, StripKeepsPanel, LandKeepsPanel, TransferKeepsPanel DEF Panel!Next

\* Between two calls the panel shows the newest accepted frame on every row,
\* unless a call has failed.
THEOREM PanelFaithful == PanelConstants => (Panel!Spec => [](Panel!TypeOK /\ Panel!PanelShowsAccepted))
<1> SUFFICES ASSUME PanelConstants PROVE Panel!Spec => [](Panel!TypeOK /\ Panel!PanelShowsAccepted)
  OBVIOUS
<1>1. Panel!Init => PanelInductive
  BY PanelInit
<1>2. PanelInductive /\ [Panel!Next]_Panel!vars => PanelInductive'
  BY StepKeepsPanel
<1>3. PanelInductive => Panel!TypeOK /\ Panel!PanelShowsAccepted
  BY DEF PanelInductive, Painted, Height, Panel!TypeOK, Panel!PanelShowsAccepted
<1> QED
  BY <1>1, <1>2, <1>3, PTL DEF Panel!Spec


----------------------------------------------------------------------------
(* Each step is one of the video contract or none.                         *)

Leased == IF acquired THEN issued ELSE 0
Flight == IF Presenting \/ wire # <<>> THEN {issued} ELSE {}

\* What is visible is the newest accepted frame or, on every row, the newest.
LEMMA VisibleFrame ==
  PanelConstants /\ PanelInductive =>
    /\ Panel!Visible = IF \A y \in Height : panel[y] = issued THEN issued ELSE accepted
    /\ Panel!Visible \in {accepted, issued}
<1> SUFFICES ASSUME PanelConstants, PanelInductive
             PROVE  /\ Panel!Visible = IF \A y \in Height : panel[y] = issued THEN issued ELSE accepted
                    /\ Panel!Visible \in {accepted, issued}
  OBVIOUS
<1> USE DEF PanelConstants, PanelInductive, Painted, Panel!TypeOK
<1>1. DOMAIN panel = Height /\ 0 \in Height
  BY DEF Height
<1>2. CASE \A y \in Height : panel[y] = issued
  BY <1>1, <1>2 DEF Panel!Visible
<1>3. CASE ~\A y \in Height : panel[y] = issued
  <2>1. PICK y \in Height : panel[y] = accepted /\ panel[y] # issued
    BY <1>3
  <2>2. (\A z \in Height : panel[z] = panel[0]) => panel[0] = accepted
    BY <2>1
  <2> QED
    BY <1>1, <1>3, <2>2 DEF Panel!Visible
<1> QED
  BY <1>2, <1>3

LEMMA NextVisibleFrame ==
  PanelConstants /\ PanelInductive' =>
    /\ Panel!Visible' = IF \A y \in Height : panel'[y] = issued' THEN issued' ELSE accepted'
    /\ Panel!Visible' \in {accepted', issued'}
<1>1. (PanelConstants /\ PanelInductive =>
        /\ Panel!Visible = IF \A y \in Height : panel[y] = issued THEN issued ELSE accepted
        /\ Panel!Visible \in {accepted, issued})'
  BY VisibleFrame, PTL
<1> QED
  BY <1>1 DEF PanelConstants, Height

\* A step that leaves the panel and the accepted frame alone shows nothing new.
LEMMA SameVisible ==
  ASSUME UNCHANGED <<panel, accepted>>
  PROVE  Panel!Visible' = Panel!Visible
BY DEF Panel!Visible

LEMMA ContractStutter ==
  ASSUME UNCHANGED <<issued, Leased, Flight, Panel!Visible, open>>
  PROVE  UNCHANGED Panel!Contract!vars
BY DEF Leased, Flight, Presenting, Panel!Contract!vars

LEMMA LandShows ==
  ASSUME PanelConstants, PanelInductive, PanelInductive', Panel!Land
  PROVE  Panel!Contract!Next \/ UNCHANGED Panel!Contract!vars
<1>1. wire # <<>> /\ UNCHANGED <<acquired, panelPc, wire, open, issued, accepted>>
  BY DEF Panel!Land
<1>2. Flight = {issued} /\ UNCHANGED <<Leased, Flight>>
  BY <1>1 DEF Leased, Flight, Presenting
<1>3. issued > accepted /\ issued \in Nat /\ accepted \in Nat
  BY <1>1 DEF PanelInductive, Wired, Lent, Presenting, Panel!TypeOK, PanelConstants
<1>4. Panel!Visible \in {accepted, issued} /\ Panel!Visible' \in {accepted, issued}
  BY <1>1, VisibleFrame, NextVisibleFrame
<1>5. Panel!Visible = issued => Panel!Visible' = issued
  <2>1. ASSUME \A y \in Height : panel[y] = issued
        PROVE  \A y \in Height : panel'[y] = issued
    <3>1. wire[1][3] = issued /\ Head(wire) = wire[1]
      BY <1>1, Shortened DEF PanelInductive, Wired, WireType
    <3>2. ASSUME NEW y \in Height PROVE panel'[y] \in {panel[y], issued}
      BY <3>1 DEF Panel!Land, Height
    <3> QED BY <2>1, <3>2
  <2>2. Panel!Visible = issued => \A y \in Height : panel[y] = issued
    BY <1>3, VisibleFrame
  <2> QED
    BY <1>1, <2>1, <2>2, NextVisibleFrame
<1>6. CASE Panel!Visible' = Panel!Visible
  BY <1>1, <1>2, <1>6, ContractStutter
<1>7. CASE Panel!Visible' # Panel!Visible
  <2>1. Panel!Visible = accepted /\ Panel!Visible' = issued
    BY <1>4, <1>5, <1>7
  <2>2. Panel!Contract!Show(issued)
    BY <1>1, <1>2, <1>3, <2>1 DEF Panel!Contract!Show, Leased, Flight, Presenting
  <2> QED
    BY <1>2, <2>2 DEF Panel!Contract!Next, Flight, Presenting
<1> QED
  BY <1>6, <1>7

LEMMA CallKeepsContract ==
  ASSUME PanelConstants, PanelInductive, PanelInductive', Panel!Next, ~Panel!Land
  PROVE  Panel!Contract!Next \/ UNCHANGED Panel!Contract!vars
<1> USE DEF PanelInductive, PanelConstants, Lent, Wired, Leased, Flight, Presenting, Panel!TypeOK
<1>1. CASE Panel!Acquire
  <2>1. UNCHANGED Panel!Visible
    BY <1>1, SameVisible DEF Panel!Acquire
  <2>2. CASE UNCHANGED <<acquired, issued>>
    BY <1>1, <2>1, <2>2, ContractStutter DEF Panel!Acquire
  <2>3. CASE ~(UNCHANGED <<acquired, issued>>)
    <3>1. ~acquired /\ wire = <<>> /\ panelPc = "idle" /\ open /\ acquired' = TRUE /\ issued' = issued + 1
          /\ UNCHANGED <<wire, panelPc, open>>
      BY <1>1, <2>3 DEF Panel!Acquire, Panel!Lends, Panel!Idle
    <3> QED
      BY <2>1, <3>1 DEF Panel!Contract!Next, Panel!Contract!Lease
  <2> QED BY <2>2, <2>3
<1>2. CASE Panel!Present
  <2>1. UNCHANGED Panel!Visible
    BY <1>2, SameVisible DEF Panel!Present
  <2>2. CASE acquired
    <3>1. wire = <<>> /\ panelPc = "idle" /\ open /\ panelPc' = "begin" /\ acquired' = FALSE /\ issued # 0
          /\ UNCHANGED <<wire, issued, open>>
      BY <1>2, <2>2 DEF Panel!Present, Panel!Idle
    <3>2. Panel!Contract!Accept
      BY <2>1, <2>2, <3>1 DEF Panel!Contract!Accept
    <3> QED
      BY <3>2 DEF Panel!Contract!Next
  <2>3. CASE ~acquired
    BY <1>2, <2>1, <2>3, ContractStutter DEF Panel!Present
  <2> QED BY <2>2, <2>3
<1>3. CASE Panel!PresentFails \/ Panel!TransferDone
  <2>1. UNCHANGED <<Panel!Visible, issued, open, acquired>> /\ ~acquired
    BY <1>3, SameVisible DEF Panel!PresentFails, Panel!TransferDone
  <2>2. Flight = {issued}
    BY <1>3 DEF Panel!PresentFails, Panel!TransferDone
  <2>3. CASE Flight' = {issued}
    BY <2>1, <2>2, <2>3, ContractStutter
  <2>4. CASE Flight' # {issued}
    <3>1. Flight' = {}
      BY <2>1, <2>4
    <3>2. Panel!Contract!Release(issued)
      BY <2>1, <2>2, <3>1 DEF Panel!Contract!Release
    <3> QED
      BY <2>2, <3>2 DEF Panel!Contract!Next
  <2> QED BY <2>3, <2>4
<1>4. CASE Panel!BeginFrame \/ Panel!Strip \/ Panel!CommitFrame
  <2>1. UNCHANGED <<Panel!Visible, issued, open, acquired>>
    BY <1>4, SameVisible DEF Panel!BeginFrame, Panel!Strip, Panel!CommitFrame
  <2>2. Presenting /\ Presenting'
    BY <1>4 DEF Panel!BeginFrame, Panel!Strip, Panel!CommitFrame
  <2> QED
    BY <2>1, <2>2, ContractStutter
<1>5. CASE Panel!Quiesced
  <2>1. /\ panelPc = "quiesce" /\ panelPc' = "idle" /\ wire = <<>> /\ accepted' = issued
        /\ UNCHANGED <<panel, issued, open, acquired, wire>> /\ ~acquired
    BY <1>5 DEF Panel!Quiesced, Panel!PanelDone
  <2>2. \A y \in Height : panel[y] = issued
    BY <2>1 DEF Painted, Height
  <2>3. UNCHANGED Panel!Visible
    BY <2>1, <2>2, VisibleFrame, NextVisibleFrame
  <2>4. Panel!Contract!Release(issued)
    BY <2>1, <2>3 DEF Panel!Contract!Release
  <2> QED
    BY <2>1, <2>4 DEF Panel!Contract!Next
<1>6. CASE Panel!Discard \/ Panel!CloseBegins
  <2>1. UNCHANGED <<Panel!Visible, issued, open, wire>> /\ panelPc = "idle" /\ panelPc' \in {"idle", "close"} /\ ~acquired'
    BY <1>6, SameVisible DEF Panel!Discard, Panel!CloseBegins, Panel!Idle
  <2>2. CASE acquired
    <3>1. Panel!Contract!Consume
      BY <2>1, <2>2 DEF Panel!Contract!Consume
    <3> QED
      BY <3>1 DEF Panel!Contract!Next
  <2>3. CASE ~acquired
    BY <2>1, <2>3, ContractStutter
  <2> QED BY <2>2, <2>3
<1>7. CASE Panel!Flush
  BY <1>7, SameVisible, ContractStutter DEF Panel!Flush
<1>8. CASE Panel!Close
  <2>1. UNCHANGED <<Panel!Visible, issued, wire, acquired>> /\ panelPc = "close" /\ panelPc' = "idle" /\ ~acquired /\ open
    BY <1>8, SameVisible DEF Panel!Close
  <2>2. CASE open'
    BY <2>1, <2>2, ContractStutter
  <2>3. CASE ~open'
    <3>1. wire = <<>> /\ open' = FALSE
      BY <1>8, <2>1, <2>3 DEF Panel!Close
    <3> QED
      BY <2>1, <3>1 DEF Panel!Contract!Next, Panel!Contract!Shut
  <2> QED BY <2>2, <2>3
<1> QED
  BY <1>1, <1>2, <1>3, <1>4, <1>5, <1>6, <1>7, <1>8 DEF Panel!Next

LEMMA InitKeepsContract ==
  ASSUME PanelConstants, Panel!Init
  PROVE  Panel!Contract!Init
BY DEF PanelConstants, Panel!Init, Panel!Contract!Init, Panel!Visible

\* The backend implements the video contract.
THEOREM PanelImplementsContract == PanelConstants => (Panel!Spec => Panel!Contract!Spec)
<1> SUFFICES ASSUME PanelConstants PROVE Panel!Spec => Panel!Contract!Spec
  OBVIOUS
<1>1. Panel!Init => PanelInductive /\ Panel!Contract!Init
  BY PanelInit, InitKeepsContract
<1>2. PanelInductive /\ [Panel!Next]_Panel!vars => PanelInductive'
  BY StepKeepsPanel
<1>3. PanelInductive /\ [Panel!Next]_Panel!vars => [Panel!Contract!Next]_Panel!Contract!vars
  <2> SUFFICES ASSUME PanelInductive, [Panel!Next]_Panel!vars
               PROVE  [Panel!Contract!Next]_Panel!Contract!vars
    OBVIOUS
  <2>1. CASE UNCHANGED Panel!vars
    <3>1. UNCHANGED <<issued, Leased, Flight, Panel!Visible, open>>
      BY <2>1, SameVisible DEF Panel!vars, Leased, Flight, Presenting
    <3> QED BY <3>1, ContractStutter
  <2>2. CASE Panel!Next
    BY <1>2, <2>2, LandShows, CallKeepsContract
  <2> QED BY <2>1, <2>2
<1> QED
  BY <1>1, <1>2, <1>3, PTL DEF Panel!Spec, Panel!Contract!Spec

(***************************************************************************)
(* The runtime statistics                                                  *)
(***************************************************************************)

Ops == Stats!Counters \cup {"read", "store", "load", "raise"}

In(op, s) == \E i \in 1 .. Len(s) : s[i] = op
Before(s, a, b) == \A i, j \in 1 .. Len(s) : s[i] = a /\ s[j] = b => i < j

\* What is left of a call: no operation twice; it stores what it has read,
\* and raises the peak after that.
Orderly(s) ==
  /\ s \in Seq(Ops)
  /\ \A i, j \in 1 .. Len(s) : s[i] = s[j] => i = j
  /\ Before(s, "read", "store") /\ Before(s, "store", "raise") /\ Before(s, "load", "raise")
  /\ In("read", s) => In("store", s)
  /\ In("store", s) => In("raise", s)

LEMMA OrderlyTail ==
  ASSUME NEW s, Orderly(s), s # <<>>
  PROVE  /\ Orderly(Tail(s)) /\ Head(s) \in Ops
         /\ \A op : In(op, Tail(s)) <=> In(op, s) /\ op # Head(s)
         /\ In(Head(s), s)
         /\ Head(s) = "store" => ~In("read", s) /\ In("raise", s)
         /\ Head(s) = "raise" => ~In("store", s) /\ ~In("load", s) /\ ~In("read", s)
<1>1. /\ Tail(s) \in Seq(Ops) /\ Len(s) \in Nat \ {0} /\ Len(Tail(s)) = Len(s) - 1
      /\ Head(s) = s[1] /\ \A i \in 1 .. Len(s) : s[i] \in Ops
      /\ \A i \in 1 .. Len(Tail(s)) : Tail(s)[i] = s[i + 1]
  BY Shortened DEF Orderly
<1>2. ASSUME NEW op PROVE In(op, Tail(s)) <=> In(op, s) /\ op # Head(s)
  <2>1. ASSUME In(op, Tail(s)) PROVE In(op, s) /\ op # Head(s)
    <3>1. PICK i \in 1 .. Len(Tail(s)) : Tail(s)[i] = op
      BY <2>1 DEF In
    <3>2. i + 1 \in 1 .. Len(s) /\ s[i + 1] = op /\ 1 \in 1 .. Len(s) /\ i + 1 # 1
      BY <1>1, <3>1
    <3>3. s[i + 1] # s[1]
      BY <3>2 DEF Orderly
    <3> QED BY <1>1, <3>2, <3>3 DEF In
  <2>2. ASSUME In(op, s), op # Head(s) PROVE In(op, Tail(s))
    <3>1. PICK i \in 1 .. Len(s) : s[i] = op
      BY <2>2 DEF In
    <3>2. i - 1 \in 1 .. Len(Tail(s)) /\ Tail(s)[i - 1] = op
      BY <1>1, <2>2, <3>1
    <3> QED BY <3>2 DEF In
  <2> QED BY <2>1, <2>2
<1>3. Head(s) = "store" => ~In("read", s) /\ In("raise", s)
  BY <1>1 DEF Orderly, Before, In
<1>4. Head(s) = "raise" => ~In("store", s) /\ ~In("load", s) /\ ~In("read", s)
  BY <1>1 DEF Orderly, Before, In
<1>5. ASSUME NEW a, NEW b, Before(s, a, b) PROVE Before(Tail(s), a, b)
  <2> SUFFICES ASSUME NEW i \in 1 .. Len(Tail(s)), NEW j \in 1 .. Len(Tail(s)), Tail(s)[i] = a, Tail(s)[j] = b
               PROVE  i < j
    BY DEF Before
  <2>1. i + 1 \in 1 .. Len(s) /\ j + 1 \in 1 .. Len(s) /\ s[i + 1] = a /\ s[j + 1] = b
    BY <1>1
  <2>2. i + 1 < j + 1
    BY <1>5, <2>1 DEF Before
  <2> QED BY <2>2
<1>6. \A i, j \in 1 .. Len(Tail(s)) : Tail(s)[i] = Tail(s)[j] => i = j
  <2> SUFFICES ASSUME NEW i \in 1 .. Len(Tail(s)), NEW j \in 1 .. Len(Tail(s)), Tail(s)[i] = Tail(s)[j]
               PROVE  i = j
    OBVIOUS
  <2>1. i + 1 \in 1 .. Len(s) /\ j + 1 \in 1 .. Len(s) /\ s[i + 1] = s[j + 1]
    BY <1>1
  <2>2. i + 1 = j + 1
    BY <2>1 DEF Orderly
  <2> QED BY <2>2
<1>7. Orderly(Tail(s))
  BY <1>1, <1>2, <1>3, <1>4, <1>5, <1>6 DEF Orderly
<1>8. In(Head(s), s)
  BY <1>1 DEF In
<1> QED
  BY <1>1, <1>2, <1>3, <1>4, <1>7, <1>8

\* The calls, and what each of them owes.
LEMMA Calls ==
  /\ Orderly(<<>>) /\ \A op : ~In(op, <<>>)
  /\ Orderly(Stats!ShownOps) /\ \A op : In(op, Stats!ShownOps) <=> op \in {"store", "load", "raise"}
  /\ Orderly(Stats!FailedOps) /\ \A op : In(op, Stats!FailedOps) <=> op \in {"dropped", "errors", "store", "load", "raise"}
  /\ Orderly(Stats!Recorded("none"))
  /\ \A op : In(op, Stats!Recorded("none")) <=> op \in {"read", "frames", "store", "load", "raise"}
  /\ Orderly(Stats!Replaced)
  /\ \A op : In(op, Stats!Replaced) <=>
              op \in {"dropped", "superseded", "read", "frames", "store", "load", "raise"}
  /\ \A cause \in {"busy", "errors"} :
       /\ Orderly(Stats!Recorded(cause))
       /\ \A op : In(op, Stats!Recorded(cause)) <=>
                   op \in {"read", "frames", "dropped", "store", "load", "raise", cause}
<1>1. Orderly(<<>>) /\ \A op : ~In(op, <<>>)
  BY DEF Orderly, In, Before
<1>2. Orderly(Stats!ShownOps) /\ Orderly(Stats!FailedOps) /\ Orderly(Stats!Replaced) /\ Orderly(Stats!Recorded("none"))
  BY DEF Orderly, In, Before, Ops, Stats!Counters, Stats!ShownOps, Stats!FailedOps,
     Stats!Replaced, Stats!Recorded
<1>3. Orderly(Stats!Recorded("busy")) /\ Orderly(Stats!Recorded("errors"))
  BY DEF Orderly, In, Before, Ops, Stats!Counters, Stats!Recorded
<1>4. ASSUME NEW op
      PROVE  /\ In(op, Stats!ShownOps) <=> op \in {"store", "load", "raise"}
             /\ In(op, Stats!FailedOps) <=> op \in {"dropped", "errors", "store", "load", "raise"}
             /\ In(op, Stats!Recorded("none")) <=> op \in {"read", "frames", "store", "load", "raise"}
             /\ In(op, Stats!Replaced) <=>
                  op \in {"dropped", "superseded", "read", "frames", "store", "load", "raise"}
  BY DEF In, Stats!ShownOps, Stats!FailedOps, Stats!Replaced, Stats!Recorded
<1>5. ASSUME NEW op, NEW cause \in {"busy", "errors"}
      PROVE  In(op, Stats!Recorded(cause)) <=> op \in {"read", "frames", "dropped", "store", "load", "raise", cause}
  BY DEF In, Stats!Recorded
<1> QED
  BY <1>1, <1>2, <1>3, <1>4, <1>5

----------------------------------------------------------------------------
StatTypes ==
  /\ {statDrawing, pending, working, failed} \subseteq BOOLEAN
  /\ todo \in [Stats!Threads -> Seq(Ops)]
  /\ read \in [Stats!Threads -> 0..2] /\ loaded \in [Stats!Threads -> 0..2]
  /\ count \in [Stats!Counters -> Nat]
  /\ gauge \in 0..2 /\ peak \in 0..2 /\ most \in 0..2 /\ shown \in Nat

Due(op, t) == IF In(op, todo[t]) THEN 1 ELSE 0

\* What is counted, or is still to be.
Total == [op \in Stats!Counters |-> count[op] + Due(op, "game") + Due(op, "worker")]

\* Each frame that was recorded, or will be, is accounted for.
Balanced ==
  /\ Total["frames"] = shown + Stats!InFlight + Total["dropped"]
  /\ Total["dropped"] = Total["busy"] + Total["superseded"] + Total["errors"]

\* A thread that has said how much is in flight, and may still raise the peak.
Said(t) == In("raise", todo[t]) /\ ~In("store", todo[t])

\* The peak is the most that was said, or some thread is about to raise it.
Peaked ==
  /\ peak <= most
  /\ \A t \in Stats!Threads : Said(t) => read[t] <= most
  /\ \A t \in Stats!Threads : In("raise", todo[t]) /\ ~In("load", todo[t]) => loaded[t] <= peak
  /\ most = peak \/ \E t \in Stats!Threads : Said(t) /\ read[t] = most

StatsInductive ==
  /\ StatTypes
  /\ \A t \in Stats!Threads : Orderly(todo[t])
  /\ working => Stats!Idle("worker")
  /\ Balanced
  /\ Peaked

LEMMA StatsInit ==
  ASSUME Stats!Init
  PROVE  StatsInductive
<1> USE DEF Stats!Init
<1>1. \A t \in Stats!Threads : todo[t] = <<>> /\ Orderly(todo[t]) /\ \A op : ~In(op, todo[t])
  BY Calls
<1>2. StatTypes
  <2>1. todo \in [Stats!Threads -> Seq(Ops)] /\ count \in [Stats!Counters -> Nat]
    OBVIOUS
  <2>2. read \in [Stats!Threads -> 0..2] /\ loaded \in [Stats!Threads -> 0..2]
    OBVIOUS
  <2>3. {statDrawing, pending, working, failed} \subseteq BOOLEAN
    OBVIOUS
  <2>4. gauge \in 0..2 /\ peak \in 0..2 /\ most \in 0..2 /\ shown \in Nat
    OBVIOUS
  <2> QED
    BY <2>1, <2>2, <2>3, <2>4 DEF StatTypes
<1>3. \A op \in Stats!Counters : Total[op] = 0
  BY <1>1 DEF Total, Due, Stats!Threads
<1>4. Balanced
  BY <1>3 DEF Balanced, Stats!InFlight, Stats!Counters
<1>5. Peaked
  BY <1>1 DEF Peaked, Said
<1> QED
  BY <1>1, <1>2, <1>4, <1>5 DEF StatsInductive, Stats!Idle

\* Doing the next operation of a call.
LEMMA DoneFacts ==
  ASSUME StatsInductive, NEW t \in Stats!Threads, NEW op, Stats!At(t, op), Stats!Done(t)
  PROVE  /\ todo' \in [Stats!Threads -> Seq(Ops)]
         /\ \A u \in Stats!Threads : Orderly(todo'[u]) /\ (u # t => todo'[u] = todo[u])
         /\ \A o : In(o, todo'[t]) <=> In(o, todo[t]) /\ o # op
         /\ In(op, todo[t]) /\ op \in Ops
         /\ op = "store" => ~In("read", todo[t]) /\ In("raise", todo[t])
         /\ op = "raise" => ~In("store", todo[t]) /\ ~In("load", todo[t]) /\ ~In("read", todo[t])
         /\ Stats!Idle("worker") => t = "game" /\ Stats!Idle("worker")'
<1> USE DEF StatsInductive, StatTypes
<1>1. todo' = [todo EXCEPT ![t] = Tail(todo[t])] /\ todo[t] # <<>> /\ Head(todo[t]) = op
  BY DEF Stats!Done, Stats!Then, Stats!At, Stats!Idle
<1>2. Orderly(todo[t])
  OBVIOUS
<1>3. /\ Orderly(Tail(todo[t]))
      /\ \A o : In(o, Tail(todo[t])) <=> In(o, todo[t]) /\ o # op
      /\ In(op, todo[t]) /\ op \in Ops
      /\ op = "store" => ~In("read", todo[t]) /\ In("raise", todo[t])
      /\ op = "raise" => ~In("store", todo[t]) /\ ~In("load", todo[t]) /\ ~In("read", todo[t])
  BY <1>1, <1>2, OrderlyTail
<1>4. todo'[t] = Tail(todo[t]) /\ \A u \in Stats!Threads : u # t => todo'[u] = todo[u]
  BY <1>1
<1>5. todo' \in [Stats!Threads -> Seq(Ops)] 
  BY <1>1, <1>3 DEF Orderly
<1>6. Stats!Idle("worker") => t = "game" /\ Stats!Idle("worker")'
  BY <1>1, <1>4 DEF Stats!Idle, Stats!Threads
<1> QED
  BY <1>3, <1>4, <1>5, <1>6


\* Operations that count nothing.
LEMMA SameBalance ==
  ASSUME StatsInductive, UNCHANGED <<count, shown, pending, working>>, NEW t \in Stats!Threads,
         \A u \in Stats!Threads \ {t} : todo'[u] = todo[u],
         \A o \in Stats!Counters : In(o, todo'[t]) <=> In(o, todo[t])
  PROVE  Balanced'
<1>1. Total' = Total
  BY DEF Total, Due, Stats!Threads
<1> QED
  BY <1>1 DEF StatsInductive, Balanced, Stats!InFlight

LEMMA AddKeepsStats ==
  ASSUME StatsInductive, NEW t \in Stats!Threads, Stats!Add(t)
  PROVE  StatsInductive'
<1> USE DEF StatsInductive, StatTypes
<1>1. PICK c \in Stats!Counters : Stats!At(t, c) /\ count' = [count EXCEPT ![c] = @ + 1] /\ Stats!Done(t)
  BY DEF Stats!Add
<1>2. UNCHANGED <<statDrawing, pending, working, failed, shown, read, loaded, gauge, peak, most>>
  BY DEF Stats!Add, Stats!video
<1>3. /\ todo' \in [Stats!Threads -> Seq(Ops)]
      /\ \A u \in Stats!Threads : Orderly(todo'[u]) /\ (u # t => todo'[u] = todo[u])
      /\ \A o : In(o, todo'[t]) <=> In(o, todo[t]) /\ o # c
      /\ In(c, todo[t])
      /\ Stats!Idle("worker") => t = "game" /\ Stats!Idle("worker")'
  BY <1>1, DoneFacts
<1>4. Balanced'
  <2>1. ASSUME NEW o \in Stats!Counters
        PROVE  count'[o] + Due(o, "game")' + Due(o, "worker")' = count[o] + Due(o, "game") + Due(o, "worker")
    <3>1. count'[o] = count[o] + (IF o = c THEN 1 ELSE 0) /\ count[o] \in Nat
      BY <1>1
    <3>2. CASE t = "game"
      BY <1>3, <3>1, <3>2 DEF Due, Stats!Threads
    <3>3. CASE t = "worker"
      BY <1>3, <3>1, <3>3 DEF Due, Stats!Threads
    <3> QED BY <3>2, <3>3 DEF Stats!Threads
  <2>2. Total' = Total
    BY <2>1 DEF Total
  <2> QED
    BY <1>2, <2>2 DEF Balanced, Stats!InFlight
<1>5. Peaked'
  BY <1>2, <1>3, <1>1 DEF Peaked, Said, Stats!Counters
<1>6. StatTypes'
  BY <1>1, <1>2, <1>3
<1> QED
  BY <1>2, <1>3, <1>4, <1>5, <1>6

\* Where a call stands when it is about to do an operation.
LEMMA AtFacts ==
  ASSUME StatsInductive, NEW t \in Stats!Threads, NEW op, Stats!At(t, op)
  PROVE  /\ In(op, todo[t]) /\ ~Stats!Idle(t)
         /\ op \in {"read", "store"} => In("raise", todo[t])
         /\ op = "store" => ~In("read", todo[t])
         /\ op = "raise" => ~In("store", todo[t]) /\ ~In("load", todo[t])
         /\ In("read", todo[t]) => In("store", todo[t])
<1>1. Orderly(todo[t]) /\ todo[t] # <<>> /\ Head(todo[t]) = op
  BY DEF StatsInductive, Stats!At, Stats!Idle
<1>2. In(op, todo[t]) /\ (op = "store" => ~In("read", todo[t]))
      /\ (op = "raise" => ~In("store", todo[t]) /\ ~In("load", todo[t]))
  BY <1>1, OrderlyTail
<1>3. (In("read", todo[t]) => In("store", todo[t])) /\ (In("store", todo[t]) => In("raise", todo[t]))
  BY <1>1 DEF Orderly
<1> QED
  BY <1>1, <1>2, <1>3 DEF Stats!Idle

LEMMA GaugeKeepsStats ==
  ASSUME StatsInductive, NEW t \in Stats!Threads, Stats!Read(t) \/ Stats!Store(t) \/ Stats!Load(t) \/ Stats!Raise(t)
  PROVE  StatsInductive'
<1> USE DEF StatsInductive, StatTypes
<1>1. UNCHANGED <<statDrawing, pending, working, failed, shown, count>>
  BY DEF Stats!Read, Stats!Store, Stats!Load, Stats!Raise, Stats!video, Stats!shared
<1>2. ASSUME NEW op, op \in {"read", "store", "load", "raise"}, Stats!At(t, op), Stats!Done(t)
      PROVE  /\ todo' \in [Stats!Threads -> Seq(Ops)]
             /\ \A u \in Stats!Threads : Orderly(todo'[u]) /\ (u # t => todo'[u] = todo[u])
             /\ \A o : In(o, todo'[t]) <=> In(o, todo[t]) /\ o # op
             /\ working => Stats!Idle("worker")'
             /\ Balanced'
  <2>1. /\ todo' \in [Stats!Threads -> Seq(Ops)]
        /\ \A u \in Stats!Threads : Orderly(todo'[u]) /\ (u # t => todo'[u] = todo[u])
        /\ \A o : In(o, todo'[t]) <=> In(o, todo[t]) /\ o # op
        /\ Stats!Idle("worker") => Stats!Idle("worker")'
    BY <1>2, DoneFacts
  <2>2. \A o \in Stats!Counters : o # op
    BY <1>2 DEF Stats!Counters
  <2>3. Balanced'
    BY <1>1, <2>1, <2>2, SameBalance
  <2> QED BY <2>1, <2>3
<1>3. CASE Stats!Read(t)
  <2>1. Stats!At(t, "read") /\ Stats!Done(t) /\ read' = [read EXCEPT ![t] = Stats!InFlight]
        /\ UNCHANGED <<loaded, gauge, peak, most>>
    BY <1>3 DEF Stats!Read, Stats!shared
  <2>2. In("read", todo[t]) /\ In("store", todo[t])
    BY <2>1, AtFacts
  <2>3. Stats!InFlight \in 0..2
    BY DEF Stats!InFlight
  <2>4. Peaked'
    <3>1. \A u \in Stats!Threads : Said(u) => u # t
      BY <2>2 DEF Said
    <3>2. \A u \in Stats!Threads \ {t} : read'[u] = read[u] /\ todo'[u] = todo[u]
      BY <1>2, <2>1
    <3>3. In("store", todo'[t]) /\ (In("load", todo'[t]) <=> In("load", todo[t]))
          /\ (In("raise", todo'[t]) <=> In("raise", todo[t]))
      BY <1>2, <2>1, <2>2
    <3> QED BY <2>1, <3>1, <3>2, <3>3 DEF Peaked, Said
  <2> QED BY <1>1, <1>2, <2>1, <2>3, <2>4
<1>4. CASE Stats!Store(t)
  <2>1. Stats!At(t, "store") /\ Stats!Done(t) /\ gauge' = read[t]
        /\ most' = (IF read[t] > most THEN read[t] ELSE most)
        /\ UNCHANGED <<read, loaded, peak>>
    BY <1>4 DEF Stats!Store
  <2>2. In("store", todo[t]) /\ In("raise", todo[t])
    BY <2>1, AtFacts
  <2>3. \A u \in Stats!Threads \ {t} : todo'[u] = todo[u]
    BY <1>2, <2>1
  <2>4. ~In("store", todo'[t]) /\ (In("load", todo'[t]) <=> In("load", todo[t])) /\ In("raise", todo'[t])
    BY <1>2, <2>1, <2>2
  <2>5. most' \in 0..2 /\ most <= most' /\ read[t] <= most' /\ (most' = most \/ most' = read[t])
    BY <2>1
  <2>6. Peaked'
    <3>1. peak' <= most'
      BY <2>1, <2>5 DEF Peaked
    <3>2. ASSUME NEW u \in Stats!Threads, Said(u)' PROVE read'[u] <= most'
      <4>1. CASE u = t
        BY <2>1, <2>5, <4>1
      <4>2. CASE u # t
        <5>1. Said(u)
          BY <2>3, <3>2, <4>2 DEF Said
        <5>2. read[u] <= most /\ read[u] \in Int /\ most \in Int /\ most' \in Int
          BY <2>5, <5>1 DEF Peaked
        <5> QED BY <2>1, <2>5, <5>2
      <4> QED BY <4>1, <4>2
    <3>3. ASSUME NEW u \in Stats!Threads, In("raise", todo'[u]), ~In("load", todo'[u]) PROVE loaded'[u] <= peak'
      BY <2>1, <2>2, <2>3, <2>4, <3>3 DEF Peaked
    <3>4. most' = peak' \/ \E u \in Stats!Threads : Said(u)' /\ read'[u] = most'
      <4>1. CASE most' = read[t]
        <5>1. Said(t)' /\ read'[t] = most'
          BY <2>1, <2>4, <4>1 DEF Said
        <5> QED BY <5>1
      <4>2. CASE most' = most /\ most = peak
        BY <2>1, <4>2
      <4>3. CASE most' = most /\ \E u \in Stats!Threads : Said(u) /\ read[u] = most
        <5>1. PICK u \in Stats!Threads : Said(u) /\ read[u] = most
          BY <4>3
        <5>2. u # t /\ Said(u)' /\ read'[u] = most'
          BY <2>1, <2>2, <2>3, <4>3, <5>1 DEF Said
        <5> QED BY <5>2
      <4> QED BY <2>5, <4>1, <4>2, <4>3 DEF Peaked
    <3> QED BY <3>1, <3>2, <3>3, <3>4 DEF Peaked
  <2> QED BY <1>1, <1>2, <2>1, <2>5, <2>6
<1>5. CASE Stats!Load(t)
  <2>1. Stats!At(t, "load") /\ Stats!Done(t) /\ loaded' = [loaded EXCEPT ![t] = peak]
        /\ UNCHANGED <<read, gauge, peak, most>>
    BY <1>5 DEF Stats!Load, Stats!shared
  <2>2. \A u \in Stats!Threads \ {t} : todo'[u] = todo[u] /\ loaded'[u] = loaded[u]
    BY <1>2, <2>1
  <2>3. (In("store", todo'[t]) <=> In("store", todo[t])) /\ (In("raise", todo'[t]) <=> In("raise", todo[t]))
    BY <1>2, <2>1
  <2>4. \A u \in Stats!Threads : Said(u)' <=> Said(u)
    BY <2>2, <2>3 DEF Said
  <2>5. Peaked'
    BY <2>1, <2>2, <2>4 DEF Peaked
  <2> QED BY <1>1, <1>2, <2>1, <2>5
<1>6. CASE Stats!Raise(t)
  <2>1. Stats!At(t, "raise") /\ UNCHANGED <<read, gauge, most>>
    BY <1>6 DEF Stats!Raise
  <2>2. Said(t) /\ In("raise", todo[t]) /\ ~In("load", todo[t])
    BY <2>1, AtFacts DEF Said
  <2>3. read[t] <= most /\ loaded[t] <= peak /\ peak <= most
    BY <2>2 DEF Peaked
  <2>6. read[t] \in Int /\ loaded[t] \in Int /\ peak \in Int /\ read[t] \in 0..2 /\ peak \in 0..2
    OBVIOUS
  <2>4. CASE Stats!Done(t)
    <3>1. peak' \in {peak, read[t]} /\ peak <= peak' /\ read[t] <= peak' /\ UNCHANGED loaded /\ peak' \in 0..2
      <4>1. CASE read[t] <= loaded[t] /\ UNCHANGED <<peak, loaded>>
        BY <2>3, <2>6, <4>1
      <4>2. CASE read[t] > loaded[t] /\ peak = loaded[t] /\ peak' = read[t] /\ UNCHANGED loaded
        BY <2>3, <2>6, <4>2
      <4>3. ~(UNCHANGED todo)
        BY <2>1, <2>2, <2>4, <1>2
      <4> QED BY <1>6, <4>1, <4>2, <4>3 DEF Stats!Raise
    <3>2. \A u \in Stats!Threads \ {t} : todo'[u] = todo[u]
      BY <1>2, <2>1, <2>4
    <3>3. ~In("raise", todo'[t])
      BY <1>2, <2>1, <2>4
    <3>4. \A u \in Stats!Threads : Said(u)' => Said(u) /\ u # t
      BY <3>2, <3>3 DEF Said
    <3>5. \A u \in Stats!Threads \ {t} : Said(u)' <=> Said(u)
      BY <3>2 DEF Said
    <3>6. most = peak' \/ \E u \in Stats!Threads : Said(u)' /\ read[u] = most
      <4>1. CASE most = peak
        BY <2>3, <3>1, <4>1
      <4>2. CASE \E u \in Stats!Threads : Said(u) /\ read[u] = most
        <5>1. PICK u \in Stats!Threads : Said(u) /\ read[u] = most
          BY <4>2
        <5>2. CASE u = t
          BY <2>3, <3>1, <5>1, <5>2
        <5>3. CASE u # t
          BY <3>5, <5>1, <5>3
        <5> QED BY <5>2, <5>3
      <4> QED BY <4>1, <4>2 DEF Peaked
    <3>7. peak' <= most
      BY <2>3, <3>1
    <3>8. \A u \in Stats!Threads : In("raise", todo'[u]) /\ ~In("load", todo'[u]) => loaded[u] <= peak'
      <4> SUFFICES ASSUME NEW u \in Stats!Threads, In("raise", todo'[u]), ~In("load", todo'[u])
                   PROVE  loaded[u] <= peak'
        OBVIOUS
      <4>1. u # t /\ loaded[u] <= peak
        BY <3>2, <3>3 DEF Peaked
      <4>2. loaded[u] \in Int /\ peak \in Int /\ peak' \in Int
        BY <3>1
      <4> QED BY <3>1, <4>1, <4>2
    <3>9. Peaked'
      BY <2>1, <3>1, <3>4, <3>6, <3>7, <3>8 DEF Peaked
    <3> QED BY <1>1, <1>2, <2>1, <2>4, <3>1, <3>9
  <2>5. CASE ~Stats!Done(t)
    <3>1. loaded' = [loaded EXCEPT ![t] = peak] /\ UNCHANGED <<peak, todo>>
      BY <1>6, <2>5 DEF Stats!Raise
    <3>2. Peaked'
      BY <2>1, <3>1 DEF Peaked, Said
    <3>3. Balanced'
      BY <1>1, <3>1 DEF Balanced, Stats!InFlight, Total, Due
    <3>4. (working => Stats!Idle("worker"))'
      BY <1>1, <3>1 DEF Stats!Idle
    <3> QED BY <1>1, <2>1, <3>1, <3>2, <3>3, <3>4
  <2> QED BY <2>4, <2>5
<1> QED
  BY <1>3, <1>4, <1>5, <1>6

\* A thread that is in no call begins one.
LEMMA StartFacts ==
  ASSUME StatsInductive, NEW t \in Stats!Threads, Stats!Idle(t), NEW s, Orderly(s), Stats!Then(t, s),
         In("raise", s), In("store", s), In("load", s),
         UNCHANGED <<count, loaded, gauge, peak, most>>,
         read' \in [Stats!Threads -> 0..2], \A u \in Stats!Threads \ {t} : read'[u] = read[u]
  PROVE  /\ todo' \in [Stats!Threads -> Seq(Ops)]
         /\ \A u \in Stats!Threads : Orderly(todo'[u])
         /\ \A u \in Stats!Threads \ {t} : todo'[u] = todo[u]
         /\ \A o \in Stats!Counters : Total'[o] = Total[o] + (IF In(o, s) THEN 1 ELSE 0) /\ Total[o] \in Nat
         /\ Peaked'
<1> USE DEF StatsInductive, StatTypes
<1>1. todo' = [todo EXCEPT ![t] = s] /\ todo[t] = <<>> /\ \A o : ~In(o, todo[t])
  BY Calls DEF Stats!Then, Stats!Idle
<1>2. todo'[t] = s /\ \A u \in Stats!Threads \ {t} : todo'[u] = todo[u]
  BY <1>1
<1>3. todo' \in [Stats!Threads -> Seq(Ops)] /\ \A u \in Stats!Threads : Orderly(todo'[u])
  BY <1>1, <1>2 DEF Orderly
<1>4. ASSUME NEW o \in Stats!Counters
      PROVE  Total'[o] = Total[o] + (IF In(o, s) THEN 1 ELSE 0) /\ Total[o] \in Nat
  <2>1. Total[o] = count[o] + Due(o, "game") + Due(o, "worker") /\ count[o] \in Nat
    BY DEF Total
  <2>2. Total'[o] = count[o] + Due(o, "game")' + Due(o, "worker")'
    BY DEF Total
  <2>3. CASE t = "game"
    <3>1. Due(o, "game") = 0 /\ Due(o, "game")' = (IF In(o, s) THEN 1 ELSE 0) /\ Due(o, "worker")' = Due(o, "worker")
      BY <1>1, <1>2, <2>3 DEF Due, Stats!Threads
    <3> QED BY <2>1, <2>2, <3>1 DEF Due
  <2>4. CASE t = "worker"
    <3>1. Due(o, "worker") = 0 /\ Due(o, "worker")' = (IF In(o, s) THEN 1 ELSE 0) /\ Due(o, "game")' = Due(o, "game")
      BY <1>1, <1>2, <2>4 DEF Due, Stats!Threads
    <3> QED BY <2>1, <2>2, <3>1 DEF Due
  <2> QED BY <2>3, <2>4 DEF Stats!Threads
<1>5. Peaked'
  <2>1. \A u \in Stats!Threads : Said(u) => u # t
    BY <1>1 DEF Said
  <2>2. ~Said(t)' /\ ~(In("raise", todo'[t]) /\ ~In("load", todo'[t]))
    BY <1>2 DEF Said
  <2>3. \A u \in Stats!Threads \ {t} : Said(u)' <=> Said(u)
    BY <1>2 DEF Said
  <2> QED BY <1>2, <2>1, <2>2, <2>3 DEF Peaked
<1> QED
  BY <1>2, <1>3, <1>4, <1>5

LEMMA FrameEquation ==
  ASSUME NEW f \in Nat, NEW d \in Nat, NEW s \in Nat, NEW i \in Nat, NEW lost \in Nat, NEW new \in Nat,
         NEW f2, NEW d2, NEW s2 \in Nat, NEW i2 \in Nat,
         f = s + i + d, f2 = f + new, d2 = d + lost, s2 + i2 + lost = s + i + new
  PROVE  f2 = s2 + i2 + d2
OBVIOUS

LEMMA CauseEquation ==
  ASSUME NEW d \in Nat, NEW b \in Nat, NEW s \in Nat, NEW e \in Nat,
         NEW lost \in Nat, NEW busy \in Nat, NEW late \in Nat, NEW bad \in Nat,
         NEW d2, NEW b2, NEW s2, NEW e2,
         d = b + s + e, d2 = d + lost, b2 = b + busy, s2 = s + late, e2 = e + bad, lost = busy + late + bad
  PROVE  d2 = b2 + s2 + e2
OBVIOUS

\* The equations after a call has begun, from what it owes.
LEMMA BalanceAfter ==
  ASSUME StatsInductive, NEW lost \in Nat, NEW busy \in Nat, NEW late \in Nat, NEW bad \in Nat,
         NEW new \in Nat,
         \A o \in Stats!Counters : Total[o] \in Nat,
         Total'["frames"] = Total["frames"] + new, Total'["dropped"] = Total["dropped"] + lost,
         Total'["busy"] = Total["busy"] + busy, Total'["superseded"] = Total["superseded"] + late,
         Total'["errors"] = Total["errors"] + bad,
         lost = busy + late + bad, shown' \in Nat,
         shown' + Stats!InFlight' + lost = shown + Stats!InFlight + new
  PROVE  Balanced'
<1>1. /\ Total["frames"] \in Nat /\ Total["dropped"] \in Nat /\ Total["busy"] \in Nat
      /\ Total["superseded"] \in Nat /\ Total["errors"] \in Nat /\ shown \in Nat
  BY DEF Stats!Counters, StatsInductive, StatTypes
<1>2. Stats!InFlight \in Nat /\ Stats!InFlight' \in Nat
  BY DEF Stats!InFlight
<1>3. /\ Total["frames"] = shown + Stats!InFlight + Total["dropped"]
      /\ Total["dropped"] = Total["busy"] + Total["superseded"] + Total["errors"]
  BY DEF StatsInductive, Balanced
<1>4. Total'["frames"] = shown' + Stats!InFlight' + Total'["dropped"]
  <2>5. PICK i2 \in Nat : i2 = Stats!InFlight'
    BY ONLY <1>2
  <2>6. PICK s2 \in Nat : s2 = shown'
    OBVIOUS
  <2>7. PICK f2, d2 : f2 = Total'["frames"] /\ d2 = Total'["dropped"]
    OBVIOUS
  <2>1. f2 = Total'["frames"] /\ d2 = Total'["dropped"] /\ s2 = shown' /\ i2 = Stats!InFlight'
    BY <2>5, <2>6, <2>7
  <2>2. PICK f \in Nat, d \in Nat, s \in Nat, i \in Nat :
           f = Total["frames"] /\ d = Total["dropped"] /\ s = shown /\ i = Stats!InFlight
    BY <1>1, <1>2
  <2>3. f = s + i + d /\ f2 = f + new /\ d2 = d + lost /\ s2 + i2 + lost = s + i + new
    BY <1>3, <2>1, <2>2
  <2>4. f2 = s2 + i2 + d2
    BY ONLY <2>3, FrameEquation
  <2> QED BY <2>1, <2>4
<1>5. Total'["dropped"] = Total'["busy"] + Total'["superseded"] + Total'["errors"]
  <2>1. PICK d2, b2, s2, e2 : /\ d2 = Total'["dropped"] /\ b2 = Total'["busy"]
                              /\ s2 = Total'["superseded"] /\ e2 = Total'["errors"]
    OBVIOUS
  <2>2. PICK d \in Nat, b \in Nat, s \in Nat, e \in Nat :
           d = Total["dropped"] /\ b = Total["busy"] /\ s = Total["superseded"] /\ e = Total["errors"]
    BY <1>1
  <2>3. d = b + s + e /\ d2 = d + lost /\ b2 = b + busy /\ s2 = s + late /\ e2 = e + bad
    BY <1>3, <2>1, <2>2
  <2>4. d2 = b2 + s2 + e2
    BY ONLY <2>3, lost = busy + late + bad, CauseEquation
  <2> QED BY <2>1, <2>4
<1> QED
  BY <1>4, <1>5 DEF Balanced

LEMMA AcquireKeepsStats ==
  ASSUME StatsInductive, Stats!Acquire
  PROVE  StatsInductive'
<1> USE DEF StatsInductive, StatTypes
<1>1. UNCHANGED <<pending, working, failed, shown, read, loaded, count, gauge, peak, most>> /\ statDrawing' \in BOOLEAN
  BY DEF Stats!Acquire, Stats!shared
<1>2. CASE UNCHANGED todo
  BY <1>1, <1>2 DEF Balanced, Total, Due, Stats!InFlight, Peaked, Said, Stats!Idle
<1>3. CASE Stats!Then("game", Stats!Recorded("busy")) /\ Stats!Idle("game")
  <2>1. /\ Orderly(Stats!Recorded("busy"))
        /\ \A o : In(o, Stats!Recorded("busy")) <=>
                    o \in {"read", "frames", "dropped", "store", "load", "raise", "busy"}
    BY Calls
  <2>2. "game" \in Stats!Threads /\ "worker" \in Stats!Threads /\ "worker" # "game"
    BY DEF Stats!Threads
  <2>3. /\ todo' \in [Stats!Threads -> Seq(Ops)]
        /\ \A u \in Stats!Threads : Orderly(todo'[u])
        /\ \A u \in Stats!Threads \ {"game"} : todo'[u] = todo[u]
        /\ \A o \in Stats!Counters :
             Total'[o] = Total[o] + (IF In(o, Stats!Recorded("busy")) THEN 1 ELSE 0) /\ Total[o] \in Nat
        /\ Peaked'
    BY <1>1, <1>3, <2>1, <2>2, StartFacts
  <2>4. /\ Total'["frames"] = Total["frames"] + 1 /\ Total'["dropped"] = Total["dropped"] + 1
        /\ Total'["busy"] = Total["busy"] + 1 /\ Total'["superseded"] = Total["superseded"] + 0
        /\ Total'["errors"] = Total["errors"] + 0
        /\ \A o \in Stats!Counters : Total[o] \in Nat
    <3>1. In("frames", Stats!Recorded("busy")) /\ In("dropped", Stats!Recorded("busy")) /\ In("busy", Stats!Recorded("busy"))
          /\ ~In("superseded", Stats!Recorded("busy")) /\ ~In("errors", Stats!Recorded("busy"))
      BY ONLY <2>1
    <3>2. {"frames", "dropped", "busy", "superseded", "errors"} \subseteq Stats!Counters
      BY DEF Stats!Counters
    <3> QED BY ONLY <2>3, <3>1, <3>2
  <2>5. shown' + Stats!InFlight' + 1 = shown + Stats!InFlight + 1 /\ shown' \in Nat
    BY <1>1 DEF Stats!InFlight
  <2>6. Balanced'
    <3>1. 1 = 1 + 0 + 0 /\ 1 \in Nat /\ 0 \in Nat
      OBVIOUS
    <3> QED BY <2>4, <2>5, <3>1, BalanceAfter
  <2>7. (working => Stats!Idle("worker"))'
    BY <1>1, <2>2, <2>3 DEF Stats!Idle
  <2> QED BY <1>1, <2>3, <2>6, <2>7
<1> QED
  BY <1>2, <1>3 DEF Stats!Acquire

LEMMA PresentKeepsStats ==
  ASSUME StatsInductive, Stats!Present
  PROVE  StatsInductive'
<1> USE DEF StatsInductive, StatTypes
<1> DEFINE call == IF failed THEN Stats!Failure ELSE IF pending THEN Stats!Replaced ELSE Stats!Recorded("none")
<1>1. /\ UNCHANGED <<working, shown, read, loaded, count, gauge, peak, most>>
      /\ statDrawing' = FALSE /\ failed' = FALSE /\ pending' = (pending \/ ~failed)
      /\ Stats!Idle("game") /\ Stats!Then("game", call)
  BY DEF Stats!Present, Stats!shared
<1>2. /\ Orderly(call) /\ In("raise", call) /\ In("store", call) /\ In("load", call)
      /\ In("frames", call) /\ ~In("busy", call)
      /\ (In("dropped", call) <=> (failed \/ pending))
      /\ (In("errors", call) <=> failed)
      /\ (In("superseded", call) <=> (~failed /\ pending))
  <2>1. CASE failed
    <3>1. call = Stats!Recorded("errors")
      BY <2>1 DEF Stats!Failure
    <3>2. /\ Orderly(call)
          /\ \A op : In(op, call) <=> op \in {"read", "frames", "dropped", "store", "load", "raise", "errors"}
      BY <3>1, Calls
    <3> HIDE DEF call
    <3>3. In("dropped", call) /\ In("errors", call) /\ ~In("superseded", call)
      BY ONLY <3>2
    <3> QED BY <2>1, <3>2, <3>3
  <2>2. CASE ~failed /\ pending
    <3>1. call = Stats!Replaced
      BY <2>2
    <3>2. /\ Orderly(call)
          /\ \A op : In(op, call) <=>
               op \in {"dropped", "superseded", "read", "frames", "store", "load", "raise"}
      BY <3>1, Calls
    <3> HIDE DEF call
    <3>3. In("dropped", call) /\ ~In("errors", call) /\ In("superseded", call)
      BY ONLY <3>2
    <3> QED BY <2>2, <3>2, <3>3
  <2>3. CASE ~failed /\ ~pending
    <3>1. call = Stats!Recorded("none")
      BY <2>3
    <3>2. /\ Orderly(call)
          /\ \A op : In(op, call) <=> op \in {"read", "frames", "store", "load", "raise"}
      BY <3>1, Calls
    <3> HIDE DEF call
    <3>3. ~In("dropped", call) /\ ~In("errors", call) /\ ~In("superseded", call)
      BY ONLY <3>2
    <3> QED BY <2>3, <3>2, <3>3
  <2> QED BY <2>1, <2>2, <2>3
<1> HIDE DEF call
<1>3. "game" \in Stats!Threads /\ "worker" \in Stats!Threads /\ "worker" # "game"
  BY DEF Stats!Threads
<1>4. /\ todo' \in [Stats!Threads -> Seq(Ops)]
      /\ \A u \in Stats!Threads : Orderly(todo'[u])
      /\ \A u \in Stats!Threads \ {"game"} : todo'[u] = todo[u]
      /\ \A o \in Stats!Counters : Total'[o] = Total[o] + (IF In(o, call) THEN 1 ELSE 0) /\ Total[o] \in Nat
      /\ Peaked'
  BY <1>1, <1>2, <1>3, StartFacts
<1> DEFINE late == IF ~failed /\ pending THEN 1 ELSE 0
<1> DEFINE bad == IF failed THEN 1 ELSE 0
<1>5. /\ Total'["frames"] = Total["frames"] + 1 /\ Total'["busy"] = Total["busy"] + 0
      /\ Total'["dropped"] = Total["dropped"] + (late + bad)
      /\ Total'["superseded"] = Total["superseded"] + late
      /\ Total'["errors"] = Total["errors"] + bad
      /\ \A o \in Stats!Counters : Total[o] \in Nat
  <2>1. {"frames", "dropped", "busy", "superseded", "errors"} \subseteq Stats!Counters
    BY DEF Stats!Counters
  <2>2. late + bad = IF failed \/ pending THEN 1 ELSE 0
    OBVIOUS
  <2> HIDE DEF late, bad
  <2>3. Total'["dropped"] = Total["dropped"] + (late + bad)
    BY ONLY <1>2, <1>4, <2>1, <2>2
  <2>4. Total'["superseded"] = Total["superseded"] + late /\ Total'["errors"] = Total["errors"] + bad
    BY ONLY <1>2, <1>4, <2>1 DEF late, bad
  <2>5. Total'["frames"] = Total["frames"] + 1 /\ Total'["busy"] = Total["busy"] + 0
    BY ONLY <1>2, <1>4, <2>1
  <2> QED BY <1>4, <2>3, <2>4, <2>5
<1>6. shown' + Stats!InFlight' + (late + bad) = shown + Stats!InFlight + 1 /\ shown' \in Nat
  <2>1. pending \in BOOLEAN /\ failed \in BOOLEAN /\ shown \in Nat
    OBVIOUS
  <2>2. CASE failed
    <3>1. pending' = pending
      BY ONLY <1>1, <2>1, <2>2
    <3> QED BY ONLY <1>1, <2>1, <2>2, <3>1 DEF Stats!InFlight
  <2>3. CASE ~failed /\ pending
    <3>1. pending' = TRUE
      BY ONLY <1>1, <2>3
    <3> QED BY ONLY <1>1, <2>1, <2>3, <3>1 DEF Stats!InFlight
  <2>4. CASE ~failed /\ ~pending
    <3>1. pending' = TRUE
      BY ONLY <1>1, <2>4
    <3> QED BY ONLY <1>1, <2>1, <2>4, <3>1 DEF Stats!InFlight
  <2> QED BY <2>2, <2>3, <2>4
<1>7. Balanced'
  <2>1. late \in Nat /\ bad \in Nat /\ late + bad \in Nat /\ late + bad = 0 + late + bad /\ 1 \in Nat /\ 0 \in Nat
    OBVIOUS
  <2> HIDE DEF late, bad
  <2> QED BY <1>5, <1>6, <2>1, BalanceAfter
<1>8. (working => Stats!Idle("worker"))'
  BY <1>1, <1>3, <1>4 DEF Stats!Idle
<1> QED
  BY <1>1, <1>4, <1>7, <1>8

LEMMA WorkerKeepsStats ==
  ASSUME StatsInductive, Stats!Take \/ Stats!Finish
  PROVE  StatsInductive'
<1> USE DEF StatsInductive, StatTypes
<1>1. CASE Stats!Take
  <2>1. /\ UNCHANGED <<statDrawing, failed, shown, todo, read, loaded, count, gauge, peak, most>>
        /\ pending /\ ~working /\ pending' = FALSE /\ working' = TRUE /\ Stats!Idle("worker")
    BY <1>1 DEF Stats!Take, Stats!shared
  <2>2. Stats!InFlight' = Stats!InFlight
    BY <2>1 DEF Stats!InFlight
  <2> QED
    BY <2>1, <2>2 DEF Balanced, Total, Due, Peaked, Said, Stats!Idle
<1>2. CASE Stats!Finish
  <2>1. /\ UNCHANGED <<statDrawing, pending, loaded, count, gauge, peak, most>>
        /\ working /\ working' = FALSE
        /\ read' = [read EXCEPT !["worker"] = IF pending THEN 1 ELSE 0]
    BY <1>2 DEF Stats!Finish, Stats!shared
  <2>2. PICK call \in {Stats!ShownOps, Stats!FailedOps} :
          /\ Stats!Then("worker", call)
          /\ call = Stats!ShownOps => shown' = shown + 1 /\ UNCHANGED failed
          /\ call = Stats!FailedOps => shown' = shown /\ failed' = TRUE
    BY <1>2 DEF Stats!Finish, Stats!ShownOps, Stats!FailedOps
  <2>3. /\ Orderly(call) /\ In("raise", call) /\ In("store", call) /\ In("load", call)
        /\ ~In("frames", call) /\ ~In("busy", call) /\ ~In("superseded", call)
        /\ (In("dropped", call) <=> call = Stats!FailedOps)
        /\ (In("errors", call) <=> call = Stats!FailedOps)
        /\ call # Stats!FailedOps => call = Stats!ShownOps
        /\ call = Stats!FailedOps => call # Stats!ShownOps
    <3>1. CASE call = Stats!ShownOps
      <4>1. Orderly(call) /\ \A op : In(op, call) <=> op \in {"store", "load", "raise"}
        BY <3>1, Calls
      <4>2. ~In("dropped", call) /\ ~In("errors", call) /\ ~In("frames", call) /\ ~In("busy", call)
        BY ONLY <4>1
      <4>3. call # Stats!FailedOps
        <5>1. In("dropped", Stats!FailedOps)
          BY Calls
        <5> QED BY <4>2, <5>1
      <4> QED BY <3>1, <4>1, <4>2, <4>3
    <3>2. CASE call = Stats!FailedOps
      <4>1. Orderly(call) /\ \A op : In(op, call) <=> op \in {"dropped", "errors", "store", "load", "raise"}
        BY <3>2, Calls
      <4>2. In("dropped", call) /\ In("errors", call) /\ ~In("frames", call) /\ ~In("busy", call)
        BY ONLY <4>1
      <4>3. call # Stats!ShownOps
        <5>1. ~In("dropped", Stats!ShownOps)
          BY Calls
        <5> QED BY <4>2, <5>1
      <4> QED BY <3>2, <4>1, <4>2, <4>3
    <3> QED BY <2>2, <3>1, <3>2
  <2>4. "worker" \in Stats!Threads /\ Stats!Idle("worker") /\ read' \in [Stats!Threads -> 0..2]
        /\ \A u \in Stats!Threads \ {"worker"} : read'[u] = read[u]
    BY <2>1 DEF Stats!Threads
  <2>5. /\ todo' \in [Stats!Threads -> Seq(Ops)]
        /\ \A u \in Stats!Threads : Orderly(todo'[u])
        /\ \A o \in Stats!Counters : Total'[o] = Total[o] + (IF In(o, call) THEN 1 ELSE 0) /\ Total[o] \in Nat
        /\ Peaked'
    BY <2>1, <2>2, <2>3, <2>4, StartFacts
  <2> DEFINE lost == IF call = Stats!FailedOps THEN 1 ELSE 0
  <2>6. /\ Total'["frames"] = Total["frames"] + 0 /\ Total'["busy"] = Total["busy"] + 0
        /\ Total'["superseded"] = Total["superseded"] + 0
        /\ Total'["dropped"] = Total["dropped"] + lost /\ Total'["errors"] = Total["errors"] + lost
        /\ \A o \in Stats!Counters : Total[o] \in Nat
    <3>1. {"frames", "dropped", "busy", "superseded", "errors"} \subseteq Stats!Counters
      BY DEF Stats!Counters
    <3>2. (In("dropped", call) <=> lost = 1) /\ (In("errors", call) <=> lost = 1) /\ lost \in {0, 1}
      BY <2>3
    <3> HIDE DEF lost
    <3> QED BY ONLY <2>3, <2>5, <3>1, <3>2
  <2>8. shown' = shown + 1 - lost /\ failed' \in BOOLEAN /\ shown' \in Nat
    <3>1. CASE call = Stats!ShownOps
      BY <2>2, <2>3, <3>1
    <3>2. CASE call = Stats!FailedOps
      BY <2>2, <3>2
    <3> QED BY <2>2, <3>1, <3>2
  <2>7. shown' + Stats!InFlight' + lost = shown + Stats!InFlight + 0
    BY <2>1, <2>8 DEF Stats!InFlight
  <2>9. Balanced'
    <3>1. lost \in Nat /\ lost = 0 + 0 + lost /\ 0 \in Nat
      OBVIOUS
    <3> HIDE DEF lost
    <3> QED BY <2>6, <2>7, <2>8, <3>1, BalanceAfter
  <2> QED BY <2>1, <2>4, <2>5, <2>8, <2>9
<1> QED
  BY <1>1, <1>2

LEMMA StepKeepsStats ==
  ASSUME StatsInductive, [Stats!Next]_Stats!vars
  PROVE  StatsInductive'
<1>1. CASE UNCHANGED Stats!vars
  BY <1>1 DEF Stats!vars, Stats!video, Stats!shared, StatsInductive, StatTypes, Balanced, Total,
     Due, Stats!InFlight,
              Peaked, Said, Stats!Idle
<1> QED
  BY <1>1, AddKeepsStats, GaugeKeepsStats, AcquireKeepsStats, PresentKeepsStats, WorkerKeepsStats
     DEF Stats!Next

\* The counters add up whenever no call is under way.
THEOREM StatsAddUp == Stats!Spec => []Stats!CountsAddUp
<1>1. Stats!Init => StatsInductive
  BY StatsInit
<1>2. StatsInductive /\ [Stats!Next]_Stats!vars => StatsInductive'
  BY StepKeepsStats
<1>3. StatsInductive => Stats!CountsAddUp
  <2> SUFFICES ASSUME StatsInductive, \A t \in Stats!Threads : Stats!Idle(t) PROVE
                 /\ count["frames"] = shown + Stats!InFlight + count["dropped"]
                 /\ count["dropped"] = count["busy"] + count["superseded"] + count["errors"]
                 /\ peak = most /\ peak <= 2
    BY DEF Stats!CountsAddUp
  <2>1. \A t \in Stats!Threads : \A op : ~In(op, todo[t])
    BY Calls DEF Stats!Idle
  <2>2. \A o \in Stats!Counters : Total[o] = count[o]
    BY <2>1 DEF Total, Due, Stats!Threads, StatsInductive, StatTypes
  <2>3. peak = most /\ peak <= 2
    BY <2>1 DEF StatsInductive, StatTypes, Peaked, Said
  <2> QED
    BY <2>2, <2>3 DEF StatsInductive, Balanced, Stats!Counters
<1> QED
  BY <1>1, <1>2, <1>3, PTL DEF Stats!Spec

(***************************************************************************)
(* The rates of the runtime statistics                                     *)
(***************************************************************************)
LEMMA Remainder ==
  ASSUME NEW a \in Int, NEW m \in Nat \ {0}
  PROVE  a % m \in 0 .. m - 1 /\ a \div m \in Int /\ a = (a \div m) * m + (a % m)
BY SMT

LEMMA RemainderIs ==
  ASSUME NEW q \in Int, NEW m \in Nat \ {0}, NEW r \in 0 .. m - 1
  PROVE  (q * m + r) % m = r
BY SMT

\* The difference of two words is that of the times, if it fits into one.
LEMMA Difference ==
  ASSUME NEW m \in Nat \ {0}, NEW a \in Int, NEW b \in Int, a - b \in 0 .. m - 1
  PROVE  ((a % m) - (b % m)) % m = a - b
<1> DEFINE p == a \div m
           q == b \div m
           r == a % m
           s == b % m
<1>1. /\ p \in Int /\ q \in Int /\ r \in 0 .. m - 1 /\ s \in 0 .. m - 1
      /\ a = p * m + r /\ b = q * m + s
  BY Remainder
<1> HIDE DEF p, q, r, s
<1>2. (q - p) * m = q * m - p * m
  BY <1>1, SMT
<1>3. r - s = (q - p) * m + (a - b)
  BY <1>1, <1>2
<1>4. q - p \in Int
  BY <1>1
<1>5. (r - s) % m = a - b
  BY <1>3, <1>4, RemainderIs
<1> QED
  BY <1>5 DEF r, s

\* One less than a time with a rest.
LEMMA OneLess ==
  ASSUME NEW m \in Nat \ {0}, NEW a \in Int, a % m # 0
  PROVE  (a - 1) % m = (a % m) - 1
<1>1. /\ a % m \in 0 .. m - 1 /\ a \div m \in Int /\ a = (a \div m) * m + (a % m)
  BY Remainder
<1>2. (a % m) - 1 \in 0 .. m - 1 /\ a - 1 = (a \div m) * m + ((a % m) - 1)
  BY <1>1
<1> QED
  BY <1>1, <1>2, RemainderIs

LEMMA Decoded ==
  ASSUME NEW m \in Nat \ {0}, NEW a \in Int
  PROVE  (((a + 1) % m) - 1) % m = a % m
<1>1. CASE (a + 1) % m # 0
  <2> DEFINE b == a + 1
  <2>1. b \in Int /\ b - 1 = a /\ b % m # 0
    BY <1>1
  <2> HIDE DEF b
  <2>5. (b - 1) % m = (b % m) - 1
    BY <2>1, OneLess
  <2>4. a % m = ((a + 1) % m) - 1
    BY <2>1, <2>5 DEF b
  <2>2. a % m \in 0 .. m - 1
    BY Remainder
  <2>3. (0 * m + (a % m)) % m = a % m
    BY <2>2, RemainderIs
  <2> QED
    BY <2>4, <2>2, <2>3
<1>2. CASE (a + 1) % m = 0
  <2>1. /\ (a + 1) \div m \in Int /\ a + 1 = ((a + 1) \div m) * m + 0
    BY <1>2, Remainder, a + 1 \in Int
  <2>2. (((a + 1) \div m) - 1) * m = ((a + 1) \div m) * m - m
    BY <2>1, SMT
  <2>3. a = (((a + 1) \div m) - 1) * m + (m - 1)
    BY <2>1, <2>2
  <2>4. a % m = m - 1
    BY <2>1, <2>3, RemainderIs, m - 1 \in 0 .. m - 1, ((a + 1) \div m) - 1 \in Int
  <2>5. (0 - 1) = (-1) * m + (m - 1)
    OBVIOUS
  <2>6. (0 - 1) % m = m - 1
    BY <2>5, RemainderIs, m - 1 \in 0 .. m - 1
  <2> QED
    BY <1>2, <2>4, <2>6
<1> QED
  BY <1>1, <1>2

LEMMA TimeBetween ==
  ASSUME RateConstants, NEW a \in Int, NEW b \in Int, a - b \in 0 .. ClockWord - 1
  PROVE  Rate!Elapsed(a, Rate!Low(b)) = a - b
BY Difference DEF RateConstants, Rate!Elapsed, Rate!Low

LEMMA LowIs ==
  ASSUME RateConstants, NEW a \in Int
  PROVE  Rate!Low(a) \in 0 .. ClockWord - 1
BY Remainder DEF RateConstants, Rate!Low

RateTypes ==
  /\ rateClock \in Nat /\ rateOf \in {"frames", "updates", "displayed"}
  /\ rateStart \in 0 .. ClockWord - 1 /\ rateEvents \in Nat /\ rateLast \in 0 .. ClockWord - 1 /\ rateSeen \in Nat
  /\ rateOpened \in Nat \cup {None} /\ rateFirst \in Nat \cup {None}

\* What is behind and less than a word ago.
Fresh(time) == time = None \/ (time <= rateClock /\ rateClock - time < ClockWord)

\* The stored start is that of the window or of its first event, or neither
\* could be stored.
StartTells ==
  \/ rateStart = 0 /\ (rateFirst = None \/ Rate!Encoded(rateFirst) = 0)
  \/ rateStart # 0 /\ rateOpened # None /\ rateStart = Rate!Low(rateOpened)
  \/ rateStart # 0 /\ rateFirst # None /\ rateStart = Rate!Encoded(rateFirst)

WindowCounts ==
  /\ RateTypes
  /\ rateOpened # None => rateOpened <= rateClock
  /\ rateFirst # None => rateFirst <= rateClock
  /\ StartTells
  /\ rateEvents = rateSeen /\ (rateSeen = 0 <=> rateFirst = None)
  /\ rateLast # 0 => rateLast = Rate!Low(rateClock) /\ rateOf = "frames" /\ (rateOpened # None \/ rateFirst # None)
  /\ Rate!RateIsMeasured

\* The two ways of looking at a pause agree.
LEMMA PauseSeen ==
  ASSUME RateConstants, WindowCounts, NEW wait \in ClockWaits,
         \A from \in {rateOpened, rateFirst} \ {None} : rateClock + wait - from < ClockWord
  PROVE  Rate!Paused(rateClock + wait) <=> rateLast # 0 /\ (rateClock + wait) - rateClock > PauseGap
<1>1. CASE rateLast # 0
  <2>1. PICK from \in {rateOpened, rateFirst} \ {None} : from \in Nat /\ from <= rateClock
    BY <1>1 DEF WindowCounts, RateTypes
  <2>2. wait \in 0 .. ClockWord - 1 /\ rateClock \in Nat /\ wait \in Nat
    BY <2>1 DEF WindowCounts, RateTypes, RateConstants
  <2>3. Rate!Elapsed(rateClock + wait, rateLast) = wait
    <3>1. rateLast = Rate!Low(rateClock)
      BY <1>1 DEF WindowCounts
    <3> DEFINE time == rateClock + wait
    <3> HIDE DEF time
    <3>2. Rate!Elapsed(time, Rate!Low(rateClock)) = wait
      <4>1. time \in Int /\ rateClock \in Int /\ time - rateClock = wait
        BY <2>2 DEF time
      <4> QED
        BY <2>2, <4>1, TimeBetween
    <3> QED
      BY <3>1, <3>2 DEF time
  <2> QED
    BY <1>1, <2>2, <2>3 DEF Rate!Paused
<1> QED
  BY <1>1 DEF Rate!Paused

\* How far a window has come, by the code of its start.
LEMMA FromOpening ==
  ASSUME RateConstants, NEW time \in Nat, NEW begun \in Nat, begun <= time, time - begun < ClockWord, Rate!Low(begun) # 0
  PROVE  Rate!Elapsed(time, Rate!Low(Rate!Low(begun) - 1)) \in {0, time - begun + 1}
<1>0. ClockWord \in Nat \ {0} /\ time \in Int /\ begun \in Int /\ begun - 1 \in Int
  BY DEF RateConstants
<1>1. (begun - 1) % ClockWord = (begun % ClockWord) - 1
  BY <1>0, OneLess DEF Rate!Low
<1>2. (begun % ClockWord) - 1 \in 0 .. ClockWord - 1
  BY <1>0, <1>1, Remainder
<1>3. ((begun % ClockWord) - 1) % ClockWord = (begun % ClockWord) - 1
  <2>1. (0 * ClockWord + ((begun % ClockWord) - 1)) % ClockWord = (begun % ClockWord) - 1
    BY <1>0, <1>2, RemainderIs
  <2> QED
    BY <2>1, <1>0, <1>2
<1>4. Rate!Elapsed(time, Rate!Low(Rate!Low(begun) - 1)) = ((time % ClockWord) - ((begun - 1) % ClockWord)) % ClockWord
  BY <1>1, <1>3 DEF Rate!Elapsed, Rate!Low
<1>5. CASE time - begun + 1 < ClockWord
  <2>1. time - (begun - 1) \in 0 .. ClockWord - 1
    BY <1>0, <1>5
  <2>2. ((time % ClockWord) - ((begun - 1) % ClockWord)) % ClockWord = time - (begun - 1)
    BY <1>0, <2>1, Difference
  <2> QED
    BY <1>0, <1>4, <2>2
<1>6. CASE time - begun + 1 = ClockWord
  <2>1. begun - 1 = (begun \div ClockWord) * ClockWord + ((begun % ClockWord) - 1) /\ begun \div ClockWord \in Int
    BY <1>0, Remainder
  <2>2. (begun \div ClockWord + 1) * ClockWord = (begun \div ClockWord) * ClockWord + ClockWord
    BY <1>0, <2>1, SMT
  <2>3. time = (begun \div ClockWord + 1) * ClockWord + ((begun % ClockWord) - 1) /\ begun \div ClockWord + 1 \in Int
    BY <1>0, <1>6, <2>1, <2>2
  <2>4. time % ClockWord = (begun % ClockWord) - 1
    BY <1>0, <1>2, <2>3, RemainderIs
  <2>5. (0 * ClockWord + 0) % ClockWord = 0 /\ 0 * ClockWord + 0 = 0
    BY <1>0, RemainderIs
  <2> QED
    BY <1>0, <1>1, <1>2, <1>4, <2>4, <2>5
<1> QED
  BY <1>0, <1>5, <1>6

LEMMA FromFirst ==
  ASSUME RateConstants, NEW time \in Nat, NEW from \in Nat, from <= time, time - from < ClockWord
  PROVE  Rate!Elapsed(time, Rate!Low(Rate!Encoded(from) - 1)) = time - from
<1>0. ClockWord \in Nat \ {0} /\ time \in Int /\ from \in Int
  BY DEF RateConstants
<1>1. Rate!Low(Rate!Encoded(from) - 1) = from % ClockWord
  BY <1>0, Decoded DEF Rate!Encoded, Rate!Low
<1> QED
  <2>1. time - from \in 0 .. ClockWord - 1
    BY <1>0
  <2>2. ((time % ClockWord) - (from % ClockWord)) % ClockWord = time - from
    BY <1>0, <2>1, Difference
  <2> QED
    BY <1>1, <2>2 DEF Rate!Elapsed, Rate!Low

\* A record, whatever it does with its window.
LEMMA RecordCounts ==
  ASSUME RateConstants, WindowCounts, NEW wait \in ClockWaits,
         \A from \in {rateOpened, rateFirst} \ {None} : rateClock + wait - from < ClockWord,
         NEW anew \in BOOLEAN, Rate!Record(rateClock + wait, anew, anew)
  PROVE  /\ rateStart' \in 0 .. ClockWord - 1 /\ rateEvents' \in Nat /\ rateSeen' \in Nat /\ rateOf' = rateOf
         /\ rateOpened' \in Nat \cup {None} /\ rateFirst' \in Nat \cup {None}
         /\ rateClock' = rateClock + wait /\ rateClock' \in Nat
         /\ rateOpened' # None => rateOpened' <= rateClock'
         /\ rateFirst' # None => rateFirst' <= rateClock'
         /\ rateOpened' # None \/ rateFirst' # None
         /\ StartTells'
         /\ rateEvents' = rateSeen' /\ (rateSeen' = 0 <=> rateFirst' = None)
         /\ Rate!RateIsMeasured'
<1> DEFINE time == rateClock + wait
           code == Rate!Start(IF anew THEN Rate!Low(time) ELSE rateStart, time)
           total == (IF anew THEN 0 ELSE rateEvents) + 1
           elapsed == Rate!Elapsed(time, Rate!Low(code - 1))
           published == elapsed >= ClockSecond
           seen == (IF anew THEN 0 ELSE rateSeen) + 1
           begun == IF anew THEN time ELSE rateOpened
           from == IF seen = 1 \/ Rate!Encoded(rateFirst) = 0 THEN time ELSE rateFirst
<1>0. /\ ClockWord \in Nat \ {0} /\ ClockSecond \in Nat \ {0} /\ None \notin Nat /\ None \notin RateType
      /\ rateClock \in Nat /\ wait \in Nat /\ time \in Nat /\ rateClock <= time
  BY DEF RateConstants, WindowCounts, RateTypes
<1>1. /\ rateClock' = time
      /\ rateStart' = IF published THEN Rate!Low(time) ELSE code
      /\ rateEvents' = IF published THEN 0 ELSE total
      /\ rateTold' = IF published
                 THEN [count |-> total, elapsed |-> elapsed, n |-> seen,
                       times |-> {time - s : s \in {begun, from} \ {None}}]
                 ELSE None
      /\ rateOpened' = IF published THEN time ELSE begun
      /\ rateFirst' = IF published THEN None ELSE from
      /\ rateSeen' = IF published THEN 0 ELSE seen
      /\ rateOf' = rateOf
  BY DEF Rate!Record, Rate!Remaining
<1>2. seen \in Nat \ {0} /\ total = seen
  BY DEF WindowCounts, RateTypes
<1>3. from \in Nat /\ from <= time /\ time - from < ClockWord
  <2>1. CASE seen = 1 \/ Rate!Encoded(rateFirst) = 0
    <3>1. from = time
      BY <2>1
    <3> HIDE DEF time, from
    <3> QED
      BY <3>1, <1>0
  <2>2. CASE ~(seen = 1 \/ Rate!Encoded(rateFirst) = 0)
    <3>1. ~anew /\ rateSeen # 0 /\ from = rateFirst
      BY <2>2 DEF WindowCounts, RateTypes
    <3>2. rateFirst \in Nat /\ rateFirst <= rateClock
      BY <3>1, <1>0 DEF WindowCounts, RateTypes
    <3>3. time - rateFirst < ClockWord
      BY <3>2, <1>0
    <3> QED
      BY <3>1, <3>2, <3>3, <1>0
  <2> QED
    BY <2>1, <2>2
<1>4. begun # None => begun \in Nat /\ begun <= time /\ time - begun < ClockWord
  BY <1>0 DEF WindowCounts, RateTypes
<1>5. Rate!Low(time) \in 0 .. ClockWord - 1 /\ Rate!Encoded(time) \in 0 .. ClockWord - 1 /\ Rate!Encoded(from) \in 0 .. ClockWord - 1
  <2>1. time \in Int /\ time + 1 \in Int /\ from + 1 \in Int
    BY <1>0, <1>3
  <2> HIDE DEF time, from
  <2> QED
    BY <2>1, LowIs DEF Rate!Encoded
<1>6. \/ begun # None /\ code = Rate!Low(begun) /\ code # 0
      \/ code = Rate!Encoded(from)
  <2>1. CASE anew
    <3>1. seen = 1 /\ begun = time
      BY <2>1
    <3>2. from = time /\ begun # None
      BY <3>1, <1>0
    <3>3. code = IF Rate!Low(time) = 0 THEN Rate!Encoded(time) ELSE Rate!Low(time)
      BY <2>1 DEF Rate!Start
    <3> HIDE DEF time, code, begun, from
    <3> QED
      BY <3>1, <3>2, <3>3
  <2>2. CASE ~anew /\ rateStart = 0
    <3>1. from = time
      BY <2>2 DEF WindowCounts, StartTells
    <3> QED
      BY <2>2, <3>1 DEF Rate!Start
  <2>3. CASE ~anew /\ rateStart # 0 /\ rateOpened # None /\ rateStart = Rate!Low(rateOpened)
    BY <2>3 DEF Rate!Start
  <2>4. CASE ~anew /\ rateStart # 0 /\ rateFirst # None /\ rateStart = Rate!Encoded(rateFirst)
    <3>1. rateSeen # 0 /\ rateSeen \in Nat
      BY <2>4 DEF WindowCounts, RateTypes
    <3>2. seen # 1
      BY <2>4, <3>1
    <3> QED
      BY <2>4, <3>2 DEF Rate!Start
  <2> QED
    BY <2>1, <2>2, <2>3, <2>4 DEF WindowCounts, StartTells
<1>7. elapsed \in Nat /\ (elapsed # 0 => \/ begun # None /\ elapsed = time - begun + 1
                                        \/ elapsed = time - from)
  <2>1. CASE begun # None /\ code = Rate!Low(begun) /\ code # 0
    <3>1. elapsed \in {0, time - begun + 1}
      BY <2>1, <1>0, <1>4, FromOpening
    <3> HIDE DEF elapsed, begun, time, from, code
    <3> QED
      BY <2>1, <3>1, <1>0, <1>4
  <2>2. CASE code = Rate!Encoded(from)
    <3>1. elapsed = time - from
      BY <2>2, <1>0, <1>3, FromFirst
    <3> HIDE DEF elapsed, begun, time, from, code
    <3> QED
      BY <3>1, <1>0, <1>3
  <2> QED
    BY <1>6, <2>1, <2>2
<1>8. code \in 0 .. ClockWord - 1
  <2>1. begun # None => begun \in Int
    BY <1>4
  <2> HIDE DEF time, code, begun, from
  <2> QED
    BY <2>1, <1>5, <1>6, LowIs
<1> HIDE DEF time, code, total, elapsed, seen, begun, from
<1>9. StartTells'
  <2>1. CASE published
    <3>1. rateStart' = Rate!Low(time) /\ rateOpened' = time /\ rateOpened' # None /\ rateFirst' = None
      BY <1>0, <1>1, <2>1
    <3> QED
      BY <3>1 DEF StartTells, Rate!Low
  <2>2. CASE ~published
    <3>1. rateStart' = code /\ rateOpened' = begun /\ rateFirst' = from /\ rateFirst' # None
      BY <1>0, <1>1, <1>3, <2>2
    <3>2. CASE begun # None /\ code = Rate!Low(begun) /\ code # 0
      BY <3>1, <3>2 DEF StartTells, Rate!Low
    <3>3. CASE code = Rate!Encoded(from)
      BY <3>1, <3>3 DEF StartTells, Rate!Low, Rate!Encoded
    <3> QED
      BY <1>6, <3>2, <3>3
  <2> QED
    BY <2>1, <2>2
<1>10. Rate!RateIsMeasured'
  <2>1. CASE published
    <3>1. elapsed # 0
      BY <2>1, <1>0, <1>7
    <3>2. PICK s \in {begun, from} \ {None} : elapsed - (time - s) \in {0, 1}
      <4>1. CASE begun # None /\ elapsed = time - begun + 1
        BY <4>1, <1>0, <1>4
      <4>2. CASE elapsed = time - from
        <5>1. from \in {begun, from} \ {None} /\ elapsed - (time - from) = 0
          BY <4>2, <1>0, <1>3
        <5> QED
          BY <5>1
      <4> QED
        BY <3>1, <1>7, <4>1, <4>2
    <3>3. rateTold' = [count |-> total, elapsed |-> elapsed, n |-> seen,
                   times |-> {time - u : u \in {begun, from} \ {None}}]
      BY <1>1, <2>1
    <3>4. rateTold'.count = rateTold'.n /\ rateTold'.elapsed = elapsed /\ time - s \in rateTold'.times
      BY <3>3, <1>2, <3>2
    <3> QED
      BY <3>2, <3>4 DEF Rate!RateIsMeasured
  <2>2. CASE ~published
    BY <1>1, <2>2 DEF Rate!RateIsMeasured
  <2> QED
    BY <2>1, <2>2
<1>11. /\ rateStart' \in 0 .. ClockWord - 1 /\ rateEvents' = rateSeen' /\ rateSeen' \in Nat
       /\ rateOpened' \in Nat \cup {None} /\ rateFirst' \in Nat \cup {None}
       /\ rateOpened' # None => rateOpened' <= time
       /\ rateFirst' # None => rateFirst' <= time
       /\ rateOpened' # None \/ rateFirst' # None
       /\ rateSeen' = 0 <=> rateFirst' = None
  <2>1. CASE published
    <3>1. rateStart' = Rate!Low(time) /\ rateEvents' = 0 /\ rateSeen' = 0 /\ rateOpened' = time /\ rateFirst' = None
      BY <1>1, <2>1
    <3> QED
      BY <3>1, <1>0, <1>5
  <2>2. CASE ~published
    <3>1. rateStart' = code /\ rateEvents' = total /\ rateSeen' = seen /\ rateOpened' = begun /\ rateFirst' = from
      BY <1>1, <2>2
    <3> QED
      BY <3>1, <1>0, <1>2, <1>3, <1>4, <1>8
  <2> QED
    BY <2>1, <2>2
<1>12. rateClock' = rateClock + wait /\ rateClock' = time /\ rateClock' \in Nat /\ rateOf' = rateOf
  BY <1>0, <1>1 DEF time
<1> QED
  BY <1>9, <1>10, <1>11, <1>12

LEMMA RateStep ==
  ASSUME RateConstants, WindowCounts, Rate!Next
  PROVE  WindowCounts'
<1>1. PICK wait \in ClockWaits : /\ \A from \in {rateOpened, rateFirst} \ {None} : rateClock + wait - from < ClockWord
                            /\ \/ Rate!RecordFrame(rateClock + wait)
                               \/ Rate!RecordLogic(rateClock + wait)
                               \/ Rate!RecordDisplayRelease(rateClock + wait)
  BY DEF Rate!Next
<1>2. /\ rateLast \in 0 .. ClockWord - 1 /\ rateOf \in {"frames", "updates", "displayed"}
      /\ rateLast # 0 => rateOf = "frames"
  BY DEF WindowCounts, RateTypes
<1>3. PICK anew \in BOOLEAN : /\ Rate!Record(rateClock + wait, anew, anew)
                              /\ \/ rateLast' = Rate!Low(rateClock + wait) /\ rateOf = "frames"
                                 \/ rateLast' = rateLast /\ rateOf # "frames"
  <2>1. CASE Rate!RecordFrame(rateClock + wait)
    <3> DEFINE interrupted == rateLast # 0 /\ (rateClock + wait) - rateClock > PauseGap
    <3>1. Rate!Paused(rateClock + wait) <=> interrupted
      BY <1>1, PauseSeen
    <3>2. Rate!Record(rateClock + wait, Rate!Paused(rateClock + wait), interrupted) /\ rateLast' = Rate!Low(rateClock + wait) /\ rateOf = "frames"
      BY <2>1 DEF Rate!RecordFrame
    <3>3. Rate!Paused(rateClock + wait) \in BOOLEAN /\ interrupted \in BOOLEAN
      BY DEF Rate!Paused
    <3> HIDE DEF interrupted
    <3> QED
      BY <3>1, <3>2, <3>3
  <2>2. CASE Rate!RecordLogic(rateClock + wait)
    BY <2>2 DEF Rate!RecordLogic
  <2>3. CASE Rate!RecordDisplayRelease(rateClock + wait)
    BY <2>3 DEF Rate!RecordDisplayRelease
  <2> QED
    BY <1>1, <2>1, <2>2, <2>3
<1>4. /\ rateStart' \in 0 .. ClockWord - 1 /\ rateEvents' \in Nat /\ rateSeen' \in Nat /\ rateOf' = rateOf
      /\ rateOpened' \in Nat \cup {None} /\ rateFirst' \in Nat \cup {None}
      /\ rateClock' = rateClock + wait /\ rateClock' \in Nat
      /\ rateOpened' # None => rateOpened' <= rateClock'
      /\ rateFirst' # None => rateFirst' <= rateClock'
      /\ rateOpened' # None \/ rateFirst' # None
      /\ StartTells'
      /\ rateEvents' = rateSeen' /\ (rateSeen' = 0 <=> rateFirst' = None)
      /\ Rate!RateIsMeasured'
  BY <1>1, <1>3, RecordCounts
<1>5. rateLast' \in 0 .. ClockWord - 1 /\ (rateLast' # 0 => rateLast' = Rate!Low(rateClock') /\ rateOf = "frames")
  <2>1. rateClock + wait \in Int
    BY <1>4
  <2>2. Rate!Low(rateClock + wait) \in 0 .. ClockWord - 1
    BY <2>1, LowIs
  <2>3. CASE rateLast' = Rate!Low(rateClock + wait) /\ rateOf = "frames"
    BY <1>4, <2>2, <2>3
  <2>4. CASE rateLast' = rateLast /\ rateOf # "frames"
    BY <1>2, <2>4
  <2> QED
    BY <1>3, <2>3, <2>4
<1> QED
  BY <1>2, <1>4, <1>5 DEF WindowCounts, RateTypes

\* Whatever the clock shows first and whenever its low word wraps, a published
\* rate is the number of events since its window was begun, over the time since
\* then or since its first event, to a microsecond (record_frame_sample,
\* raylib_lite_runtime_stats.c).
THEOREM RatesAreMeasured == RateConstants => (Rate!Spec => []Rate!RateIsMeasured)
<1> SUFFICES ASSUME RateConstants PROVE Rate!Spec => []Rate!RateIsMeasured
  OBVIOUS
<1>1. Rate!Init => WindowCounts
  BY DEF Rate!Init, RateConstants, WindowCounts, RateTypes, StartTells, Rate!RateIsMeasured
<1>2. WindowCounts /\ [Rate!Next]_Rate!vars => WindowCounts'
  <2>1. ASSUME WindowCounts, UNCHANGED Rate!vars PROVE WindowCounts'
    BY <2>1 DEF Rate!vars, WindowCounts, RateTypes, StartTells, Rate!RateIsMeasured, Rate!Low, Rate!Encoded
  <2> QED
    BY <2>1, RateStep
<1>3. WindowCounts => Rate!RateIsMeasured
  BY DEF WindowCounts
<1> QED
  BY <1>1, <1>2, <1>3, PTL DEF Rate!Spec

(***************************************************************************)
(* The video of the preview host                                           *)
(***************************************************************************)

\* A frame is out only while the module renders, and then it is that of the
\* backend; a drawing that is open belongs to the call that is under way.
HostInductive ==
  /\ port \in [on : BOOLEAN, frame : HostFrames \cup {None}]
  /\ token \in Nat /\ generation \in Nat /\ rendering \in BOOLEAN /\ drawing \in BOOLEAN
  /\ target \in Targets \cup {None}
  /\ ~rendering => target = None /\ token = 0
  /\ drawing => rendering
  /\ Host!DrawsIntoTarget

LEMMA HostInit ==
  ASSUME HostConstants, Host!Init
  PROVE  HostInductive
BY DEF HostConstants, Host!Init, HostInductive, Host!DrawsIntoTarget, Host!Off

LEMMA StepKeepsHost ==
  ASSUME HostConstants, HostInductive, [Host!Next]_Host!vars
  PROVE  HostInductive'
<1> USE DEF HostConstants, HostInductive, Host!DrawsIntoTarget, HostFrames
<1>1. CASE \E t \in Targets, s \in Strides : Host!RenderBegins(t, s)
  <2>1. PICK t \in Targets, s \in Strides : Host!RenderBegins(t, s)
    BY <1>1
  <2>2. port' \in [on : BOOLEAN, frame : {None}] /\ target' = t /\ token' = 0 /\ rendering' = TRUE
        /\ drawing' = FALSE /\ UNCHANGED generation
    BY <2>1 DEF Host!RenderBegins
  <2> QED
    BY <2>2
<1>2. CASE Host!BeginDrawing
  <2>1. UNCHANGED <<target, rendering>> /\ drawing' = rendering
    BY <1>2 DEF Host!BeginDrawing
  <2>2. CASE pixels' = None /\ UNCHANGED <<token, generation, port>>
    BY <2>1, <2>2
  <2>3. CASE /\ port.frame = None /\ target # None /\ generation' = generation + 1 /\ token' = generation'
             /\ port' = [port EXCEPT !.frame = [token |-> token', pixels |-> target]] /\ pixels' = target
    <3>1. token' \in Nat /\ token' # 0 /\ generation' \in Nat /\ target \in Targets /\ rendering
      BY <2>3
    <3>2. [token |-> token', pixels |-> target] \in HostFrames
      BY <3>1
    <3>3. port' = [on |-> port.on, frame |-> [token |-> token', pixels |-> target]]
      BY <2>3
    <3> QED
      BY <2>1, <2>3, <3>1, <3>2, <3>3
  <2> QED
    BY <1>2, <2>2, <2>3 DEF Host!BeginDrawing
<1>3. CASE Host!EndDrawing
  <2>1. UNCHANGED <<target, generation, rendering>> /\ drawing' = FALSE
    BY <1>3 DEF Host!EndDrawing
  <2>2. CASE UNCHANGED <<port, token>>
    BY <2>1, <2>2
  <2>3. CASE port' = [port EXCEPT !.frame = None] /\ token' = 0
    <3>1. port' = [on |-> port.on, frame |-> None]
      BY <2>3
    <3> QED
      BY <2>1, <2>3, <3>1
  <2> QED
    BY <1>3, <2>2, <2>3 DEF Host!EndDrawing
<1>4. CASE Host!RenderReturns
  BY <1>4 DEF Host!RenderReturns, Host!Withdrawn
<1>5. CASE Host!Destroy
  BY <1>5 DEF Host!Destroy, Host!Off
<1>6. CASE UNCHANGED Host!vars
  BY <1>6 DEF Host!vars
<1> QED
  BY <1>1, <1>2, <1>3, <1>4, <1>5, <1>6 DEF Host!Next

\* Whatever an earlier call of the module left open, it draws into the buffer
\* of this one, and no buffer is lent when a call has returned.
THEOREM HostDrawsIntoTarget == HostConstants => (Host!Spec => []Host!DrawsIntoTarget)
<1> SUFFICES ASSUME HostConstants PROVE Host!Spec => []Host!DrawsIntoTarget
  OBVIOUS
<1>1. Host!Init => HostInductive
  BY HostInit
<1>2. HostInductive /\ [Host!Next]_Host!vars => HostInductive'
  BY StepKeepsHost
<1>3. HostInductive => Host!DrawsIntoTarget
  BY DEF HostInductive
<1> QED
  BY <1>1, <1>2, <1>3, PTL DEF Host!Spec

(***************************************************************************)
(* The board of the ESP32-S3-BOX-3                                         *)
(***************************************************************************)

BoardTypes ==
  /\ boardPc \in {"returned", "run", "audio", "stop", "wait", "video", "manager", "release"}
  /\ claimed \in BOOLEAN /\ manager \in BOOLEAN /\ video \in BOOLEAN /\ queue \in BOOLEAN
  /\ sampling \in BOOLEAN /\ task \in BOOLEAN
  /\ locks \subseteq Board!Locks /\ worker \in {"none", "loop", "gave"} /\ audio \in {"off", "on", "joined"}
  /\ codec \in [handle : BOOLEAN, open : BOOLEAN, ready : BOOLEAN]

\* What each stage of the cleanup finds done.
Cleaned ==
  /\ boardPc # "returned" => claimed
  /\ boardPc = "run" => manager /\ video /\ queue
  /\ boardPc \in {"stop", "wait", "video", "manager", "release"} => audio = "off"
  /\ boardPc \in {"video", "manager", "release"} => worker = "none"
  /\ boardPc \in {"manager", "release"} => ~video
  /\ boardPc = "release" => ~manager

BoardInductive ==
  /\ BoardTypes /\ Cleaned /\ Board!UsersHaveTheirBoard
  /\ task <=> worker # "none"
  /\ queue => locks = Board!Locks
  /\ audio = "off" => codec = Board!Closed

Codecs == [handle : BOOLEAN, open : BOOLEAN, ready : BOOLEAN]
Sound(dac) == (dac.open => dac.handle) /\ (dac.handle => dac.ready)

LEMMA ClosedCodec ==
  /\ Board!Closed \in Codecs /\ Sound(Board!Closed)
  /\ ~Board!Closed.ready /\ ~Board!Closed.open /\ ~Board!Closed.handle
BY DEF Board!Closed, Codecs, Sound

\* What the two calls of the codec leave.
LEMMA CodecReleased ==
  ASSUME codec \in Codecs, Sound(codec), NEW ok, Board!ReleaseDac(ok)
  PROVE  /\ codec' \in Codecs /\ Sound(codec')
         /\ ok => codec' = Board!Closed
         /\ ~ok => codec.ready
<1>1. CASE codec.open /\ ~ok /\ UNCHANGED codec
  BY <1>1 DEF Sound
<1>2. CASE codec.ready /\ ~ok /\ codec' = Board!Closing
  <2>1. codec' = [handle |-> FALSE, open |-> FALSE, ready |-> codec.ready]
    BY <1>2 DEF Board!Closing, Codecs
  <2> QED
    BY <1>2, <2>1 DEF Codecs, Sound
<1>3. CASE ok /\ codec' = Board!Closed
  BY <1>3, ClosedCodec
<1> QED
  BY <1>1, <1>2, <1>3 DEF Board!ReleaseDac

LEMMA CodecStarted ==
  ASSUME NEW ok, Board!Started(codec', ok)
  PROVE  codec' \in Codecs /\ Sound(codec') /\ (ok => codec'.open)
<1>1. CASE ~ok /\ codec' = Board!Closed
  BY <1>1, ClosedCodec
<1>2. CASE ~ok /\ codec' \in [handle : BOOLEAN, open : {FALSE}, ready : {TRUE}]
  BY <1>2 DEF Codecs, Sound
<1>3. CASE codec' = [handle |-> TRUE, open |-> TRUE, ready |-> TRUE]
  BY <1>3 DEF Codecs, Sound
<1> QED
  BY <1>1, <1>2, <1>3 DEF Board!Started

LEMMA StepKeepsBoard ==
  ASSUME BoardInductive, [Board!Next]_Board!vars
  PROVE  BoardInductive'
<1> USE DEF BoardInductive, BoardTypes, Cleaned, Board!UsersHaveTheirBoard, Board!Closed, Board!To, Board!Refused, Board!board, Board!input
<1>1. CASE Board!Create
  BY <1>1 DEF Board!Create, Board!Locks
<1>2. CASE Board!StartInput
  <2> USE <1>2 DEF Board!StartInput
  <2>1. BoardTypes'
    OBVIOUS
  <2>2. Cleaned'
    OBVIOUS
  <2>3. Board!UsersHaveTheirBoard'
    OBVIOUS
  <2>4. (task <=> worker # "none")' /\ (queue => locks = Board!Locks)' /\ (audio = "off" => codec = Board!Closed)'
    OBVIOUS
  <2> QED
    BY <2>1, <2>2, <2>3, <2>4
<1>3. CASE Board!WorkerEnds
  BY <1>3 DEF Board!WorkerEnds
<1>14. codec \in Codecs /\ Sound(codec)
  BY DEF Codecs, Sound
<1> DEFINE SameBoard == UNCHANGED <<claimed, manager, video, locks, queue, sampling, task, worker>>
<1> DEFINE CodecGoesOn(ok) ==
             codec' \in Codecs /\ Sound(codec') /\ audio' \in {"off", "on", "joined"}
             /\ (audio' = "on" => codec'.open) /\ (audio' = "off" => codec' = Board!Closed)
<1>15. ASSUME SameBoard, claimed, manager, CodecGoesOn(TRUE), boardPc' \in {"run", "audio", "stop", "returned"},
              boardPc' = "run" => boardPc = "run", boardPc' = "stop" => audio' = "off"
       PROVE  BoardInductive'
  <2> USE <1>15
  <2>1. BoardTypes'
    BY DEF Codecs
  <2>2. Cleaned'
    OBVIOUS
  <2>3. Board!UsersHaveTheirBoard'
    BY DEF Sound
  <2>4. (task <=> worker # "none")' /\ (queue => locks = Board!Locks)' /\ (audio = "off" => codec = Board!Closed)'
    OBVIOUS
  <2> QED
    BY <2>1, <2>2, <2>3, <2>4
<1>4. CASE Board!StartAudio
  <2>1. PICK ok \in BOOLEAN :
          /\ IF codec.handle \/ codec.ready THEN ~ok /\ UNCHANGED codec ELSE Board!Started(codec', ok)
          /\ audio' = IF ok THEN "on" ELSE "joined"
    BY <1>4 DEF Board!StartAudio
  <2>2. SameBoard /\ claimed /\ manager /\ boardPc = "run" /\ boardPc' = "run"
    BY <1>4 DEF Board!StartAudio
  <2>3. CASE ~ok /\ UNCHANGED codec
    BY <1>14, <1>15, <2>1, <2>2, <2>3
  <2>4. CASE Board!Started(codec', ok)
    <3>1. codec' \in Codecs /\ Sound(codec') /\ (ok => codec'.open)
      BY <2>4, CodecStarted
    <3> QED
      BY <1>15, <2>1, <2>2, <3>1
  <2> QED
    BY <2>1, <2>3, <2>4
<1>5. CASE Board!StopAudio
  <2>1. PICK ok \in BOOLEAN : Board!ReleaseDac(ok) /\ audio' = IF ok THEN "off" ELSE "joined"
    BY <1>5 DEF Board!StopAudio
  <2>2. SameBoard /\ claimed /\ manager /\ boardPc = "run" /\ boardPc' = "run"
    BY <1>5 DEF Board!StopAudio
  <2>3. codec' \in Codecs /\ Sound(codec') /\ (ok => codec' = Board!Closed)
    BY <1>14, <2>1, CodecReleased
  <2> QED
    BY <1>15, <2>1, <2>2, <2>3
<1>6. CASE Board!EndRun
  BY <1>6 DEF Board!EndRun
<1>7. CASE Board!ShutAudio
  <2>1. SameBoard /\ claimed /\ boardPc = "audio"
    BY <1>7 DEF Board!ShutAudio
  <2>2. CASE audio = "off" /\ Board!To("stop") /\ UNCHANGED <<audio, codec>>
    BY <1>14, <2>1, <2>2
  <2>3. CASE audio = "on" /\ Board!Refused /\ UNCHANGED <<audio, codec>>
    <3>1. manager /\ boardPc' \in {"audio", "returned"}
      BY <2>3
    <3> QED
      BY <1>14, <1>15, <2>1, <2>3, <3>1
  <2>4. CASE audio # "off" /\ Board!ReleaseDac(TRUE) /\ audio' = "off" /\ Board!To("stop")
    <3>1. codec' = Board!Closed /\ boardPc' = "stop"
      BY <1>14, <2>4, CodecReleased
    <3>2. BoardTypes'
      BY <2>1, <2>4, <3>1, ClosedCodec DEF Codecs
    <3>3. Board!UsersHaveTheirBoard'
      BY <2>1, <2>4, <3>1, ClosedCodec
    <3> QED
      BY <2>1, <2>4, <3>1, <3>2, <3>3
  <2>5. CASE audio # "off" /\ Board!ReleaseDac(FALSE) /\ audio' = "joined" /\ Board!Refused
    <3>1. codec' \in Codecs /\ Sound(codec') /\ codec.ready
      BY <1>14, <2>5, CodecReleased
    <3>2. manager /\ boardPc' \in {"audio", "returned"}
      BY <2>5, <3>1
    <3> QED
      BY <1>15, <2>1, <2>5, <3>1, <3>2
  <2> QED
    BY <1>7, <2>2, <2>3, <2>4, <2>5 DEF Board!ShutAudio
<1>8. CASE Board!Stop
  BY <1>8 DEF Board!Stop
<1>9. CASE Board!Wait
  <2> USE <1>9 DEF Board!Wait, Board!TimedOut
  <2>1. BoardTypes'
    OBVIOUS
  <2>2. Cleaned'
    OBVIOUS
  <2>3. Board!UsersHaveTheirBoard'
    OBVIOUS
  <2>4. (task <=> worker # "none")' /\ (queue => locks = Board!Locks)' /\ (audio = "off" => codec = Board!Closed)'
    OBVIOUS
  <2> QED
    BY <2>1, <2>2, <2>3, <2>4
<1>10. CASE Board!CloseVideo
  BY <1>10 DEF Board!CloseVideo
<1>11. CASE Board!DeinitManager
  BY <1>11 DEF Board!DeinitManager
<1>12. CASE Board!Release
  BY <1>12 DEF Board!Release, Board!Locks
<1>13. CASE UNCHANGED Board!vars
  BY <1>13 DEF Board!vars
<1> QED
  BY <1>1, <1>2, <1>3, <1>4, <1>5, <1>6, <1>7, <1>8, <1>9, <1>10, <1>11, <1>12, <1>13 DEF Board!Next

\* Whatever fails or times out, no task outlives what it uses, and a board
\* that is not claimed has left nothing behind.
THEOREM BoardOutlivesItsUsers == Board!Spec => []Board!UsersHaveTheirBoard
<1>1. Board!Init => BoardInductive
  <2> SUFFICES ASSUME Board!Init PROVE BoardInductive
    OBVIOUS
  <2> USE DEF Board!Init
  <2>1. BoardTypes
    BY DEF BoardTypes, Board!Closed, Board!Locks
  <2>2. Cleaned
    BY DEF Cleaned
  <2>3. Board!UsersHaveTheirBoard
    BY DEF Board!UsersHaveTheirBoard, Board!Closed
  <2>4. task <=> worker # "none"
    OBVIOUS
  <2> QED
    BY <2>1, <2>2, <2>3, <2>4 DEF BoardInductive
<1>2. BoardInductive /\ [Board!Next]_Board!vars => BoardInductive'
  BY StepKeepsBoard
<1>3. BoardInductive => Board!UsersHaveTheirBoard
  BY DEF BoardInductive
<1> QED
  BY <1>1, <1>2, <1>3, PTL DEF Board!Spec

(***************************************************************************)
(* The asset store                                                         *)
(***************************************************************************)
\* A set of numbers has a least one.
LEMMA LeastExists ==
  ASSUME NEW n \in Nat, NEW S \in SUBSET (1 .. n), S # {}
  PROVE  \E i \in S : \A j \in S : i <= j
<1> DEFINE Below == {1 .. i : i \in S}
<1>1. IsWellFoundedOn(StrictSubsetOrdering(1 .. n), SUBSET (1 .. n))
  <2>1. 1 \in Int /\ n \in Int
    OBVIOUS
  <2>2. IsFiniteSet(1 .. n)
    BY <2>1, FS_Interval, Zenon
  <2> QED
    BY <2>2, FS_FiniteSubsetsOfFinite, FS_StrictSubsetOrderingWellFounded
<1>2. Below \subseteq SUBSET (1 .. n) /\ Below # {}
  <2>1. \A i \in S : 1 .. i \subseteq 1 .. n
    OBVIOUS
  <2> QED
    BY <2>1
<1>3. PICK low \in Below : \A b \in Below : <<b, low>> \notin StrictSubsetOrdering(1 .. n)
  <2> HIDE DEF Below
  <2> QED
    BY <1>1, <1>2, WFMin
<1>4. PICK i \in S : low = 1 .. i
  OBVIOUS
<1>5. ASSUME NEW j \in S, j < i PROVE FALSE
  <2>1. 1 .. j \in Below /\ 1 .. j \subseteq 1 .. i /\ i \in 1 .. i /\ i \notin 1 .. j
    BY <1>5
  <2>2. <<1 .. j, low>> \in StrictSubsetOrdering(1 .. n)
    BY <1>2, <1>4, <2>1 DEF StrictSubsetOrdering
  <2> QED
    BY <1>3, <2>1, <2>2
<1> QED
  BY <1>5


AssetTypes ==
  /\ mmap \in Seq(AssetNames)
  /\ backing \in [form : {"none", "image", "reader"}, entries : Seq(Entry)]
  /\ heap \in [Addr -> AssetNames \cup {"toc", None}]
  /\ registered \in SUBSET AssetNames
  /\ view \in [Views -> Held \cup {None}]

\* Without a mount there are no entries.
Backed == backing.form = "none" => backing.entries = <<>>

\* No two entries share a copy, and a view of the heap is a view of an entry's copy.
Owned ==
  /\ \A i, j \in DOMAIN backing.entries :
       i # j /\ backing.entries[i].buf # None => backing.entries[i].buf # backing.entries[j].buf
  /\ \A v \in Views : view[v] # None /\ view[v].at \in Addr =>
       \E i \in DOMAIN backing.entries : backing.entries[i].buf = view[v].at /\ backing.entries[i].name = view[v].name

\* How many views there are of an address, and what the leases of one entry amount to.
Holding == [b \in Addr |-> Cardinality(Store!Holders(b))]
Matched(i) ==
  LET e == backing.entries[i] IN
  /\ e.refs = IF e.buf = None THEN 0 ELSE Holding[e.buf]
  /\ e.buf # None => e.refs > 0 /\ heap[e.buf] = e.name

AssetInductive ==
  /\ AssetTypes /\ Backed /\ Owned
  /\ \A i \in DOMAIN backing.entries : Matched(i)

LEMMA Counted == \A S : Store!Cardinality(S) = Cardinality(S)
BY DEF Store!Cardinality, Cardinality

LEMMA LeasesFollow == AssetConstants /\ AssetInductive => Store!LeasesMatchViews
<1> SUFFICES ASSUME AssetConstants, AssetInductive PROVE Store!LeasesMatchViews
  OBVIOUS
<1>1. ASSUME NEW i \in DOMAIN backing.entries
      PROVE  LET e == backing.entries[i] IN
             /\ e.refs = IF e.buf = None THEN 0 ELSE Cardinality(Store!Holders(e.buf))
             /\ e.buf # None => e.refs > 0 /\ heap[e.buf] = e.name
  <2>1. backing.entries[i] \in Entry /\ Matched(i)
    BY DEF AssetInductive, AssetTypes
  <2>2. backing.entries[i].buf \in Addr \cup {None}
    BY <2>1 DEF Entry
  <2> QED
    BY <2>1, <2>2 DEF Matched, Holding
<1>2. ASSUME NEW v \in Views, view[v] # None, view[v].at \in Addr
      PROVE  heap[view[v].at] = view[v].name
  <2>1. PICK i \in DOMAIN backing.entries : backing.entries[i].buf = view[v].at /\ backing.entries[i].name = view[v].name
    BY <1>2 DEF AssetInductive, Owned
  <2> QED
    BY <1>2, <2>1 DEF AssetConstants, AssetInductive, Matched
<1> QED
  BY <1>1, <1>2, Counted DEF Store!LeasesMatchViews

\* Where a key and an address are found among the entries.
Named(key) == {i \in 1 .. Len(backing.entries) : backing.entries[i].name \in key}
Copied(a) == {i \in 1 .. Len(backing.entries) : backing.entries[i].buf = a}

LEMMA FirstIsOne ==
  ASSUME NEW n \in Nat, NEW S \in SUBSET (1 .. n), S # {}
  PROVE  Store!Min(S) \in S
<1>1. \E i \in S : \A j \in S : i <= j
  BY LeastExists
<1> QED
  BY <1>1 DEF Store!Min

LEMMA FileFound ==
  ASSUME AssetTypes, NEW key, Store!FileOf(key) # 0
  PROVE  Store!FileOf(key) \in DOMAIN mmap
<1> DEFINE S == {i \in 1 .. Len(mmap) : mmap[i] \in key}
<1>1. Store!FileOf(key) = IF S # {} THEN Store!Min(S) ELSE 0
  BY DEF Store!FileOf, Store!SelectInSeq
<1>2. S \subseteq 1 .. Len(mmap) /\ DOMAIN mmap = 1 .. Len(mmap) /\ Len(mmap) \in Nat
  BY DEF AssetTypes
<1> QED
  BY <1>1, <1>2, FirstIsOne

LEMMA EntryFound ==
  ASSUME AssetTypes, NEW key, Store!EntryOf(key) # 0
  PROVE  Store!EntryOf(key) \in DOMAIN backing.entries
<1>1. Store!EntryOf(key) = IF Named(key) # {} THEN Store!Min(Named(key)) ELSE 0
  BY DEF Store!EntryOf, Store!SelectInSeq, Named
<1>2. /\ Named(key) \subseteq 1 .. Len(backing.entries)
      /\ DOMAIN backing.entries = 1 .. Len(backing.entries) /\ Len(backing.entries) \in Nat
  BY DEF AssetTypes, Named
<1> QED
  BY <1>1, <1>2, FirstIsOne

\* What a lease changes.
LEMMA EntryChanged ==
  ASSUME AssetTypes, NEW i \in DOMAIN backing.entries, NEW a \in Addr \cup {None}, NEW n \in Nat,
         backing' = Store!Lent(i, a, n)
  PROVE  /\ backing' \in [form : {"none", "image", "reader"}, entries : Seq(Entry)]
         /\ backing'.form = backing.form /\ DOMAIN backing'.entries = DOMAIN backing.entries
         /\ backing'.entries[i].name = backing.entries[i].name
         /\ backing'.entries[i].buf = a /\ backing'.entries[i].refs = n
         /\ \A j \in DOMAIN backing.entries : j # i => backing'.entries[j] = backing.entries[j]
<1> DEFINE e == [name |-> backing.entries[i].name, buf |-> a, refs |-> n]
           rest == [backing.entries EXCEPT ![i] = e]
<1>1. backing.entries[i] \in Entry /\ backing.entries \in Seq(Entry)
  BY DEF AssetTypes
<1>2. e \in Entry /\ e.name = backing.entries[i].name /\ e.buf = a /\ e.refs = n
  BY <1>1 DEF Entry
<1>3. backing' = [backing EXCEPT !.entries[i] = e]
  BY DEF Store!Lent
<1> HIDE DEF e
<1>4. rest \in Seq(Entry) /\ DOMAIN rest = DOMAIN backing.entries /\ rest[i] = e
      /\ \A j \in DOMAIN backing.entries : j # i => rest[j] = backing.entries[j]
  BY <1>1, <1>2
<1>5. backing' = [form |-> backing.form, entries |-> rest]
  <2>1. backing' = [backing EXCEPT !.entries = rest]
    BY <1>3
  <2> QED
    BY <2>1 DEF AssetTypes
<1> HIDE DEF rest
<1> QED
  BY <1>2, <1>4, <1>5 DEF AssetTypes

\* One more or one less lease leaves every name and copy as it was.
LEMMA CopiesStay ==
  ASSUME AssetTypes, NEW i \in DOMAIN backing.entries, backing.entries[i].buf \in Addr \cup {None}, NEW n \in Nat,
         backing' = Store!Lent(i, backing.entries[i].buf, n)
  PROVE  /\ DOMAIN backing'.entries = DOMAIN backing.entries
         /\ \A j \in DOMAIN backing.entries : backing'.entries[j].name = backing.entries[j].name
                                             /\ backing'.entries[j].buf = backing.entries[j].buf
<1>1. /\ DOMAIN backing'.entries = DOMAIN backing.entries
      /\ backing'.entries[i].name = backing.entries[i].name /\ backing'.entries[i].buf = backing.entries[i].buf
      /\ \A j \in DOMAIN backing.entries : j # i => backing'.entries[j] = backing.entries[j]
  BY EntryChanged, Zenon
<1>2. ASSUME NEW j \in DOMAIN backing.entries
      PROVE  backing'.entries[j].name = backing.entries[j].name /\ backing'.entries[j].buf = backing.entries[j].buf
  <2>1. CASE j = i
    BY <1>1, <2>1
  <2>2. CASE j # i
    BY <1>1, <2>2
  <2> QED
    BY <2>1, <2>2
<1> QED
  BY <1>1, <1>2, Zenon

\* A view that is taken, and one that is given back.
LEMMA ViewTaken ==
  ASSUME AssetConstants, AssetTypes, NEW v \in Views, view[v] = None, NEW r \in Held,
         view'[v] = r, \A w \in Views : w # v => view'[w] = view[w]
  PROVE  \A b \in Addr : Holding'[b] = IF r.at = b THEN Holding[b] + 1 ELSE Holding[b]
<1>1. ASSUME NEW b \in Addr PROVE Holding'[b] = IF r.at = b THEN Holding[b] + 1 ELSE Holding[b]
  <2>1. v \notin Store!Holders(b) /\ Store!Holders(b) \in SUBSET Views /\ r # None
    BY DEF Store!Holders, AssetConstants
  <2>2. Store!Holders(b)' = IF r.at = b THEN Store!Holders(b) \cup {v} ELSE Store!Holders(b)
    BY <2>1 DEF Store!Holders
  <2>3. IsFiniteSet(Store!Holders(b))
    BY <2>1, FS_Subset DEF AssetConstants
  <2>4. Cardinality(Store!Holders(b) \cup {v}) = Cardinality(Store!Holders(b)) + 1
    BY <2>1, <2>3, FS_AddElement
  <2>5. Holding[b] = Cardinality(Store!Holders(b)) /\ Holding'[b] = Cardinality(Store!Holders(b)')
    BY DEF Holding
  <2> QED
    BY <2>2, <2>4, <2>5
<1> QED
  BY <1>1

LEMMA ViewGivenBack ==
  ASSUME AssetConstants, AssetTypes, NEW v \in Views, view[v] # None,
         view'[v] = None, \A w \in Views : w # v => view'[w] = view[w]
  PROVE  \A b \in Addr : Holding'[b] = IF view[v].at = b THEN Holding[b] - 1 ELSE Holding[b]
<1>1. ASSUME NEW b \in Addr PROVE Holding'[b] = IF view[v].at = b THEN Holding[b] - 1 ELSE Holding[b]
  <2>1. (v \in Store!Holders(b) <=> view[v].at = b) /\ Store!Holders(b) \in SUBSET Views
    BY DEF Store!Holders
  <2>2. Store!Holders(b)' = IF view[v].at = b THEN Store!Holders(b) \ {v} ELSE Store!Holders(b)
    BY <2>1 DEF Store!Holders
  <2>3. IsFiniteSet(Store!Holders(b))
    BY <2>1, FS_Subset DEF AssetConstants
  <2>4. view[v].at = b => Cardinality(Store!Holders(b) \ {v}) = Cardinality(Store!Holders(b)) - 1
    BY <2>1, <2>3, FS_RemoveElement
  <2>5. Holding[b] = Cardinality(Store!Holders(b)) /\ Holding'[b] = Cardinality(Store!Holders(b)')
    BY DEF Holding
  <2> QED
    BY <2>2, <2>4, <2>5
<1> QED
  BY <1>1

LEMMA NobodyHolds ==
  ASSUME AssetConstants, NEW b \in Addr
  PROVE  /\ Holding[b] \in Nat
         /\ Holding[b] = 0 <=> Store!Holders(b) = {}
         /\ Holding[b] = 1 <=> \E v : Store!Holders(b) = {v}
<1>1. Store!Holders(b) \in SUBSET Views
  BY DEF Store!Holders
<1>2. IsFiniteSet(Store!Holders(b))
  BY <1>1, FS_Subset DEF AssetConstants
<1>3. Holding[b] = Cardinality(Store!Holders(b))
  BY DEF Holding
<1> QED
  BY <1>2, <1>3, FS_CardinalityType, FS_EmptySet, FS_Singleton

LEMMA EntryTyped ==
  ASSUME AssetTypes, NEW i \in DOMAIN backing.entries
  PROVE  /\ backing.entries[i] \in Entry
         /\ backing.entries[i].name \in AssetNames /\ backing.entries[i].buf \in Addr \cup {None} /\ backing.entries[i].refs \in Nat
<1>1. backing.entries[i] \in Entry
  BY DEF AssetTypes
<1> QED
  BY <1>1 DEF Entry

LEMMA AssetInit == ASSUME AssetConstants, Store!Init PROVE AssetInductive
BY DEF AssetConstants, Store!Init, Store!Unmounted, AssetInductive, AssetTypes, Backed, Owned

\* What leaves the copies and the leases alone.
LEMMA NothingLeased ==
  ASSUME AssetInductive, mmap' \in Seq(AssetNames), registered' \in SUBSET AssetNames, UNCHANGED <<backing, heap, view>>
  PROVE  AssetInductive'
<1>1. Holding' = Holding
  BY DEF Holding, Store!Holders
<1>2. AssetTypes' /\ Backed' /\ Owned'
  BY DEF AssetInductive, AssetTypes, Backed, Owned
<1>3. \A i \in DOMAIN backing.entries : Matched(i)'
  BY <1>1 DEF AssetInductive, Matched
<1> QED
  BY <1>2, <1>3 DEF AssetInductive

\* What changes one entry: it is leased as often as it is held, the others as before.
LEMMA OneEntryChanges ==
  ASSUME AssetConstants, AssetInductive, NEW i \in DOMAIN backing.entries,
         NEW a \in Addr \cup {None}, NEW n \in Nat, backing' = Store!Lent(i, a, n), UNCHANGED <<mmap, registered>>,
         view' \in [Views -> Held \cup {None}], heap' \in [Addr -> AssetNames \cup {"toc", None}],
         n = IF a = None THEN 0 ELSE Holding'[a],
         a # None => n > 0 /\ heap'[a] = backing.entries[i].name,
         \A j \in DOMAIN backing.entries : j # i /\ backing.entries[j].buf # None =>
           /\ backing.entries[j].buf # a /\ heap'[backing.entries[j].buf] = heap[backing.entries[j].buf]
           /\ Holding'[backing.entries[j].buf] = Holding[backing.entries[j].buf],
         \A w \in Views : view'[w] # None /\ view'[w].at \in Addr =>
           \/ view'[w] = view[w] /\ (view[w].at # backing.entries[i].buf)
           \/ view'[w].at = a /\ view'[w].name = backing.entries[i].name
  PROVE  AssetInductive'
<1> DEFINE entry == backing.entries
<1>1. /\ backing' \in [form : {"none", "image", "reader"}, entries : Seq(Entry)]
      /\ backing'.form = backing.form /\ DOMAIN backing'.entries = DOMAIN entry
      /\ backing'.entries[i].name = backing.entries[i].name
      /\ backing'.entries[i].buf = a /\ backing'.entries[i].refs = n
      /\ \A j \in DOMAIN entry : j # i => backing'.entries[j] = entry[j]
  <2>1. AssetTypes /\ backing' = Store!Lent(i, a, n)
    BY DEF AssetInductive
  <2> QED
    BY ONLY <2>1, EntryChanged
<1>2. AssetTypes /\ Backed /\ Owned /\ \A j \in DOMAIN entry : Matched(j)
  BY DEF AssetInductive
<1>3. AssetTypes'
  <2>1. mmap' = mmap /\ registered' = registered
    OBVIOUS
  <2>2. mmap' \in Seq(AssetNames) /\ registered' \in SUBSET AssetNames
    BY ONLY <1>2, <2>1 DEF AssetTypes
  <2>3. /\ backing' \in [form : {"none", "image", "reader"}, entries : Seq(Entry)]
        /\ view' \in [Views -> Held \cup {None}] /\ heap' \in [Addr -> AssetNames \cup {"toc", None}]
    BY <1>1
  <2> QED
    BY ONLY <2>2, <2>3 DEF AssetTypes
<1>4. Backed'
  <2>1. backing.form # "none"
    BY DEF AssetInductive, Backed
  <2> QED
    BY <1>1, <2>1 DEF Backed
<1>5. Owned'
  <2>1. ASSUME NEW j \in DOMAIN entry, NEW k \in DOMAIN entry, j # k, backing'.entries[j].buf # None
        PROVE  backing'.entries[j].buf # backing'.entries[k].buf
    BY <1>1, <1>2, <2>1 DEF Owned
  <2>2. ASSUME NEW w \in Views, view'[w] # None, view'[w].at \in Addr
        PROVE  \E k \in DOMAIN entry : backing'.entries[k].buf = view'[w].at /\ backing'.entries[k].name = view'[w].name
    <3>1. CASE view'[w] = view[w] /\ (view[w].at # backing.entries[i].buf)
      <4>1. PICK k \in DOMAIN entry : entry[k].buf = view[w].at /\ entry[k].name = view[w].name
        BY <2>2, <3>1 DEF AssetInductive, Owned
      <4>2. k # i
        BY <3>1, <4>1
      <4>3. backing'.entries[k] = entry[k]
        BY <1>1, <4>2
      <4> QED
        BY <3>1, <4>1, <4>3
    <3>2. CASE view'[w].at = a /\ view'[w].name = backing.entries[i].name
      BY <1>1, <1>2, <3>2
    <3> QED
      BY <2>2, <3>1, <3>2
  <2>3. DOMAIN backing'.entries = DOMAIN entry
    BY <1>1
  <2> HIDE DEF entry
  <2> QED
    BY <2>1, <2>2, <2>3 DEF Owned
<1>6. ASSUME NEW j \in DOMAIN entry PROVE Matched(j)'
  <2> DEFINE d == backing'.entries[j]
  <2>1. Matched(j)' <=> /\ d.refs = IF d.buf = None THEN 0 ELSE Holding'[d.buf]
                        /\ d.buf # None => d.refs > 0 /\ heap'[d.buf] = d.name
    BY ONLY DEF Matched
  <2>2. CASE j = i
    <3>1. d.refs = n /\ d.buf = a /\ d.name = backing.entries[i].name
      BY <1>1, <2>2
    <3>2. n = IF a = None THEN 0 ELSE Holding'[a]
      OBVIOUS
    <3>3. a # None => n > 0 /\ heap'[a] = backing.entries[i].name
      OBVIOUS
    <3> HIDE DEF d
    <3> QED
      BY ONLY <2>1, <3>1, <3>2, <3>3
  <2>3. CASE j # i
    <3>1. d = entry[j]
      BY <1>1, <2>3
    <3>2. /\ entry[j].refs = IF entry[j].buf = None THEN 0 ELSE Holding[entry[j].buf]
          /\ entry[j].buf # None => entry[j].refs > 0 /\ heap[entry[j].buf] = entry[j].name
      BY <1>2 DEF Matched
    <3>3. entry[j].buf # None =>
            /\ heap'[entry[j].buf] = heap[entry[j].buf]
            /\ Holding'[entry[j].buf] = Holding[entry[j].buf]
      BY <2>3
    <3> HIDE DEF d, entry
    <3> QED
      BY ONLY <2>1, <3>1, <3>2, <3>3
  <2> QED
    BY <2>2, <2>3
<1> QED
  BY <1>1, <1>3, <1>4, <1>5, <1>6 DEF AssetInductive

\* A free address is nobody's.
LEMMA FreeIsNobodys ==
  ASSUME AssetConstants, AssetInductive, NEW a \in Store!FreeAddr
  PROVE  /\ a \in Addr /\ heap[a] = None /\ Holding[a] = 0
         /\ \A i \in DOMAIN backing.entries : backing.entries[i].buf # a
<1>1. a \in Addr /\ heap[a] = None
  BY DEF Store!FreeAddr
<1>2. ASSUME NEW i \in DOMAIN backing.entries PROVE backing.entries[i].buf # a
  <2>1. Matched(i)
    BY DEF AssetInductive
  <2>2. backing.entries[i] \in Entry
    BY DEF AssetInductive, AssetTypes
  <2>3. backing.entries[i].name # None
    BY <2>2 DEF Entry, AssetConstants
  <2> QED
    BY <1>1, <2>1, <2>3 DEF Matched, AssetConstants
<1>3. Store!Holders(a) = {}
  BY <1>1, <1>2 DEF Store!Holders, AssetInductive, Owned
<1> QED
  BY <1>1, <1>2, <1>3, NobodyHolds

\* What mounts: from no entries to entries without copies.
LEMMA MountKeeps ==
  ASSUME AssetConstants, AssetInductive, NEW p \in Packs,
         Store!MountMmap(p) \/ Store!MountImage(p) \/ Store!MountReader(p)
  PROVE  AssetInductive'
<1>1. backing.entries = <<>> /\ p.files \in Seq(AssetNames)
  <2>1. backing.form = "none"
    BY DEF Store!MountMmap, Store!MountImage, Store!MountReader, Store!Mounted
  <2> QED
    BY <2>1 DEF AssetInductive, Backed, AssetConstants
<1>2. CASE Store!MountMmap(p)
  BY <1>1, <1>2, NothingLeased DEF Store!MountMmap, AssetInductive, AssetTypes
<1>3. Store!Entries(p.files) \in Seq(Entry) /\ \A i \in DOMAIN Store!Entries(p.files) : Store!Entries(p.files)[i].buf = None /\ Store!Entries(p.files)[i].refs = 0
  <2> DEFINE f == p.files
             E(i) == [name |-> f[i], buf |-> None, refs |-> 0]
  <2>1. Len(f) \in Nat /\ DOMAIN f = 1 .. Len(f) /\ \A i \in 1 .. Len(f) : f[i] \in AssetNames
    BY <1>1
  <2>2. Store!Entries(p.files) = [i \in 1 .. Len(f) |-> E(i)]
    BY <2>1 DEF Store!Entries
  <2>3. \A i \in 1 .. Len(f) : E(i) \in Entry /\ E(i).buf = None /\ E(i).refs = 0
    BY <2>1 DEF Entry
  <2> HIDE DEF f, E
  <2> QED
    BY <2>1, <2>2, <2>3
<1>4. ASSUME heap' \in [Addr -> AssetNames \cup {"toc", None}], UNCHANGED <<mmap, registered, view>>,
             \/ UNCHANGED backing
             \/ \E f \in {"image", "reader"} : backing' = [form |-> f, entries |-> Store!Entries(p.files)]
      PROVE  AssetInductive'
  <2>1. \A v \in Views : view[v] = None \/ view[v].at \notin Addr
    BY <1>1 DEF AssetInductive, Owned
  <2>2. CASE UNCHANGED backing
    BY <1>1, <1>4, <2>1, <2>2 DEF AssetInductive, AssetTypes, Backed, Owned
  <2>3. CASE \E f \in {"image", "reader"} : backing' = [form |-> f, entries |-> Store!Entries(p.files)]
    <3>1. PICK f \in {"image", "reader"} : backing' = [form |-> f, entries |-> Store!Entries(p.files)]
      BY <2>3
    <3>2. backing' \in [form : {"none", "image", "reader"}, entries : Seq(Entry)] /\ backing'.form # "none" /\ backing'.entries = Store!Entries(p.files)
      BY <1>3, <3>1
    <3>3. AssetTypes' /\ Backed'
      BY <1>4, <3>2 DEF AssetInductive, AssetTypes, Backed
    <3>4. Owned'
      BY <1>3, <1>4, <2>1, <3>2 DEF Owned
    <3>5. \A i \in DOMAIN backing'.entries : Matched(i)'
      BY <1>3, <3>2 DEF Matched
    <3> QED
      BY <3>3, <3>4, <3>5 DEF AssetInductive
  <2> QED
    BY <1>4, <2>2, <2>3
<1>5. CASE Store!MountImage(p)
  BY <1>4, <1>5 DEF Store!MountImage, AssetInductive, AssetTypes
<1>6. CASE Store!MountReader(p)
  <2>1. PICK a \in Store!FreeAddr :
          \/ heap' = [heap EXCEPT ![a] = "toc"] /\ backing' = [form |-> "reader", entries |-> Store!Entries(p.files)]
          \/ heap' = Store!Abandoned(a) /\ UNCHANGED backing
    BY <1>6 DEF Store!MountReader
  <2>2. heap' \in [Addr -> AssetNames \cup {"toc", None}]
    BY <2>1 DEF Store!Abandoned, AssetInductive, AssetTypes
  <2> QED
    BY <1>4, <1>6, <2>1, <2>2 DEF Store!MountReader
<1> QED
  BY <1>2, <1>5, <1>6

LEMMA UnmountKeeps ==
  ASSUME AssetConstants, AssetInductive, Store!Unmount
  PROVE  AssetInductive'
<1>1. backing' = [form |-> "none", entries |-> <<>>] /\ mmap' = <<>> /\ UNCHANGED <<registered, view>>
  BY DEF Store!Unmount, Store!Unmounted
<1>2. heap' \in [Addr -> AssetNames \cup {"toc", None}]
  BY DEF Store!Unmount, AssetInductive, AssetTypes
<1>3. \A v \in Views : view[v] # None => view[v].at \notin Addr
  BY DEF Store!Unmount, AssetConstants
<1> QED
  BY <1>1, <1>2, <1>3 DEF AssetInductive, AssetTypes, Backed, Owned

LEMMA OpenKeeps ==
  ASSUME AssetConstants, AssetInductive, NEW v \in Views, NEW key, Store!Open(v, key)
  PROVE  AssetInductive'
<1>1. AssetTypes /\ Backed /\ Owned /\ (\A i \in DOMAIN backing.entries : Matched(i))
      /\ view[v] = None /\ UNCHANGED <<mmap, registered>>
  BY DEF AssetInductive, Store!Open
<1>2. ASSUME NEW n \in AssetNames, NEW place \in {"mmap", "image", "registered"},
             view' = [view EXCEPT ![v] = [name |-> n, at |-> place]], UNCHANGED <<backing, heap>>
      PROVE  AssetInductive'
  <2>1. [name |-> n, at |-> place] \in Held /\ place \notin Addr
    BY DEF Held, AssetConstants
  <2>2. /\ view' \in [Views -> Held \cup {None}] /\ view'[v] = [name |-> n, at |-> place]
        /\ \A w \in Views : w # v => view'[w] = view[w]
        /\ \A b \in Addr : Holding'[b] = Holding[b]
    <3> DEFINE r == [name |-> n, at |-> place]
    <3>1. r \in Held /\ r.at = place /\ view' = [view EXCEPT ![v] = r]
      BY <1>2, <2>1
    <3>3. view'[v] = r /\ (\A w \in Views : w # v => view'[w] = view[w]) /\ view' \in [Views -> Held \cup {None}]
      BY <1>1, <3>1 DEF AssetTypes
    <3> HIDE DEF r
    <3>2. /\ view' \in [Views -> Held \cup {None}] /\ view'[v] = r
          /\ \A w \in Views : w # v => view'[w] = view[w]
          /\ \A b \in Addr : Holding'[b] = Holding[b]
      BY <1>1, <2>1, <3>1, <3>3, ViewTaken
    <3> QED
      BY <3>2 DEF r
  <2>3. AssetTypes' /\ Backed'
    BY <1>1, <1>2, <2>2 DEF AssetTypes, Backed
  <2>4. Owned'
    BY <1>1, <1>2, <2>1, <2>2 DEF Owned
  <2>5. ASSUME NEW i \in DOMAIN backing.entries PROVE Matched(i)'
    <3>1. backing.entries[i].buf \in Addr \cup {None}
      BY <1>1, EntryTyped
    <3> QED
      BY <1>1, <1>2, <2>2, <3>1 DEF Matched
  <2> QED
    BY <1>2, <2>3, <2>4, <2>5 DEF AssetInductive
<1>3. CASE Store!OpenEntry(v, Store!EntryOf(key)) /\ Store!EntryOf(key) # 0
  <2> DEFINE i == Store!EntryOf(key)
             e == backing.entries[i]
  <2>1. i \in DOMAIN backing.entries
    BY <1>1, <1>3, EntryFound
  <2>2. e \in Entry /\ Matched(i)
    BY <1>1, <2>1 DEF AssetTypes
  <2>3. e.name \in AssetNames /\ e.buf \in Addr \cup {None} /\ e.refs \in Nat
    BY <2>2 DEF Entry
  <2> HIDE DEF i
  <2>4. ASSUME NEW a \in Store!FreeAddr, e.buf = None, heap' = [heap EXCEPT ![a] = e.name], backing' = Store!Lent(i, a, e.refs + 1),
               view' = [view EXCEPT ![v] = [name |-> e.name, at |-> a]]
        PROVE  AssetInductive'
    <3>1. /\ a \in Addr /\ heap[a] = None /\ Holding[a] = 0
          /\ \A j \in DOMAIN backing.entries : backing.entries[j].buf # a
      BY FreeIsNobodys
    <3>2. [name |-> e.name, at |-> a] \in Held
      BY <2>3, <3>1 DEF Held
    <3>3. /\ view' \in [Views -> Held \cup {None}] /\ view'[v] = [name |-> e.name, at |-> a]
          /\ \A w \in Views : w # v => view'[w] = view[w]
          /\ \A b \in Addr : Holding'[b] = IF a = b THEN Holding[b] + 1 ELSE Holding[b]
      <4> DEFINE r == [name |-> e.name, at |-> a]
      <4>1. r \in Held /\ r.at = a /\ view' = [view EXCEPT ![v] = r]
        BY <2>4, <3>2
      <4>3. view'[v] = r /\ (\A w \in Views : w # v => view'[w] = view[w]) /\ view' \in [Views -> Held \cup {None}]
        BY <1>1, <4>1 DEF AssetTypes
      <4> HIDE DEF r
      <4>2. /\ view' \in [Views -> Held \cup {None}] /\ view'[v] = r
            /\ \A w \in Views : w # v => view'[w] = view[w]
            /\ \A b \in Addr : Holding'[b] = IF a = b THEN Holding[b] + 1 ELSE Holding[b]
        BY <1>1, <4>1, <4>3, ViewTaken
      <4> QED
        BY <4>2 DEF r
    <3>4. e.refs = 0
      BY <2>2, <2>4 DEF Matched
    <3>5. heap' \in [Addr -> AssetNames \cup {"toc", None}] /\ heap'[a] = e.name /\ \A b \in Addr : b # a => heap'[b] = heap[b]
      BY <1>1, <2>3, <2>4, <3>1 DEF AssetTypes
    <3>6. \A j \in DOMAIN backing.entries : backing.entries[j].buf \in Addr \cup {None}
      BY <1>1, EntryTyped
    <3>7. None \notin Addr
      BY DEF AssetConstants
    <3>8. 1 = IF a = None THEN 0 ELSE Holding'[a]
      BY <3>1, <3>3, <3>7
    <3>9. \A w \in Views : view'[w] # None /\ view'[w].at \in Addr =>
            \/ view'[w] = view[w] /\ (view[w].at # backing.entries[i].buf)
            \/ view'[w].at = a /\ view'[w].name = backing.entries[i].name
      BY <2>4, <3>3, <3>7
    <3>10. \A j \in DOMAIN backing.entries : j # i /\ backing.entries[j].buf # None =>
             /\ backing.entries[j].buf # a /\ heap'[backing.entries[j].buf] = heap[backing.entries[j].buf]
             /\ Holding'[backing.entries[j].buf] = Holding[backing.entries[j].buf]
      BY <3>1, <3>3, <3>5, <3>6
    <3>11. backing' = Store!Lent(i, a, 1)
      BY <2>4, <3>4
    <3> QED
      BY <1>1, <2>1, <3>1, <3>3, <3>5, <3>8, <3>9, <3>10, <3>11, OneEntryChanges
  <2>5. ASSUME NEW a \in Store!FreeAddr, heap' = Store!Abandoned(a), UNCHANGED <<backing, view>>
        PROVE  AssetInductive'
    <3>1. a \in Addr /\ heap[a] = None
      BY DEF Store!FreeAddr
    <3>2. heap' = heap
      BY <1>1, <2>5, <3>1 DEF Store!Abandoned, AssetTypes
    <3> QED
      BY <1>1, <2>5, <3>2, NothingLeased DEF AssetTypes
  <2>6. ASSUME e.buf # None, backing' = Store!Lent(i, e.buf, e.refs + 1), heap' = heap,
               view' = [view EXCEPT ![v] = [name |-> e.name, at |-> e.buf]]
        PROVE  AssetInductive'
    <3> DEFINE a == e.buf
    <3>1. a \in Addr /\ e.refs = Holding[a] /\ e.refs > 0 /\ heap[a] = e.name
      BY <2>2, <2>3, <2>6 DEF Matched
    <3>2. [name |-> e.name, at |-> a] \in Held
      BY <2>3, <3>1 DEF Held
    <3>3. /\ view' \in [Views -> Held \cup {None}] /\ view'[v] = [name |-> e.name, at |-> a]
          /\ \A w \in Views : w # v => view'[w] = view[w]
          /\ \A b \in Addr : Holding'[b] = IF a = b THEN Holding[b] + 1 ELSE Holding[b]
      <4> DEFINE r == [name |-> e.name, at |-> a]
      <4>1. r \in Held /\ r.at = a /\ view' = [view EXCEPT ![v] = r]
        BY <2>6, <3>2
      <4>3. view'[v] = r /\ (\A w \in Views : w # v => view'[w] = view[w]) /\ view' \in [Views -> Held \cup {None}]
        BY <1>1, <4>1 DEF AssetTypes
      <4> HIDE DEF r
      <4>2. /\ view' \in [Views -> Held \cup {None}] /\ view'[v] = r
            /\ \A w \in Views : w # v => view'[w] = view[w]
            /\ \A b \in Addr : Holding'[b] = IF a = b THEN Holding[b] + 1 ELSE Holding[b]
        BY <1>1, <4>1, <4>3, ViewTaken
      <4> QED
        BY <4>2 DEF r
    <3>4. e.refs + 1 \in Nat /\ e.refs + 1 > 0 /\ e.refs + 1 = IF a = None THEN 0 ELSE Holding'[a]
      BY <2>3, <2>6, <3>1, <3>3
    <3>5. \A j \in DOMAIN backing.entries : backing.entries[j].buf \in Addr \cup {None}
      BY <1>1, EntryTyped
    <3>6. \A j \in DOMAIN backing.entries : j # i /\ backing.entries[j].buf # None =>
             /\ backing.entries[j].buf # a /\ heap'[backing.entries[j].buf] = heap[backing.entries[j].buf]
             /\ Holding'[backing.entries[j].buf] = Holding[backing.entries[j].buf]
      BY <1>1, <2>1, <2>6, <3>1, <3>3, <3>5 DEF Owned
    <3>7. ASSUME NEW w \in Views, view'[w] # None, view'[w].at \in Addr
          PROVE  \/ view'[w] = view[w] /\ (view[w].at # backing.entries[i].buf)
                 \/ view'[w].at = a /\ view'[w].name = backing.entries[i].name
      <4>1. CASE w = v
        BY <3>3, <4>1
      <4>2. CASE w # v /\ view[w].at # e.buf
        BY <3>3, <4>2
      <4>3. CASE w # v /\ view[w].at = e.buf
        <5>1. view'[w] = view[w]
          BY <3>3, <4>3
        <5>2. PICK j \in DOMAIN backing.entries : backing.entries[j].buf = view[w].at /\ backing.entries[j].name = view[w].name
          BY <1>1, <3>7, <5>1 DEF Owned
        <5>3. j = i
          BY <1>1, <2>1, <2>6, <4>3, <5>2 DEF Owned
        <5> QED
          BY <4>3, <5>1, <5>2, <5>3
      <4> QED
        BY <4>1, <4>2, <4>3
    <3> QED
      <4>1. heap' \in [Addr -> AssetNames \cup {"toc", None}] /\ heap'[a] = backing.entries[i].name /\ a \in Addr \cup {None}
        BY <1>1, <2>6, <3>1 DEF AssetTypes
      <4>2. backing' = Store!Lent(i, a, e.refs + 1)
        BY <2>6
      <4> HIDE DEF a, e
      <4> QED
        BY <1>1, <2>1, <3>3, <3>4, <3>6, <3>7, <4>1, <4>2, OneEntryChanges
  <2> QED
    BY <1>3, <2>4, <2>5, <2>6 DEF Store!OpenEntry, i
<1>4. CASE /\ \/ Store!InMmap(key) /\ view' = [view EXCEPT ![v] = [name |-> mmap[Store!FileOf(key)], at |-> "mmap"]]
              \/ Store!EntryOf(key) # 0 /\ view' = [view EXCEPT ![v] = [name |-> backing.entries[Store!EntryOf(key)].name, at |-> "image"]]
              \/ \E n \in registered \cap key : view' = [view EXCEPT ![v] = [name |-> n, at |-> "registered"]]
           /\ UNCHANGED <<backing, heap>>
  <2>1. ASSUME Store!InMmap(key) PROVE mmap[Store!FileOf(key)] \in AssetNames
    <3>1. Store!FileOf(key) \in DOMAIN mmap
      BY <1>1, <2>1, FileFound DEF Store!InMmap
    <3> QED
      BY <1>1, <3>1 DEF AssetTypes
  <2>2. ASSUME Store!EntryOf(key) # 0 PROVE backing.entries[Store!EntryOf(key)].name \in AssetNames
    BY <1>1, <2>2, EntryFound, EntryTyped
  <2>3. registered \subseteq AssetNames
    BY <1>1 DEF AssetTypes
  <2> QED
    BY <1>2, <1>4, <2>1, <2>2, <2>3
<1> QED
  BY <1>3, <1>4 DEF Store!Open

LEMMA ReleaseKeeps ==
  ASSUME AssetConstants, AssetInductive, NEW v \in Views, Store!Release(v)
  PROVE  AssetInductive'
<1> DEFINE at == view[v].at
           i == IF Copied(at) # {} THEN Store!Min(Copied(at)) ELSE 0
           e == backing.entries[i]
<1>1. AssetTypes /\ Backed /\ Owned /\ (\A j \in DOMAIN backing.entries : Matched(j))
      /\ view[v] # None /\ UNCHANGED <<mmap, registered>>
  BY DEF AssetInductive, Store!Release
<1>2. view' = [view EXCEPT ![v] = None]
      /\ IF i = 0 \/ backing.entries[i].refs = 0 THEN UNCHANGED <<backing, heap>>
         ELSE IF e.refs > 1 THEN backing' = Store!Lent(i, e.buf, e.refs - 1) /\ UNCHANGED heap
              ELSE backing' = Store!Lent(i, None, 0) /\ heap' = [heap EXCEPT ![e.buf] = None]
  BY DEF Store!Release, Store!SelectInSeq, Copied
<1>3. /\ Copied(at) \subseteq 1 .. Len(backing.entries) /\ Len(backing.entries) \in Nat
      /\ DOMAIN backing.entries = 1 .. Len(backing.entries)
  BY <1>1 DEF AssetTypes, Copied
<1>4. IF \E j \in DOMAIN backing.entries : backing.entries[j].buf = at
      THEN i \in DOMAIN backing.entries /\ i # 0 /\ e.buf = at ELSE i = 0
  <2>1. Copied(at) # {} => Store!Min(Copied(at)) \in Copied(at)
    BY <1>3, FirstIsOne
  <2> QED
    BY <1>3, <2>1 DEF Copied
<1> HIDE DEF i, at
<1>5. /\ view' \in [Views -> Held \cup {None}] /\ view'[v] = None
      /\ \A w \in Views : w # v => view'[w] = view[w]
  BY <1>1, <1>2 DEF AssetTypes
<1>6. \A b \in Addr : Holding'[b] = IF at = b THEN Holding[b] - 1 ELSE Holding[b]
  BY <1>1, <1>5, ViewGivenBack DEF at
<1>7. view[v] \in Held /\ at \in Addr \cup {"mmap", "image", "registered"} /\ at # None
  <2>1. view[v] \in Held
    BY <1>1 DEF AssetTypes
  <2> QED
    BY <2>1 DEF Held, AssetConstants, at
<1>8. CASE i = 0 \/ e.refs = 0
  <2>1. at \notin Addr
    <3>1. ASSUME at \in Addr PROVE FALSE
      <4>1. i \in DOMAIN backing.entries /\ i # 0 /\ e.buf = at
        BY <1>1, <1>4, <3>1 DEF Owned, at
      <4>2. e.refs > 0 /\ e.refs \in Nat
        BY <1>1, <1>7, <4>1, EntryTyped DEF Matched
      <4> QED
        BY <1>8, <4>1, <4>2
    <3> QED
      BY <3>1
  <2>2. UNCHANGED <<backing, heap>>
    BY <1>2, <1>8
  <2>3. AssetTypes' /\ Backed'
    BY <1>1, <1>5, <2>2 DEF AssetTypes, Backed
  <2>4. Owned'
    BY <1>1, <1>5, <2>2 DEF Owned
  <2>5. ASSUME NEW j \in DOMAIN backing.entries PROVE Matched(j)'
    <3>1. backing.entries[j].buf \in Addr \cup {None}
      BY <1>1, EntryTyped
    <3> QED
      BY <1>1, <1>6, <2>1, <2>2, <3>1 DEF Matched
  <2> QED
    BY <2>2, <2>3, <2>4, <2>5 DEF AssetInductive
<1>9. CASE i # 0 /\ e.refs # 0
  <2>1. i \in DOMAIN backing.entries /\ e.buf = at /\ e.buf \in Addr \cup {None} /\ e.refs \in Nat /\ e.name \in AssetNames
    BY <1>1, <1>4, <1>9, EntryTyped
  <2>2. at \in Addr /\ e.refs = Holding[at] /\ heap[at] = e.name
    BY <1>1, <1>7, <2>1 DEF Matched
  <2>3. \A j \in DOMAIN backing.entries : j # i /\ backing.entries[j].buf # None =>
          /\ backing.entries[j].buf \in Addr /\ backing.entries[j].buf # at
          /\ Holding'[backing.entries[j].buf] = Holding[backing.entries[j].buf]
    BY <1>1, <1>6, <1>7, <2>1, EntryTyped DEF Owned
  <2>4. ASSUME NEW w \in Views, view'[w] # None, view'[w].at \in Addr, view[w].at = at
        PROVE  view'[w] = view[w] /\ view'[w].name = e.name
    <3>1. view'[w] = view[w]
      BY <1>5, <2>4
    <3>2. PICK j \in DOMAIN backing.entries : backing.entries[j].buf = view[w].at /\ backing.entries[j].name = view[w].name
      BY <1>1, <2>4, <3>1 DEF Owned
    <3>3. j = i
      BY <1>1, <1>7, <2>1, <2>4, <3>2 DEF Owned
    <3> QED
      BY <3>1, <3>2, <3>3
  <2>5. CASE e.refs > 1
    <3>1. backing' = Store!Lent(i, at, e.refs - 1) /\ heap' = heap /\ e.refs - 1 \in Nat /\ e.refs - 1 > 0
      BY <1>2, <1>9, <2>1, <2>5
    <3>2. e.refs - 1 = IF at = None THEN 0 ELSE Holding'[at]
      BY <1>6, <1>7, <2>2
    <3>3. heap' \in [Addr -> AssetNames \cup {"toc", None}] /\ heap'[at] = backing.entries[i].name /\ at \in Addr \cup {None}
      BY <1>1, <2>2, <3>1 DEF AssetTypes
    <3>4. \A j \in DOMAIN backing.entries : j # i /\ backing.entries[j].buf # None =>
             /\ backing.entries[j].buf # at /\ heap'[backing.entries[j].buf] = heap[backing.entries[j].buf]
             /\ Holding'[backing.entries[j].buf] = Holding[backing.entries[j].buf]
      BY <2>3, <3>1
    <3>5. \A w \in Views : view'[w] # None /\ view'[w].at \in Addr =>
             \/ view'[w] = view[w] /\ (view[w].at # backing.entries[i].buf)
             \/ view'[w].at = at /\ view'[w].name = backing.entries[i].name
      BY <1>5, <2>1, <2>4
    <3> HIDE DEF e
    <3> QED
      BY <1>1, <1>5, <2>1, <3>1, <3>2, <3>3, <3>4, <3>5, OneEntryChanges
  <2>6. CASE e.refs = 1
    <3>1. backing' = Store!Lent(i, None, 0) /\ heap' = [heap EXCEPT ![at] = None]
      BY <1>2, <1>9, <2>1, <2>6
    <3>2. heap' \in [Addr -> AssetNames \cup {"toc", None}] /\ \A b \in Addr : b # at => heap'[b] = heap[b]
      BY <1>1, <2>2, <3>1 DEF AssetTypes
    <3>3. \A j \in DOMAIN backing.entries : j # i /\ backing.entries[j].buf # None =>
             /\ backing.entries[j].buf # None /\ heap'[backing.entries[j].buf] = heap[backing.entries[j].buf]
             /\ Holding'[backing.entries[j].buf] = Holding[backing.entries[j].buf]
      BY <2>3, <3>2
    <3>4. \A w \in Views : view'[w] # None /\ view'[w].at \in Addr => view'[w] = view[w] /\ view[w].at # at
      <4>1. Store!Holders(at) \subseteq {v}
        <5>1. PICK w : Store!Holders(at) = {w}
          BY <2>2, <2>6, NobodyHolds
        <5>2. v \in Store!Holders(at)
          BY <1>1 DEF Store!Holders, at
        <5> QED
          BY <5>1, <5>2
      <4> QED
        BY <1>5, <4>1 DEF Store!Holders
    <3>5. \A w \in Views : view'[w] # None /\ view'[w].at \in Addr =>
             \/ view'[w] = view[w] /\ (view[w].at # backing.entries[i].buf)
             \/ view'[w].at = None /\ view'[w].name = backing.entries[i].name
      BY <2>1, <3>4
    <3> HIDE DEF e
    <3> QED
      BY <1>1, <1>5, <2>1, <3>1, <3>2, <3>3, <3>5, OneEntryChanges, SMTT(20)
  <2> QED
    BY <1>9, <2>1, <2>5, <2>6
<1> QED
  BY <1>8, <1>9

\* What is in use on the heap belongs to the mount: the table of contents of
\* a reader, or a copy that is leased.
Used == {a \in Addr : a = toc \/ \E i \in DOMAIN backing.entries : backing.entries[i].buf = a}
HeapOwned ==
  /\ toc \in Addr \cup {None} /\ (backing.form # "reader" => toc = None)
  /\ {a \in Addr : heap[a] # None} = Used
  /\ \A i \in DOMAIN backing.entries : backing.entries[i].buf # None =>
       backing.form = "reader" /\ backing.entries[i].buf # toc

\* A stream is where it has read to.
StreamKept ==
  /\ stream # None => stream \in [of : AssetNames, skip : Nat, pos : Nat, got : Nat, entry : Nat]
  /\ Store!StreamsLoseNothing

LEMMA OneEntryIsOwned ==
  ASSUME AssetConstants, AssetTypes, HeapOwned, NEW i \in DOMAIN backing.entries, backing.form = "reader",
         NEW a \in Addr \cup {None}, NEW n \in Nat, backing' = Store!Lent(i, a, n), UNCHANGED toc,
         \/ a = backing.entries[i].buf /\ UNCHANGED heap
         \/ backing.entries[i].buf = None /\ a \in Store!FreeAddr /\ heap' = [heap EXCEPT ![a] = backing.entries[i].name]
         \/ /\ a = None /\ backing.entries[i].buf # None /\ heap' = [heap EXCEPT ![backing.entries[i].buf] = None]
            /\ \A j \in DOMAIN backing.entries : j # i => backing.entries[j].buf # backing.entries[i].buf
  PROVE  HeapOwned'
<1> DEFINE entry == backing.entries
<1>1. /\ backing'.form = "reader" /\ DOMAIN backing'.entries = DOMAIN entry /\ backing'.entries[i].buf = a
      /\ \A j \in DOMAIN entry : j # i => backing'.entries[j] = entry[j]
  BY EntryChanged
<1>2. toc' = toc /\ None \notin Addr /\ None \notin AssetNames /\ heap \in [Addr -> AssetNames \cup {"toc", None}]
  BY DEF AssetConstants, AssetTypes
<1>3. CASE a = entry[i].buf /\ UNCHANGED heap
  <2>1. DOMAIN backing'.entries = DOMAIN entry /\ \A j \in DOMAIN entry : backing'.entries[j].buf = entry[j].buf
    BY <1>1, <1>3
  <2>2. Used' = Used
    BY <1>2, <2>1 DEF Used
  <2>3. /\ toc' \in Addr \cup {None} /\ (backing'.form # "reader" => toc' = None)
        /\ {b \in Addr : heap'[b] # None} = Used'
    BY <1>1, <1>2, <1>3, <2>2 DEF HeapOwned
  <2>4. \A j \in DOMAIN backing'.entries : backing'.entries[j].buf # None =>
          backing'.form = "reader" /\ backing'.entries[j].buf # toc'
    BY <1>1, <1>2, <2>1 DEF HeapOwned
  <2> HIDE DEF entry
  <2> QED
    BY <2>3, <2>4 DEF HeapOwned
<1>4. CASE entry[i].buf = None /\ a \in Store!FreeAddr /\ heap' = [heap EXCEPT ![a] = entry[i].name]
  <2>1. a \in Addr /\ heap[a] = None /\ entry[i].name # None
    BY <1>2, <1>4, EntryTyped DEF Store!FreeAddr
  <2>2. Used' = Used \cup {a}
    BY <1>1, <1>2, <1>4, <2>1 DEF Used
  <2>3. {b \in Addr : heap'[b] # None} = {b \in Addr : heap[b] # None} \cup {a}
    BY <1>2, <1>4, <2>1
  <2>4. a # toc
    BY <2>1 DEF HeapOwned, Used
  <2> QED
    BY <1>1, <1>2, <2>2, <2>3, <2>4 DEF HeapOwned
<1>5. CASE /\ a = None /\ entry[i].buf # None /\ heap' = [heap EXCEPT ![entry[i].buf] = None]
           /\ \A j \in DOMAIN entry : j # i => entry[j].buf # entry[i].buf
  <2>1. entry[i].buf \in Addr /\ entry[i].buf # toc
    BY <1>2, <1>5, EntryTyped DEF HeapOwned
  <2>2. Used' = Used \ {entry[i].buf}
    BY <1>1, <1>2, <1>5, <2>1 DEF Used
  <2>3. {b \in Addr : heap'[b] # None} = {b \in Addr : heap[b] # None} \ {entry[i].buf}
    BY <1>2, <1>5, <2>1
  <2> QED
    BY <1>1, <1>2, <1>5, <2>2, <2>3 DEF HeapOwned
<1> QED
  BY <1>3, <1>4, <1>5

LEMMA HeapUntouched ==
  ASSUME HeapOwned, UNCHANGED <<toc, heap, backing>>
  PROVE  HeapOwned'
BY DEF HeapOwned, Used

LEMMA Smaller ==
  ASSUME NEW a \in Int, NEW b \in Int
  PROVE  Store!Min({a, b}) \in {a, b} /\ Store!Min({a, b}) <= a /\ Store!Min({a, b}) <= b
<1>1. \E x \in {a, b} : \A y \in {a, b} : x <= y
  OBVIOUS
<1> QED
  BY <1>1 DEF Store!Min

LEMMA StepKeepsLeases ==
  ASSUME AssetConstants, AssetInductive, [Store!Next]_Store!vars
  PROVE  AssetInductive'
<1>1. CASE \E p \in Packs : Store!MountMmap(p) \/ Store!MountImage(p) \/ Store!MountReader(p)
  BY <1>1, MountKeeps
<1>2. CASE Store!Unmount
  BY <1>2, UnmountKeeps
<1>3. CASE \E v \in Views, n \in AssetNames : Store!Open(v, Store!Named(n)) \/ Store!Open(v, Store!Hashed(n))
  BY <1>3, OpenKeeps
<1>4. CASE \E v \in Views : Store!Release(v)
  BY <1>4, ReleaseKeeps
<1>5. ASSUME UNCHANGED <<mmap, backing, heap, view>>, registered' \in SUBSET AssetNames PROVE AssetInductive'
  BY <1>5, NothingLeased DEF AssetInductive, AssetTypes
<1>6. registered \in SUBSET AssetNames
  BY DEF AssetInductive, AssetTypes
<1>7. CASE \E n \in AssetNames : Store!RegisterMemory(n)
  BY <1>5, <1>6, <1>7 DEF Store!RegisterMemory
<1>8. CASE \/ \E n \in AssetNames, skip \in 0 .. 1 : Store!StreamOpen(n, skip)
           \/ \E len \in 1 .. 2 : Store!StreamRead(len)
           \/ Store!StreamClose
  BY <1>5, <1>6, <1>8 DEF Store!StreamOpen, Store!StreamRead, Store!StreamClose
<1>9. CASE UNCHANGED Store!vars
  BY <1>5, <1>6, <1>9 DEF Store!vars
<1> QED
  BY <1>1, <1>2, <1>3, <1>4, <1>7, <1>8, <1>9 DEF Store!Next

LEMMA StepKeepsHeap ==
  ASSUME AssetConstants, AssetInductive, HeapOwned, [Store!Next]_Store!vars
  PROVE  HeapOwned'
<1>1. AssetTypes /\ Backed /\ Owned /\ None \notin Addr
  BY DEF AssetInductive, AssetConstants
<1>2. ASSUME NEW p \in Packs, Store!MountMmap(p) PROVE HeapOwned'
  BY <1>2, HeapUntouched DEF Store!MountMmap
<1>3. ASSUME NEW p \in Packs, Store!MountImage(p) \/ Store!MountReader(p) PROVE HeapOwned'
  <2>1. backing.entries = <<>> /\ toc = None /\ backing.form = "none"
    BY <1>1, <1>3 DEF Store!MountImage, Store!MountReader, Store!Mounted, Backed, HeapOwned
  <2>2. {a \in Addr : heap[a] # None} = {}
    BY <1>1, <2>1 DEF HeapOwned, Used
  <2>3. \A i \in DOMAIN Store!Entries(p.files) : Store!Entries(p.files)[i].buf = None
    BY DEF Store!Entries
  <2>4. CASE Store!MountImage(p)
    <3>1. toc' = None /\ heap' = heap /\ backing'.form = "image" /\ backing'.entries = Store!Entries(p.files)
      BY <2>1, <2>4 DEF Store!MountImage
    <3> QED
      BY <1>1, <2>2, <2>3, <3>1 DEF HeapOwned, Used
  <2>5. ASSUME NEW a \in Store!FreeAddr, toc' = a, heap' = [heap EXCEPT ![a] = "toc"],
               backing' = [form |-> "reader", entries |-> Store!Entries(p.files)]
        PROVE  HeapOwned'
    <3>1. a \in Addr /\ None # "toc" /\ heap \in [Addr -> AssetNames \cup {"toc", None}]
      BY <1>1 DEF Store!FreeAddr, AssetConstants, AssetTypes
    <3>2. backing'.form = "reader" /\ backing'.entries = Store!Entries(p.files)
      BY <2>5
    <3>3. {b \in Addr : heap'[b] # None} = {a}
      BY <2>2, <2>5, <3>1
    <3>4. Used' = {a}
      BY <1>1, <2>3, <2>5, <3>1, <3>2 DEF Used
    <3> QED
      BY <2>3, <2>5, <3>1, <3>2, <3>3, <3>4 DEF HeapOwned
  <2>6. ASSUME NEW a \in Store!FreeAddr, heap' = Store!Abandoned(a), UNCHANGED <<backing, toc>> PROVE HeapOwned'
    <3>1. heap' = heap
      BY <1>1, <2>6 DEF Store!FreeAddr, Store!Abandoned, AssetTypes
    <3> QED
      BY <2>6, <3>1, HeapUntouched
  <2> QED
    BY <1>3, <2>4, <2>5, <2>6 DEF Store!MountReader
<1>4. CASE Store!Unmount
  <2>1. /\ backing'.form = "none" /\ backing'.entries = <<>> /\ toc' = None
        /\ \A a \in Addr : heap'[a] = IF a \in Used THEN None ELSE heap[a]
    BY <1>4 DEF Store!Unmount, Store!Unmounted, Used
  <2>2. {a \in Addr : heap'[a] # None} = {}
    BY <2>1 DEF HeapOwned
  <2>3. Used' = {}
    BY <1>1, <2>1 DEF Used
  <2> QED
    BY <2>1, <2>2, <2>3 DEF HeapOwned
<1>5. ASSUME NEW v \in Views, NEW key, Store!Open(v, key) PROVE HeapOwned'
  <2> DEFINE i == Store!EntryOf(key)
             e == backing.entries[i]
  <2>1. CASE UNCHANGED <<backing, heap>>
    BY <1>5, <2>1, HeapUntouched DEF Store!Open
  <2>2. CASE i # 0 /\ backing.form = "reader" /\ Store!OpenEntry(v, i)
    <3>1. i \in DOMAIN backing.entries
      BY <1>1, <2>2, EntryFound
    <3>2. e.buf \in Addr \cup {None} /\ e.refs + 1 \in Nat /\ toc' = toc
      BY <1>1, <1>5, <3>1, EntryTyped DEF Store!Open
    <3> HIDE DEF i
    <3>3. ASSUME NEW a \in Store!FreeAddr, e.buf = None, heap' = [heap EXCEPT ![a] = e.name], backing' = Store!Lent(i, a, e.refs + 1)
          PROVE  HeapOwned'
      <4>1. a \in Addr \cup {None}
        BY DEF Store!FreeAddr
      <4> QED
        BY <1>1, <2>2, <3>1, <3>2, <3>3, <4>1, OneEntryIsOwned
    <3>4. ASSUME NEW a \in Store!FreeAddr, heap' = Store!Abandoned(a), UNCHANGED backing PROVE HeapOwned'
      <4>1. heap' = heap
        BY <1>1, <3>4 DEF Store!FreeAddr, Store!Abandoned, AssetTypes
      <4> QED
        BY <3>2, <3>4, <4>1, HeapUntouched
    <3>5. ASSUME backing' = Store!Lent(i, e.buf, e.refs + 1), heap' = heap PROVE HeapOwned'
      BY <1>1, <2>2, <3>1, <3>2, <3>5, OneEntryIsOwned
    <3> QED
      BY <2>2, <3>3, <3>4, <3>5 DEF Store!OpenEntry
  <2> QED
    BY <1>5, <2>1, <2>2 DEF Store!Open
<1>6. ASSUME NEW v \in Views, Store!Release(v) PROVE HeapOwned'
  <2> DEFINE at == view[v].at
             i == IF Copied(at) # {} THEN Store!Min(Copied(at)) ELSE 0
             e == backing.entries[i]
  <2>1. /\ toc' = toc
        /\ IF i = 0 \/ backing.entries[i].refs = 0 THEN UNCHANGED <<backing, heap>>
           ELSE IF e.refs > 1 THEN backing' = Store!Lent(i, e.buf, e.refs - 1) /\ UNCHANGED heap
                ELSE backing' = Store!Lent(i, None, 0) /\ heap' = [heap EXCEPT ![e.buf] = None]
    BY <1>6 DEF Store!Release, Store!SelectInSeq, Copied
  <2>2. i # 0 => i \in DOMAIN backing.entries
    <3>1. /\ Copied(at) \subseteq 1 .. Len(backing.entries) /\ Len(backing.entries) \in Nat
          /\ DOMAIN backing.entries = 1 .. Len(backing.entries)
      BY <1>1 DEF AssetTypes, Copied
    <3> QED
      BY <3>1, FirstIsOne
  <2> HIDE DEF i, at
  <2>3. CASE i = 0 \/ e.refs = 0
    BY <2>1, <2>3, HeapUntouched
  <2>4. CASE i # 0 /\ e.refs # 0
    <3>1. i \in DOMAIN backing.entries /\ e.refs \in Nat /\ e.buf \in Addr \cup {None}
      BY <1>1, <2>2, <2>4, EntryTyped
    <3>2. e.buf # None
      <4>1. Matched(i)
        BY <3>1 DEF AssetInductive
      <4> QED
        BY <2>4, <4>1 DEF Matched
    <3>3. backing.form = "reader"
      BY <3>1, <3>2 DEF HeapOwned
    <3>4. CASE e.refs > 1
      BY <1>1, <2>1, <2>4, <3>1, <3>3, <3>4, OneEntryIsOwned
    <3>5. CASE ~(e.refs > 1)
      <4>1. \A j \in DOMAIN backing.entries : j # i => backing.entries[j].buf # e.buf
        BY <1>1, <3>1, <3>2 DEF Owned
      <4>2. backing' = Store!Lent(i, None, 0) /\ heap' = [heap EXCEPT ![e.buf] = None]
        BY <2>1, <2>4, <3>5
      <4> QED
        BY <1>1, <2>1, <3>1, <3>2, <3>3, <4>1, <4>2, OneEntryIsOwned
    <3> QED
      BY <3>4, <3>5
  <2> QED
    BY <2>3, <2>4
<1>7. CASE \/ \E n \in AssetNames : Store!RegisterMemory(n)
           \/ \E n \in AssetNames, skip \in 0 .. 1 : Store!StreamOpen(n, skip)
           \/ \E len \in 1 .. 2 : Store!StreamRead(len)
           \/ Store!StreamClose \/ UNCHANGED Store!vars
  BY <1>7, HeapUntouched DEF Store!RegisterMemory, Store!StreamOpen, Store!StreamRead,
     Store!StreamClose, Store!vars
<1> QED
  BY <1>2, <1>3, <1>4, <1>5, <1>6, <1>7 DEF Store!Next

(* The bytes that are copied, counted one by one *)
Bytes(i, n) == {i} \X (1 .. AssetSize[n])
CopiedOf(entries) ==
  UNION {Bytes(i, entries[i].name) : i \in {i \in DOMAIN entries : entries[i].buf # None}}

LEMMA BytesCounted ==
  ASSUME AssetConstants, NEW i, NEW n \in AssetNames
  PROVE  IsFiniteSet(Bytes(i, n)) /\ Cardinality(Bytes(i, n)) = AssetSize[n] /\ AssetSize[n] \in Nat
<1>1. AssetSize[n] \in Nat
  BY DEF AssetConstants
<1>2. IsFiniteSet(1 .. AssetSize[n]) /\ Cardinality(1 .. AssetSize[n]) = AssetSize[n]
  <2>1. 1 \in Int /\ AssetSize[n] \in Int
    BY <1>1
  <2>2. IsFiniteSet(1 .. AssetSize[n]) /\ Cardinality(1 .. AssetSize[n]) = IF 1 > AssetSize[n] THEN 0 ELSE AssetSize[n] - 1 + 1
    BY <2>1, FS_Interval, Zenon
  <2> QED
    BY <1>1, <2>2
<1>3. IsFiniteSet({i}) /\ Cardinality({i}) = 1
  BY FS_Singleton, Zenon
<1>4. IsFiniteSet(Bytes(i, n)) /\ Cardinality(Bytes(i, n)) = 1 * Cardinality(1 .. AssetSize[n])
  BY <1>2, <1>3, FS_Product, Zenon DEF Bytes
<1> QED
  BY <1>1, <1>2, <1>4

\* What one copy more makes of it, read backwards one copy less.
LEMMA OneCopied ==
  ASSUME NEW S, NEW T, NEW i \in DOMAIN S, DOMAIN T = DOMAIN S, T[i].name = S[i].name,
         \A j \in DOMAIN S : j # i => T[j] = S[j], S[i].buf = None, T[i].buf # None
  PROVE  /\ CopiedOf(T) = CopiedOf(S) \cup Bytes(i, S[i].name)
         /\ CopiedOf(S) \cap Bytes(i, S[i].name) = {}
<1>1. \A x : x \in CopiedOf(S) <=> \E j \in DOMAIN S : j # i /\ S[j].buf # None /\ x \in Bytes(j, S[j].name)
  BY DEF CopiedOf
<1>2. \A x : x \in CopiedOf(T) <=> \E j \in DOMAIN S : (j = i \/ S[j].buf # None) /\ x \in Bytes(j, S[j].name)
  BY DEF CopiedOf
<1>3. \A j \in DOMAIN S : \A x : x \in Bytes(j, S[j].name) => x[1] = j
  BY DEF Bytes
<1> QED
  BY <1>1, <1>2, <1>3

LEMMA Larger ==
  ASSUME NEW a \in Int, NEW b \in Int
  PROVE  Store!Max({a, b}) \in {a, b} /\ a <= Store!Max({a, b}) /\ b <= Store!Max({a, b})
<1>1. \E x \in {a, b} : \A y \in {a, b} : x >= y
  OBVIOUS
<1> QED
  BY <1>1 DEF Store!Max

BytesKept ==
  /\ IsFiniteSet(CopiedOf(backing.entries)) /\ bytes = Cardinality(CopiedOf(backing.entries))
  /\ heapPeak \in Nat /\ bytes <= heapPeak

LEMMA SameBytes ==
  ASSUME BytesKept, CopiedOf(backing'.entries) = CopiedOf(backing.entries), UNCHANGED <<bytes, heapPeak>>
  PROVE  BytesKept'
BY DEF BytesKept

LEMMA CopyCounts ==
  ASSUME AssetConstants, AssetTypes, BytesKept, NEW i \in DOMAIN backing.entries, backing.entries[i].buf = None,
         NEW a \in Addr, NEW n \in Nat, backing' = Store!Lent(i, a, n),
         bytes' = bytes + AssetSize[backing.entries[i].name], heapPeak' = Store!Max({heapPeak, bytes'})
  PROVE  BytesKept'
<1> DEFINE S == backing.entries
           name == backing.entries[i].name
<1>1. name \in AssetNames /\ None \notin Addr
  BY EntryTyped DEF AssetConstants
<1>2. /\ DOMAIN backing'.entries = DOMAIN S /\ backing'.entries[i].name = name /\ backing'.entries[i].buf = a
      /\ \A j \in DOMAIN S : j # i => backing'.entries[j] = S[j]
  BY EntryChanged
<1>3. /\ CopiedOf(backing'.entries) = CopiedOf(S) \cup Bytes(i, name)
      /\ CopiedOf(S) \cap Bytes(i, name) = {}
  BY <1>1, <1>2, OneCopied
<1>4. IsFiniteSet(Bytes(i, name)) /\ Cardinality(Bytes(i, name)) = AssetSize[name] /\ AssetSize[name] \in Nat
  BY <1>1, BytesCounted
<1>5. IsFiniteSet(CopiedOf(S)) /\ bytes = Cardinality(CopiedOf(S)) /\ bytes \in Nat /\ heapPeak \in Nat
  BY FS_CardinalityType DEF BytesKept
<1>6. /\ IsFiniteSet(CopiedOf(backing'.entries))
      /\ Cardinality(CopiedOf(backing'.entries)) = Cardinality(CopiedOf(S)) + Cardinality(Bytes(i, name)) - Cardinality({})
  BY <1>3, <1>4, <1>5, FS_Union, Zenon
<1>7. bytes' = Cardinality(CopiedOf(backing'.entries)) /\ bytes' \in Nat
  <2>1. Cardinality({}) = 0
    BY FS_EmptySet
  <2> HIDE DEF S, name
  <2> QED
    BY <1>4, <1>5, <1>6, <2>1 DEF name
<1>8. heapPeak' \in Nat /\ bytes' <= heapPeak'
  <2>1. \A x, y \in Int : Store!Max({x, y}) \in {x, y} /\ y <= Store!Max({x, y})
    BY Larger
  <2>2. heapPeak' \in {heapPeak, bytes'} /\ bytes' <= heapPeak'
    BY <1>5, <1>7, <2>1
  <2> QED
    BY <1>5, <1>7, <2>2
<1> QED
  BY <1>6, <1>7, <1>8 DEF BytesKept

LEMMA LossCounts ==
  ASSUME AssetConstants, AssetTypes, BytesKept, NEW i \in DOMAIN backing.entries, backing.entries[i].buf # None,
         backing' = Store!Lent(i, None, 0),
         bytes' = bytes - AssetSize[backing.entries[i].name], heapPeak' = heapPeak
  PROVE  BytesKept'
<1> DEFINE T == backing'.entries
           name == backing.entries[i].name
<1>1. name \in AssetNames
  BY EntryTyped
<1>2. /\ DOMAIN T = DOMAIN backing.entries /\ T[i].name = name /\ T[i].buf = None
      /\ \A j \in DOMAIN T : j # i => T[j] = backing.entries[j]
  BY EntryChanged
<1>3. /\ CopiedOf(backing.entries) = CopiedOf(T) \cup Bytes(i, name)
      /\ CopiedOf(T) \cap Bytes(i, name) = {}
  <2> HIDE DEF T
  <2> QED
    BY <1>2, OneCopied
<1>4. IsFiniteSet(Bytes(i, name)) /\ Cardinality(Bytes(i, name)) = AssetSize[name] /\ AssetSize[name] \in Nat
  BY <1>1, BytesCounted
<1>5. IsFiniteSet(CopiedOf(backing.entries)) /\ bytes = Cardinality(CopiedOf(backing.entries)) /\ heapPeak \in Nat
      /\ bytes <= heapPeak
  BY DEF BytesKept
<1>6. IsFiniteSet(CopiedOf(T))
  <2>1. CopiedOf(T) \in SUBSET CopiedOf(backing.entries)
    BY <1>3
  <2> QED
    BY <1>5, <2>1, FS_Subset, Zenon
<1>7. Cardinality(CopiedOf(backing.entries)) = Cardinality(CopiedOf(T)) + Cardinality(Bytes(i, name)) - Cardinality({})
  <2> HIDE DEF T, name
  <2> QED
    BY <1>3, <1>4, <1>6, FS_Union, Zenon
<1>8. bytes' = Cardinality(CopiedOf(T)) /\ bytes' <= heapPeak
  <2>1. Cardinality({}) = 0 /\ Cardinality(CopiedOf(T)) \in Nat
    BY <1>6, FS_EmptySet, FS_CardinalityType
  <2> HIDE DEF T, name
  <2> QED
    BY <1>4, <1>5, <1>7, <2>1 DEF name
<1> QED
  BY <1>5, <1>6, <1>8 DEF BytesKept

LEMMA StepKeepsBytes ==
  ASSUME AssetConstants, AssetInductive, BytesKept, [Store!Next]_Store!vars
  PROVE  BytesKept'
<1>1. AssetTypes /\ Backed /\ None \notin Addr
  BY DEF AssetInductive, AssetConstants
<1>2. ASSUME UNCHANGED <<backing, bytes, heapPeak>> PROVE BytesKept'
  BY <1>2, SameBytes
<1>3. ASSUME NEW p \in Packs, Store!MountImage(p) \/ Store!MountReader(p) PROVE BytesKept'
  <2>1. backing.entries = <<>> /\ UNCHANGED <<bytes, heapPeak>>
    BY <1>1, <1>3 DEF Store!MountImage, Store!MountReader, Store!Mounted, Backed
  <2>2. backing' = backing \/ backing'.entries = Store!Entries(p.files)
    BY <1>3 DEF Store!MountImage, Store!MountReader
  <2>3. \A i \in DOMAIN Store!Entries(p.files) : Store!Entries(p.files)[i].buf = None
    BY DEF Store!Entries
  <2>4. CopiedOf(backing.entries) = {} /\ CopiedOf(Store!Entries(p.files)) = {}
    BY <2>1, <2>3 DEF CopiedOf
  <2> QED
    BY <2>1, <2>2, <2>4, SameBytes
<1>4. CASE Store!Unmount
  <2>1. backing'.entries = <<>> /\ bytes' = 0 /\ heapPeak' = heapPeak
    BY <1>4 DEF Store!Unmount, Store!Unmounted
  <2>2. CopiedOf(backing'.entries) = {}
    BY <2>1 DEF CopiedOf
  <2>3. IsFiniteSet({}) /\ Cardinality({}) = 0
    BY FS_EmptySet
  <2>4. IsFiniteSet(CopiedOf(backing'.entries)) /\ bytes' = Cardinality(CopiedOf(backing'.entries))
    BY <2>1, <2>2, <2>3
  <2>5. heapPeak' \in Nat /\ bytes' <= heapPeak'
    BY <2>1 DEF BytesKept
  <2> QED
    BY <2>4, <2>5 DEF BytesKept
<1>5. ASSUME NEW v \in Views, NEW key, Store!Open(v, key) PROVE BytesKept'
  <2> DEFINE i == Store!EntryOf(key)
             e == backing.entries[i]
  <2>1. CASE UNCHANGED <<backing, bytes, heapPeak>>
    BY <1>2, <2>1
  <2>2. CASE i # 0 /\ backing.form = "reader" /\ Store!OpenEntry(v, i)
    <3>1. i \in DOMAIN backing.entries
      BY <1>1, <2>2, EntryFound
    <3>2. e.buf \in Addr \cup {None} /\ e.refs + 1 \in Nat
      BY <1>1, <3>1, EntryTyped
    <3> HIDE DEF i
    <3>3. ASSUME NEW a \in Store!FreeAddr, e.buf = None, backing' = Store!Lent(i, a, e.refs + 1),
                 bytes' = bytes + AssetSize[e.name], heapPeak' = Store!Max({heapPeak, bytes'})
          PROVE  BytesKept'
      <4>1. a \in Addr
        BY DEF Store!FreeAddr
      <4> QED
        BY <1>1, <3>1, <3>2, <3>3, <4>1, CopyCounts
    <3>4. ASSUME e.buf # None, backing' = Store!Lent(i, e.buf, e.refs + 1), UNCHANGED <<bytes, heapPeak>>
          PROVE  BytesKept'
      <4>1. /\ DOMAIN backing'.entries = DOMAIN backing.entries
            /\ \A j \in DOMAIN backing.entries : backing'.entries[j].name = backing.entries[j].name
                                                /\ backing'.entries[j].buf = backing.entries[j].buf
        BY <1>1, <3>1, <3>2, <3>4, CopiesStay
      <4>2. CopiedOf(backing'.entries) = CopiedOf(backing.entries)
        BY <4>1 DEF CopiedOf
      <4> QED
        BY <3>4, <4>2, SameBytes
    <3> QED
      BY <1>2, <2>2, <3>3, <3>4 DEF Store!OpenEntry
  <2> QED
    BY <1>5, <2>1, <2>2 DEF Store!Open
<1>6. ASSUME NEW v \in Views, Store!Release(v) PROVE BytesKept'
  <2> DEFINE at == view[v].at
             i == IF Copied(at) # {} THEN Store!Min(Copied(at)) ELSE 0
             e == backing.entries[i]
  <2>1. /\ heapPeak' = heapPeak
        /\ IF i = 0 \/ backing.entries[i].refs = 0 THEN UNCHANGED <<backing, bytes>>
           ELSE IF e.refs > 1 THEN backing' = Store!Lent(i, e.buf, e.refs - 1) /\ UNCHANGED bytes
                ELSE backing' = Store!Lent(i, None, 0) /\ bytes' = bytes - AssetSize[e.name]
    BY <1>6 DEF Store!Release, Store!SelectInSeq, Copied
  <2>2. i # 0 => i \in DOMAIN backing.entries
    <3>1. /\ Copied(at) \subseteq 1 .. Len(backing.entries) /\ Len(backing.entries) \in Nat
          /\ DOMAIN backing.entries = 1 .. Len(backing.entries)
      BY <1>1 DEF AssetTypes, Copied
    <3> QED
      BY <3>1, FirstIsOne
  <2> HIDE DEF i, at
  <2>3. CASE i = 0 \/ e.refs = 0
    BY <1>2, <2>1, <2>3
  <2>4. CASE i # 0 /\ e.refs # 0
    <3>1. i \in DOMAIN backing.entries /\ e.refs \in Nat /\ e.buf \in Addr \cup {None}
      BY <1>1, <2>2, <2>4, EntryTyped
    <3>2. e.buf # None
      <4>1. Matched(i)
        BY <3>1 DEF AssetInductive
      <4> QED
        BY <2>4, <4>1 DEF Matched
    <3>3. CASE e.refs > 1
      <4>1. backing' = Store!Lent(i, e.buf, e.refs - 1) /\ bytes' = bytes /\ e.refs - 1 \in Nat
        BY <2>1, <2>4, <3>1, <3>3
      <4>2. /\ DOMAIN backing'.entries = DOMAIN backing.entries
            /\ \A j \in DOMAIN backing.entries : backing'.entries[j].name = backing.entries[j].name
                                                /\ backing'.entries[j].buf = backing.entries[j].buf
        BY <1>1, <3>1, <4>1, CopiesStay
      <4>3. CopiedOf(backing'.entries) = CopiedOf(backing.entries)
        BY <4>2 DEF CopiedOf
      <4> QED
        BY <2>1, <4>1, <4>3, SameBytes
    <3>4. CASE ~(e.refs > 1)
      BY <1>1, <2>1, <2>4, <3>1, <3>2, <3>4, LossCounts
    <3> QED
      BY <3>3, <3>4
  <2> QED
    BY <2>3, <2>4
<1>7. CASE \/ \E p \in Packs : Store!MountMmap(p)
           \/ \E n \in AssetNames : Store!RegisterMemory(n)
           \/ \E n \in AssetNames, skip \in 0 .. 1 : Store!StreamOpen(n, skip)
           \/ \E len \in 1 .. 2 : Store!StreamRead(len)
           \/ Store!StreamClose \/ UNCHANGED Store!vars
  <2>1. UNCHANGED <<backing, bytes, heapPeak>>
    BY <1>7 DEF Store!MountMmap, Store!RegisterMemory, Store!StreamOpen, Store!StreamRead,
       Store!StreamClose, Store!vars
  <2> QED
    BY <1>2, <2>1
<1> QED
  BY <1>3, <1>4, <1>5, <1>6, <1>7 DEF Store!Next

LEMMA StepKeepsStream ==
  ASSUME AssetConstants, AssetInductive, StreamKept, [Store!Next]_Store!vars
  PROVE  StreamKept'
<1>1. AssetSize \in [AssetNames -> Nat] /\ AssetTypes
  BY DEF AssetConstants, AssetInductive
<1>2. ASSUME stream' = stream PROVE StreamKept'
  BY <1>2 DEF StreamKept, Store!StreamsLoseNothing
<1>3. ASSUME stream' = None PROVE StreamKept'
  BY <1>3 DEF StreamKept, Store!StreamsLoseNothing
<1>4. ASSUME NEW n \in AssetNames, NEW skip \in 0 .. 1, Store!StreamOpen(n, skip) PROVE StreamKept'
  <2> DEFINE entry == IF ~Store!InMmap(Store!Named(n)) /\ backing.form = "reader" THEN Store!EntryOf(Store!Named(n)) ELSE 0
  <2>1. entry \in Nat
    <3>1. DOMAIN backing.entries = 1 .. Len(backing.entries) /\ Len(backing.entries) \in Nat
      BY <1>1 DEF AssetTypes
    <3>2. Store!EntryOf(Store!Named(n)) # 0 => Store!EntryOf(Store!Named(n)) \in DOMAIN backing.entries
      BY <1>1, EntryFound
    <3> QED
      BY <3>1, <3>2
  <2> HIDE DEF entry
  <2>2. stream' = [of |-> n, skip |-> skip, pos |-> skip, got |-> 0, entry |-> entry] /\ skip <= AssetSize[n]
    BY <1>4 DEF Store!StreamOpen, entry
  <2>3. skip \in Nat /\ skip + 0 = skip
    OBVIOUS
  <2> QED
    BY <2>1, <2>2, <2>3 DEF StreamKept, Store!StreamsLoseNothing
<1>5. ASSUME NEW len \in 1 .. 2, Store!StreamRead(len) PROVE StreamKept'
  <2> DEFINE take == Store!Min({len, AssetSize[stream.of] - stream.pos})
  <2>1. /\ stream # None /\ stream \in [of : AssetNames, skip : Nat, pos : Nat, got : Nat, entry : Nat]
        /\ stream.pos = stream.skip + stream.got /\ stream.pos <= AssetSize[stream.of]
    BY <1>5 DEF StreamKept, Store!StreamsLoseNothing, Store!StreamRead
  <2>2. /\ AssetSize[stream.of] \in Nat /\ stream.pos \in Nat /\ stream.got \in Nat /\ stream.skip \in Nat
        /\ stream.of \in AssetNames /\ stream.entry \in Nat
    BY <1>1, <2>1
  <2>3. take \in Nat /\ take <= AssetSize[stream.of] - stream.pos
    <3> DEFINE rest == AssetSize[stream.of] - stream.pos
    <3>1. len \in Nat /\ rest \in Nat
      BY <2>1, <2>2
    <3>2. take = Store!Min({len, rest})
      OBVIOUS
    <3> HIDE DEF take, rest
    <3>3. \A x, y \in Int : Store!Min({x, y}) \in {x, y} /\ Store!Min({x, y}) <= x /\ Store!Min({x, y}) <= y
      BY Smaller
    <3>4. Store!Min({len, rest}) \in {len, rest} /\ Store!Min({len, rest}) <= rest
      BY <3>1, <3>3
    <3>5. take \in Nat /\ take <= rest
      BY <3>1, <3>2, <3>4
    <3> QED
      BY <3>5 DEF rest
  <2>4. stream' = stream \/ stream' = [stream EXCEPT !.pos = @ + take, !.got = @ + take]
    BY <1>5 DEF Store!StreamRead
  <2> HIDE DEF take
  <2>5. CASE stream' = [stream EXCEPT !.pos = @ + take, !.got = @ + take]
    <3>1. /\ stream'.of = stream.of /\ stream'.skip = stream.skip /\ stream'.entry = stream.entry
          /\ stream'.pos = stream.pos + take /\ stream'.got = stream.got + take
      BY <2>1, <2>5
    <3>2. stream' \in [of : AssetNames, skip : Nat, pos : Nat, got : Nat, entry : Nat]
      <4>1. stream.pos + take \in Nat /\ stream.got + take \in Nat
        BY <2>2, <2>3
      <4> QED
        BY <2>1, <2>5, <4>1
    <3>3. stream.pos + take = stream.skip + (stream.got + take) /\ stream.pos + take <= AssetSize[stream.of]
      BY <2>1, <2>2, <2>3
    <3> QED
      BY <3>1, <3>2, <3>3 DEF StreamKept, Store!StreamsLoseNothing
  <2> QED
    BY <1>2, <2>4, <2>5
<1>6. CASE \/ \E p \in Packs : Store!MountMmap(p) \/ Store!MountImage(p) \/ Store!MountReader(p)
           \/ Store!Unmount \/ (\E n \in AssetNames : Store!RegisterMemory(n))
           \/ (\E v \in Views, n \in AssetNames : Store!Open(v, Store!Named(n)) \/ Store!Open(v, Store!Hashed(n)))
           \/ (\E v \in Views : Store!Release(v)) \/ UNCHANGED Store!vars
  <2>1. stream' = stream
    BY <1>6 DEF Store!MountMmap, Store!MountImage, Store!MountReader, Store!Unmount,
       Store!RegisterMemory, Store!Open, Store!Release, Store!vars
  <2> QED
    BY <1>2, <2>1
<1> QED
  BY <1>3, <1>4, <1>5, <1>6 DEF Store!Next, Store!StreamClose

LEMMA AssetsBegin == ASSUME AssetConstants, Store!Init PROVE AssetInductive /\ HeapOwned /\ StreamKept
<1>1. heap = [a \in Addr |-> None] /\ toc = None /\ stream = None /\ backing.form = "none" /\ backing.entries = <<>>
  BY DEF Store!Init, Store!Unmounted
<1>2. Used = {} /\ {a \in Addr : heap[a] # None} = {}
  BY <1>1 DEF AssetConstants, Used
<1> QED
  BY <1>1, <1>2, AssetInit DEF HeapOwned, StreamKept, Store!StreamsLoseNothing

\* Whatever is mounted, opened by name or by hash, refused, leased and given
\* back, in whatever order, for any packs, views and addresses: a copy on the
\* heap is leased exactly as often as the game holds views of it, and what a
\* view shows is its asset (backing_open_entry, raylib_lite_asset_release).
THEOREM LeasesAreMatched == AssetConstants => (Store!Spec => []Store!LeasesMatchViews)
<1> SUFFICES ASSUME AssetConstants PROVE Store!Spec => []Store!LeasesMatchViews
  OBVIOUS
<1>1. Store!Init => AssetInductive
  BY AssetsBegin
<1>2. AssetInductive /\ [Store!Next]_Store!vars => AssetInductive'
  BY StepKeepsLeases
<1>3. AssetInductive => Store!LeasesMatchViews
  BY LeasesFollow
<1> QED
  BY <1>1, <1>2, <1>3, PTL DEF Store!Spec

MountedFiles == mmap \in {p.files : p \in Packs} \cup {<<>>}

LEMMA StoreTypes ==
  ASSUME AssetConstants, AssetInductive, HeapOwned, MountedFiles
  PROVE  Store!TypeOK
<1>1. AssetTypes /\ toc \in Addr \cup {None}
  BY DEF AssetInductive, HeapOwned
<1>2. ASSUME NEW i \in DOMAIN backing.entries
      PROVE  backing.entries[i] \in [name : AssetNames, buf : Addr \cup {None}, refs : 0 .. Store!Cardinality(Views)]
  <2> DEFINE e == backing.entries[i]
  <2>1. e \in Entry /\ e.name \in AssetNames /\ e.buf \in Addr \cup {None} /\ e.refs \in Nat /\ Matched(i)
    BY <1>1, EntryTyped DEF AssetInductive
  <2>2. ASSUME NEW b \in Addr PROVE Holding[b] <= Cardinality(Views)
    <3>1. Store!Holders(b) \in SUBSET Views /\ IsFiniteSet(Views)
      BY DEF Store!Holders, AssetConstants
    <3>2. Cardinality(Store!Holders(b)) <= Cardinality(Views)
      BY <3>1, FS_Subset
    <3> QED
      BY <3>2 DEF Holding
  <2>3. Cardinality(Views) \in Nat
    BY FS_CardinalityType DEF AssetConstants
  <2>4. e.refs <= Cardinality(Views)
    <3>1. e.refs = IF e.buf = None THEN 0 ELSE Holding[e.buf]
      BY <2>1 DEF Matched
    <3> QED
      BY <2>1, <2>2, <2>3, <3>1
  <2>5. Store!Cardinality(Views) = Cardinality(Views)
    BY Counted
  <2>6. e.refs \in 0 .. Store!Cardinality(Views)
    BY <2>1, <2>3, <2>4, <2>5
  <2>7. e = [name |-> e.name, buf |-> e.buf, refs |-> e.refs]
    BY <2>1 DEF Entry
  <2> HIDE DEF e
  <2>8. e \in [name : AssetNames, buf : Addr \cup {None}, refs : 0 .. Store!Cardinality(Views)]
    BY <2>1, <2>6, <2>7
  <2> QED
    BY <2>8 DEF e
<1>3. backing.form \in {"none", "image", "reader"}
  BY <1>1 DEF AssetTypes
<1>4. \A v \in Views : view[v] # None => view[v] \in [name : AssetNames, at : Addr \cup {"mmap", "image", "registered"}]
  BY <1>1 DEF AssetTypes, Held
<1> QED
  BY <1>1, <1>2, <1>3, <1>4 DEF Store!TypeOK, AssetTypes, MountedFiles

LEMMA HeapIsAccounted ==
  ASSUME HeapOwned, BytesKept
  PROVE  Store!HeapAccounted
<1>1. {a \in Addr : heap[a] # None} =
        {a \in Addr : a = toc \/ \E i \in DOMAIN backing.entries : backing.entries[i].buf = a}
  BY DEF HeapOwned, Used
<1>2. Store!CopiedBytes = CopiedOf(backing.entries)
  BY DEF Store!CopiedBytes, Store!Materialized, CopiedOf, Bytes
<1>3. bytes = Store!Cardinality(Store!CopiedBytes)
  BY <1>2, Counted DEF BytesKept
<1> QED
  BY <1>1, <1>3 DEF Store!HeapAccounted, BytesKept

\* The heap holds the table of contents of the mounted reader and the leased
\* copies and nothing else, and the store counts their bytes: no refused mount
\* and no failed read leaves its buffer behind or is counted.
THEOREM HeapIsTheMounts == AssetConstants => (Store!Spec => [](Store!TypeOK /\ Store!HeapAccounted))
<1> SUFFICES ASSUME AssetConstants PROVE Store!Spec => [](Store!TypeOK /\ Store!HeapAccounted)
  OBVIOUS
<1> DEFINE Kept == AssetInductive /\ HeapOwned /\ BytesKept /\ MountedFiles
<1>1. Store!Init => Kept
  <2> SUFFICES ASSUME Store!Init PROVE Kept
    OBVIOUS
  <2>1. mmap = <<>> /\ backing.entries = <<>> /\ bytes = 0 /\ heapPeak = 0
    BY DEF Store!Init, Store!Unmounted
  <2>2. CopiedOf(backing.entries) = {}
    BY <2>1 DEF CopiedOf
  <2>3. BytesKept
    BY <2>1, <2>2, FS_EmptySet DEF BytesKept
  <2> QED
    BY <2>1, <2>3, AssetsBegin DEF MountedFiles
<1>2. Kept /\ [Store!Next]_Store!vars => Kept'
  <2> SUFFICES ASSUME Kept, [Store!Next]_Store!vars PROVE Kept'
    OBVIOUS
  <2>1. (\E p \in Packs : mmap' = p.files) \/ mmap' = mmap \/ mmap' = <<>>
    BY DEF Store!Next, Store!MountMmap, Store!MountImage, Store!MountReader, Store!Unmount, Store!RegisterMemory,
       Store!Open, Store!Release, Store!StreamOpen, Store!StreamRead, Store!StreamClose, Store!vars
  <2>2. MountedFiles'
    BY <2>1 DEF MountedFiles
  <2> QED
    BY <2>2, StepKeepsLeases, StepKeepsHeap, StepKeepsBytes
<1>3. Kept => Store!TypeOK /\ Store!HeapAccounted
  BY StoreTypes, HeapIsAccounted
<1> QED
  BY <1>1, <1>2, <1>3, PTL DEF Store!Spec

\* A stream stands where its reads have taken it, whichever of them failed.
THEOREM StreamsDeliver == AssetConstants => (Store!Spec => []Store!StreamsLoseNothing)
<1> SUFFICES ASSUME AssetConstants PROVE Store!Spec => []Store!StreamsLoseNothing
  OBVIOUS
<1>1. Store!Init => AssetInductive /\ StreamKept
  BY AssetsBegin
<1>2. AssetInductive /\ StreamKept /\ [Store!Next]_Store!vars => (AssetInductive /\ StreamKept)'
  BY StepKeepsLeases, StepKeepsStream
<1>3. StreamKept => Store!StreamsLoseNothing
  BY DEF StreamKept
<1> QED
  BY <1>1, <1>2, <1>3, PTL DEF Store!Spec

(***************************************************************************)
(* The preview's server                                                    *)
(***************************************************************************)

\* What a request's thread may be at.
Serving ==
  [pc : {"idle", "read", "draw", "reset"}] \cup [pc : {"step"}, restart : {FALSE, "restart" \in Actions}]
    \cup [pc : {"lift", "press", "note"}, fingers : SUBSET PointerTracks, left : SUBSET PointerTracks]

PreviewTypes ==
  /\ handler \in [Handlers -> Serving]
  /\ loop \in [pc : {"look", "lock", "step"}, wants : SUBSET Actions]
  /\ wanted \in SUBSET Actions /\ reported \in SUBSET PointerTracks

\* Who is in the game has the lock.
GameLocked ==
  /\ \A h \in Server!Inside : lock = h
  /\ loop.pc = "step" => lock = "loop"
  /\ game \in Int /\ alive = {game}

LEMMA OneStepper ==
  ASSUME PreviewConstants, GameLocked
  PROVE  Server!OneInTheGame
<1>1. Server!Inside \subseteq Handlers /\ \A h \in Server!Inside : lock = h
  BY DEF GameLocked, Server!Inside
<1>2. \A S : Server!Cardinality(S) = Cardinality(S)
  BY DEF Server!Cardinality, Cardinality
<1>3. Cardinality({game}) = 1 /\ alive = {game} /\ game \in alive
  BY FS_Singleton DEF GameLocked
<1>4. CASE loop.pc = "step"
  <2>1. Server!Inside = {}
    BY <1>1, <1>4 DEF PreviewConstants, GameLocked
  <2>2. Cardinality(Server!Inside) = 0
    BY <2>1, FS_EmptySet
  <2> QED
    BY <1>2, <1>3, <1>4, <2>2 DEF Server!OneInTheGame
<1>5. CASE loop.pc # "step"
  <2>1. Server!Inside = {} \/ \E h \in Handlers : Server!Inside = {h}
    BY <1>1
  <2>2. Cardinality(Server!Inside) \in {0, 1}
    BY <2>1, FS_EmptySet, FS_Singleton
  <2> QED
    BY <1>2, <1>3, <1>5, <2>2 DEF Server!OneInTheGame
<1> QED
  BY <1>4, <1>5

LEMMA Reloaded ==
  ASSUME GameLocked, Server!Reload
  PROVE  game' \in Int /\ alive' = {game'}
BY DEF GameLocked, Server!Reload, Server!Unchanged

\* A thread that is not in the game comes to stand at r, or leaves the lock.
LEMMA Enters ==
  ASSUME PreviewTypes, GameLocked, NEW h \in Handlers, NEW r, handler' = [handler EXCEPT ![h] = r],
         game' \in Int, alive' = {game'}, loop' = loop,
         \/ lock = None /\ lock' = h /\ None \notin Handlers /\ None # "loop"
         \/ lock' = lock /\ (h \in Server!Inside \/ r.pc \notin {"press", "draw", "step", "reset"})
         \/ h \in Server!Inside /\ "loop" \notin Handlers /\ r.pc \notin {"press", "draw", "step", "reset"}
  PROVE  GameLocked'
<1>1. handler'[h] = r /\ \A g \in Handlers : g # h => handler'[g] = handler[g]
  BY DEF PreviewTypes
<1>2. \A g \in Handlers : handler'[g].pc \in {"press", "draw", "step", "reset"} /\ g # h => lock = g
  BY <1>1 DEF GameLocked, Server!Inside
<1>3. \A g \in Handlers : handler'[g].pc \in {"press", "draw", "step", "reset"} => lock' = g
  BY <1>1, <1>2 DEF GameLocked, Server!Inside
<1>4. loop.pc = "step" => lock' = "loop"
  BY DEF GameLocked, Server!Inside
<1> QED
  BY <1>3, <1>4 DEF GameLocked, Server!Inside

\* The same when only the place changes.
LEMMA Moved ==
  ASSUME PreviewTypes, NEW h \in Handlers, NEW r \in Serving, NEW p,
         handler[h] = r, Server!Goes(h, p)
  PROVE  handler' = [handler EXCEPT ![h] = [r EXCEPT !.pc = p]] /\ [r EXCEPT !.pc = p].pc = p
BY DEF PreviewTypes, Serving, Server!Goes

LEMMA TypesKept ==
  ASSUME PreviewConstants, PreviewTypes, [Server!Next]_Server!vars
  PROVE  PreviewTypes'
<1> DEFINE Reports == [pc : {"lift", "press", "note"}, fingers : SUBSET PointerTracks, left : SUBSET PointerTracks]
<1>1. ASSUME handler' = handler, loop' = loop, wanted' = wanted, reported' = reported PROVE PreviewTypes'
  BY <1>1 DEF PreviewTypes
<1>2. ASSUME NEW h \in Handlers, NEW r \in Serving, handler' = [handler EXCEPT ![h] = r],
             loop' = loop, wanted' = wanted, reported' = reported
      PROVE  PreviewTypes'
  BY <1>2 DEF PreviewTypes
<1>3. CASE Server!LoopLook \/ Server!LoopEnters \/ Server!LoopSteps
  <2>1. handler' = handler /\ wanted' = wanted /\ reported' = reported
    BY <1>3 DEF Server!LoopLook, Server!LoopEnters, Server!LoopSteps, Server!Settings
  <2>2. loop' \in [pc : {"look", "lock", "step"}, wants : SUBSET Actions]
    <3>1. CASE Server!LoopEnters
      <4>1. loop' = [[loop EXCEPT !.pc = "step"] EXCEPT !.wants = wanted]
        BY <3>1 DEF Server!LoopEnters
      <4>2. [loop EXCEPT !.pc = "step"] \in [pc : {"look", "lock", "step"}, wants : SUBSET Actions]
        BY DEF PreviewTypes
      <4> QED
        BY <4>1, <4>2 DEF PreviewTypes
    <3>2. CASE Server!LoopLook \/ Server!LoopSteps
      BY <3>2 DEF PreviewTypes, Server!LoopLook, Server!LoopSteps
    <3> QED
      BY <1>3, <3>1, <3>2
  <2> QED
    BY <2>1, <2>2 DEF PreviewTypes
<1>4. ASSUME NEW h \in Handlers, NEW report \in Server!Reports, Server!InputArrives(h, report) PROVE PreviewTypes'
  <2>1. report.fingers \in SUBSET PointerTracks /\ report.actions \in SUBSET Actions
    BY DEF Server!Reports
  <2>2. [pc |-> "lift", fingers |-> report.fingers, left |-> report.fingers] \in Serving
    BY <2>1 DEF Serving
  <2> QED
    BY <1>4, <2>1, <2>2 DEF PreviewTypes, Server!InputArrives
<1>5. ASSUME NEW h \in Handlers, Server!InputLifts(h) \/ Server!InputReported(h) PROVE PreviewTypes'
  <2> DEFINE r(p) == [handler[h] EXCEPT !.pc = p]
  <2>1. handler[h] \in Reports /\ \E p \in {"press", "note"} : handler' = [handler EXCEPT ![h] = r(p)]
    BY <1>5 DEF PreviewTypes, Serving, Server!InputLifts, Server!InputReported, Server!Goes
  <2>3. \A p \in {"press", "note"} : r(p) \in Reports
    BY <2>1
  <2> HIDE DEF r
  <2>4. \A p \in {"press", "note"} : r(p) \in Serving
    BY <2>3 DEF Serving
  <2>2. handler' \in [Handlers -> Serving]
    BY <2>1, <2>4 DEF PreviewTypes
  <2> QED
    BY <1>5, <2>2 DEF PreviewTypes, Server!InputLifts, Server!InputReported, Server!Settings
<1>6. ASSUME NEW h \in Handlers, Server!InputPresses(h) PROVE PreviewTypes'
  <2>1. PICK track \in handler[h].left : handler' = [handler EXCEPT ![h].left = @ \ {track}]
    BY <1>6 DEF Server!InputPresses
  <2>2. handler[h] \in Reports
    BY <1>6 DEF PreviewTypes, Serving, Server!InputPresses
  <2>3. handler' \in [Handlers -> Serving]
    BY <2>1, <2>2 DEF PreviewTypes, Serving
  <2> QED
    BY <1>6, <2>3 DEF PreviewTypes, Server!InputPresses, Server!Settings
<1>7. ASSUME NEW h \in Handlers, Server!InputNotes(h) PROVE PreviewTypes'
  <2>1. handler[h].fingers \in SUBSET PointerTracks
    BY <1>7 DEF PreviewTypes, Serving, Server!InputNotes
  <2> QED
    BY <1>7, <2>1 DEF PreviewTypes, Serving, Server!InputNotes
<1>8. ASSUME NEW h \in Handlers,
             \/ Server!FrameBegins(h) \/ Server!FrameEnds(h) \/ Server!Pause(h) \/ Server!ControlSteps(h)
             \/ Server!ResetEnters(h) \/ Server!ResetLeaves(h) \/ Server!Asks(h) \/ Server!Answered(h)
      PROVE PreviewTypes'
  <2>1. loop' = loop /\ wanted' = wanted /\ reported' = reported
    BY <1>8 DEF Server!FrameBegins, Server!FrameEnds, Server!Pause, Server!ControlSteps,
       Server!ResetEnters, Server!ResetLeaves, Server!Asks,
                Server!Answered, Server!Settings
  <2>2. \E p \in {"idle", "read", "draw", "reset"} : handler' = [handler EXCEPT ![h] = [pc |-> p]]
    BY <1>8 DEF Server!FrameBegins, Server!FrameEnds, Server!Pause, Server!ControlSteps,
       Server!ResetEnters, Server!ResetLeaves, Server!Asks,
                Server!Answered, Server!Idle
  <2>3. \A p \in {"idle", "read", "draw", "reset"} : [pc |-> p] \in Serving
    BY DEF Serving
  <2> QED
    BY <1>2, <2>1, <2>2, <2>3
<1>9. ASSUME NEW h \in Handlers, NEW restart \in {FALSE, "restart" \in Actions}, Server!ControlEnters(h, restart) PROVE PreviewTypes'
  <2>1. [pc |-> "step", restart |-> restart] \in Serving
    BY DEF Serving
  <2> QED
    BY <1>2, <1>9, <2>1 DEF Server!ControlEnters, Server!Settings
<1>10. CASE Server!Edit \/ UNCHANGED Server!vars
  BY <1>1, <1>10 DEF Server!Edit, Server!vars, Server!Settings
<1> QED
  BY <1>3, <1>4, <1>5, <1>6, <1>7, <1>8, <1>9, <1>10 DEF Server!Next

LEMMA LockKept ==
  ASSUME PreviewConstants, PreviewTypes, GameLocked, [Server!Next]_Server!vars
  PROVE  GameLocked'
<1>1. game \in Int /\ alive = {game} /\ None \notin Handlers /\ None # "loop" /\ "loop" \notin Handlers
  BY DEF GameLocked, PreviewConstants
<1>2. CASE Server!LoopLook \/ Server!Edit \/ UNCHANGED Server!vars
  BY <1>2 DEF GameLocked, Server!Inside, Server!LoopLook, Server!Edit, Server!vars, PreviewTypes
<1>3. CASE Server!LoopEnters
  <2>1. lock = None /\ lock' = "loop" /\ handler' = handler /\ game' \in Int /\ alive' = {game'}
    BY <1>3, Reloaded DEF Server!LoopEnters
  <2> QED
    BY <1>1, <2>1 DEF GameLocked, Server!Inside
<1>4. CASE Server!LoopSteps
  <2>1. loop.pc = "step" /\ loop'.pc = "look" /\ handler' = handler /\ game' = game /\ alive' = alive
    BY <1>4 DEF Server!LoopSteps, PreviewTypes
  <2> QED
    BY <1>1, <2>1 DEF GameLocked, Server!Inside
<1>5. ASSUME NEW h \in Handlers, NEW report \in Server!Reports, Server!InputArrives(h, report) PROVE GameLocked'
  <2> DEFINE r == [pc |-> "lift", fingers |-> report.fingers, left |-> report.fingers]
  <2>1. handler' = [handler EXCEPT ![h] = r] /\ UNCHANGED <<lock, loop, game, alive>> /\ r.pc = "lift"
    BY <1>5 DEF Server!InputArrives
  <2> HIDE DEF r
  <2> QED
    BY <1>1, <2>1, Enters
<1>6. ASSUME NEW h \in Handlers, Server!InputLifts(h) \/ Server!InputReported(h) PROVE GameLocked'
  <2> DEFINE r == [handler[h] EXCEPT !.pc = IF Server!InputLifts(h) THEN "press" ELSE "note"]
  <2>1. handler[h] \in Serving
    BY DEF PreviewTypes
  <2>2. handler' = [handler EXCEPT ![h] = r] /\ UNCHANGED <<loop, game, alive>>
    BY <1>6 DEF Server!InputLifts, Server!InputReported, Server!Goes
  <2>3. r.pc = IF Server!InputLifts(h) THEN "press" ELSE "note"
    BY <2>1 DEF Serving
  <2> HIDE DEF r
  <2>4. CASE Server!InputLifts(h)
    BY <1>1, <2>2, <2>4, Enters DEF Server!InputLifts
  <2>5. CASE Server!InputReported(h) /\ ~Server!InputLifts(h)
    BY <1>1, <2>2, <2>3, <2>5, Enters DEF Server!InputReported, Server!Inside
  <2> QED
    BY <1>6, <2>4, <2>5
<1>7. ASSUME NEW h \in Handlers, Server!InputPresses(h) PROVE GameLocked'
  <2>1. PICK track \in handler[h].left : handler' = [handler EXCEPT ![h].left = @ \ {track}]
    BY <1>7 DEF Server!InputPresses
  <2>2. handler[h] \in Serving
    BY DEF PreviewTypes
  <2>3. \A g \in Handlers : handler'[g].pc = handler[g].pc
    BY <2>1, <2>2 DEF PreviewTypes, Serving
  <2>4. Server!Inside' = Server!Inside
    BY <2>3 DEF Server!Inside
  <2> QED
    BY <1>7, <2>4 DEF GameLocked, Server!InputPresses
<1>8. ASSUME NEW h \in Handlers, Server!InputNotes(h) \/ Server!Pause(h) \/ Server!Asks(h) \/ Server!Answered(h) PROVE GameLocked'
  <2>1. UNCHANGED <<lock, loop, game, alive>>
    BY <1>8 DEF Server!InputNotes, Server!Pause, Server!Asks, Server!Answered
  <2>2. \E p \in {"read", "idle"} : handler' = [handler EXCEPT ![h] = [pc |-> p]]
    BY <1>8 DEF Server!InputNotes, Server!Pause, Server!Asks, Server!Answered, Server!Idle
  <2> QED
    BY <1>1, <2>1, <2>2, Enters
<1>9. ASSUME NEW h \in Handlers, Server!FrameBegins(h) \/ Server!ResetEnters(h) PROVE GameLocked'
  <2>1. lock = None /\ lock' = h /\ UNCHANGED <<loop, game, alive>>
    BY <1>9 DEF Server!FrameBegins, Server!ResetEnters
  <2>2. \E p \in {"draw", "reset"} : handler' = [handler EXCEPT ![h] = [pc |-> p]]
    BY <1>9 DEF Server!FrameBegins, Server!ResetEnters
  <2> QED
    BY <1>1, <2>1, <2>2, Enters
<1>10. ASSUME NEW h \in Handlers, Server!FrameEnds(h) \/ Server!ControlSteps(h) \/ Server!ResetLeaves(h) PROVE GameLocked'
  <2>1. h \in Server!Inside /\ UNCHANGED <<loop, game, alive>>
    BY <1>10 DEF Server!FrameEnds, Server!ControlSteps, Server!ResetLeaves, Server!Inside
  <2>2. \E p \in {"read", "idle"} : handler' = [handler EXCEPT ![h] = [pc |-> p]]
    BY <1>10 DEF Server!FrameEnds, Server!ControlSteps, Server!ResetLeaves, Server!Idle
  <2> QED
    BY <1>1, <2>1, <2>2, Enters
<1>11. ASSUME NEW h \in Handlers, NEW restart \in {FALSE, "restart" \in Actions}, Server!ControlEnters(h, restart) PROVE GameLocked'
  <2>1. lock = None /\ lock' = h /\ loop' = loop /\ game' \in Int /\ alive' = {game'}
    BY <1>11, Reloaded DEF Server!ControlEnters
  <2>2. handler' = [handler EXCEPT ![h] = [pc |-> "step", restart |-> restart]]
    BY <1>11 DEF Server!ControlEnters
  <2> QED
    BY <1>1, <2>1, <2>2, Enters
<1> QED
  BY <1>2, <1>3, <1>4, <1>5, <1>6, <1>7, <1>8, <1>9, <1>10, <1>11 DEF Server!Next

\* The window keeps its types, and its edges tell what changed since b.
Keys == {"KEY_LEFT", "KEY_A", "KEY_RIGHT", "KEY_D", "KEY_SPACE", "KEY_ENTER"}
WindowType ==
  [down : SUBSET Keys, pressed : SUBSET Keys, released : SUBSET Keys,
   finger : [Server!Slot -> PointerTracks \cup {None}], touched : SUBSET Server!Slot, lifted : SUBSET Server!Slot]
KeysTell(w, b) ==
  /\ w.down \ b.keys \subseteq w.pressed /\ b.keys \ w.down \subseteq w.released
  /\ w.pressed \ w.released \subseteq w.down \ b.keys /\ w.released \ w.pressed \subseteq b.keys \ w.down
FingersTell(w, b) ==
  /\ Server!Busy(w) \ b.busy \subseteq w.touched /\ b.busy \ Server!Busy(w) \subseteq w.lifted
  /\ w.touched \ w.lifted \subseteq Server!Busy(w) \ b.busy /\ w.lifted \ w.touched \subseteq b.busy \ Server!Busy(w)
Telling(w, b) == w \in WindowType /\ KeysTell(w, b) /\ FingersTell(w, b)
WindowTells == Telling(window, before)

LEMMA KeysAreKeys ==
  ASSUME NEW actions \in SUBSET {"left", "right", "jump", "restart"}
  PROVE  Server!KeysOf(actions) \subseteq Keys
BY DEF Server!KeysOf, Server!Key, Keys

LEMMA InjectedTells ==
  ASSUME NEW w, NEW b, Telling(w, b), NEW keys \in SUBSET Keys, NEW press \in BOOLEAN
  PROVE  Telling(Server!Injected(w, keys, press), b)
<1> DEFINE v == Server!Injected(w, keys, press)
<1>1. w \in WindowType /\ KeysTell(w, b) /\ FingersTell(w, b)
  BY DEF Telling
<1>2. CASE press
  <2> DEFINE u == [w EXCEPT !.down = w.down \cup (keys \ w.down)]
  <2>1. v = [u EXCEPT !.pressed = w.pressed \cup (keys \ w.down)]
    BY <1>2 DEF Server!Injected
  <2>2. u \in WindowType
    BY <1>1 DEF WindowType
  <2>3. v \in WindowType
    BY <1>1, <2>1, <2>2 DEF WindowType
  <2>4. /\ v.down = w.down \cup (keys \ w.down) /\ v.pressed = w.pressed \cup (keys \ w.down)
        /\ v.released = w.released /\ v.finger = w.finger /\ v.touched = w.touched /\ v.lifted = w.lifted
    BY <1>1, <2>1, <2>2 DEF WindowType
  <2> HIDE DEF v
  <2>5. KeysTell(v, b)
    BY <1>1, <2>4 DEF KeysTell
  <2>6. FingersTell(v, b)
    BY <1>1, <2>4 DEF FingersTell, Server!Busy
  <2> QED
    BY <2>3, <2>5, <2>6 DEF Telling, v
<1>3. CASE ~press
  <2> DEFINE u == [w EXCEPT !.down = w.down \ (keys \cap w.down)]
  <2>1. v = [u EXCEPT !.released = w.released \cup (keys \cap w.down)]
    BY <1>3 DEF Server!Injected
  <2>2. u \in WindowType
    BY <1>1 DEF WindowType
  <2>3. v \in WindowType
    BY <1>1, <2>1, <2>2 DEF WindowType
  <2>4. /\ v.down = w.down \ (keys \cap w.down) /\ v.released = w.released \cup (keys \cap w.down)
        /\ v.pressed = w.pressed /\ v.finger = w.finger /\ v.touched = w.touched /\ v.lifted = w.lifted
    BY <1>1, <2>1, <2>2 DEF WindowType
  <2> HIDE DEF v
  <2>5. KeysTell(v, b)
    BY <1>1, <2>4 DEF KeysTell
  <2>6. FingersTell(v, b)
    BY <1>1, <2>4 DEF FingersTell, Server!Busy
  <2> QED
    BY <2>3, <2>5, <2>6 DEF Telling, v
<1> QED
  BY <1>2, <1>3

LEMMA PressedTells ==
  ASSUME PointerSlots \in Nat, None \notin PointerTracks, NEW w, NEW b, Telling(w, b), NEW track \in PointerTracks
  PROVE  Telling(Server!Pressed(w, track), b)
<1> DEFINE v == Server!Pressed(w, track)
           free == Server!Slot \ Server!Busy(w)
           f == Server!First(free)
<1>1. w \in WindowType /\ KeysTell(w, b) /\ FingersTell(w, b)
  BY DEF Telling
<1>2. CASE track \in Server!Touching(w) \/ free = {}
  BY <1>2 DEF Server!Pressed
<1>3. CASE ~(track \in Server!Touching(w) \/ free = {})
  <2>1. f \in free
    <3>1. free \in SUBSET (1 .. PointerSlots)
      BY DEF Server!Slot
    <3>2. \E s \in free : \A t \in free : s <= t
      <4> HIDE DEF free
      <4> QED
        BY <1>3, <3>1, LeastExists
    <3> QED
      BY <3>2 DEF Server!First
  <2> DEFINE u == [w EXCEPT !.finger = [w.finger EXCEPT ![f] = track]]
  <2>2. v = [u EXCEPT !.touched = w.touched \cup {f}]
    BY <1>3 DEF Server!Pressed
  <2>3. f \in Server!Slot /\ w.finger[f] = None /\ w.finger \in [Server!Slot -> PointerTracks \cup {None}]
    BY <1>1, <2>1 DEF Server!Busy, WindowType
  <2> HIDE DEF f
  <2>4. u \in WindowType
    BY <1>1, <2>3 DEF WindowType
  <2>5. v \in WindowType
    <3>1. w.touched \cup {f} \in SUBSET Server!Slot
      BY <1>1, <2>3 DEF WindowType
    <3> HIDE DEF u, v
    <3> QED
      BY ONLY <2>2, <2>4, <3>1 DEF WindowType
  <2>6. /\ v.finger = [w.finger EXCEPT ![f] = track] /\ v.touched = w.touched \cup {f}
        /\ v.lifted = w.lifted /\ v.down = w.down /\ v.pressed = w.pressed /\ v.released = w.released
    BY <1>1, <2>2, <2>4 DEF WindowType
  <2> HIDE DEF v
  <2>7. Server!Busy(v) = Server!Busy(w) \cup {f} /\ f \notin Server!Busy(w)
    BY <2>3, <2>6 DEF Server!Busy
  <2>8. FingersTell(v, b)
    BY <1>1, <2>6, <2>7 DEF FingersTell
  <2>9. KeysTell(v, b)
    BY <1>1, <2>6 DEF KeysTell
  <2> QED
    BY <2>5, <2>8, <2>9 DEF Telling, v
<1> QED
  BY <1>2, <1>3

LEMMA ReleasedTells ==
  ASSUME None \notin PointerTracks, NEW w, NEW b, Telling(w, b), NEW gone \in SUBSET PointerTracks
  PROVE  Telling(Server!Released(w, gone), b)
<1> DEFINE v == Server!Released(w, gone)
           L == {s \in Server!Slot : w.finger[s] \in gone}
           fingers == [s \in Server!Slot |-> IF w.finger[s] \in gone THEN None ELSE w.finger[s]]
           u == [w EXCEPT !.finger = fingers]
<1>1. w \in WindowType /\ KeysTell(w, b) /\ FingersTell(w, b)
  BY DEF Telling
<1>2. v = [u EXCEPT !.lifted = w.lifted \cup L]
  BY DEF Server!Released
<1>3. fingers \in [Server!Slot -> PointerTracks \cup {None}] /\ w.lifted \cup L \in SUBSET Server!Slot
  BY <1>1 DEF WindowType
<1> HIDE DEF fingers, L
<1>4. u \in WindowType
  BY <1>1, <1>3 DEF WindowType
<1>5. v \in WindowType
  BY <1>2, <1>3, <1>4 DEF WindowType
<1>6. /\ v.finger = fingers /\ v.lifted = w.lifted \cup L
      /\ v.touched = w.touched /\ v.down = w.down /\ v.pressed = w.pressed /\ v.released = w.released
  BY <1>1, <1>2, <1>4 DEF WindowType
<1> HIDE DEF v
<1>7. Server!Busy(v) = Server!Busy(w) \ L /\ L \subseteq Server!Busy(w)
  <2>1. \A x \in Server!Slot : v.finger[x] # None <=> w.finger[x] # None /\ x \notin L
    BY <1>6 DEF fingers, L
  <2>2. \A x \in L : x \in Server!Slot /\ w.finger[x] # None
    BY DEF L
  <2> QED
    BY <2>1, <2>2 DEF Server!Busy
<1>8. FingersTell(v, b)
  BY <1>1, <1>6, <1>7 DEF FingersTell
<1>9. KeysTell(v, b)
  BY <1>1, <1>6 DEF KeysTell
<1> QED
  BY <1>5, <1>8, <1>9 DEF Telling, v

LEMMA StepTells ==
  ASSUME PreviewConstants, Telling(window, before), NEW wants \in SUBSET Actions, NEW restart
  PROVE  Telling(Server!Stepped(wants, restart), before)
<1> DEFINE down == Server!KeysOf(wants)
           others == Server!KeysOf({"left", "right", "jump"}) \ down
           x == Server!Injected(window, down, TRUE)
           y == Server!Injected(x, others, FALSE)
<1>1. down \in SUBSET Keys /\ others \in SUBSET Keys /\ Server!KeysOf({"restart"}) \in SUBSET Keys
  BY KeysAreKeys DEF PreviewConstants
<1>2. Server!Stepped(wants, restart) = IF restart THEN Server!Injected(y, Server!KeysOf({"restart"}), TRUE) ELSE y
  BY DEF Server!Stepped
<1> HIDE DEF down, others
<1>3. Telling(x, before)
  BY <1>1, InjectedTells
<1> HIDE DEF x
<1>4. Telling(y, before)
  BY <1>1, <1>3, InjectedTells
<1> HIDE DEF y
<1>5. Telling(Server!Injected(y, Server!KeysOf({"restart"}), TRUE), before)
  BY <1>1, <1>4, InjectedTells
<1> QED
  BY <1>2, <1>4, <1>5

LEMMA TellingKept ==
  ASSUME PreviewConstants, PreviewTypes, WindowTells, [Server!Next]_Server!vars
  PROVE  WindowTells'
<1>1. None \notin PointerTracks /\ PointerSlots \in Nat
  BY DEF PreviewConstants
<1>2. Telling(Server!NewWindow, [keys |-> {}, busy |-> {}])
  BY DEF Telling, KeysTell, FingersTell, WindowType, Server!NewWindow, Server!Busy
<1>3. ASSUME window' = window, before' = before PROVE WindowTells'
  BY <1>3 DEF WindowTells
<1>4. ASSUME Server!Reload PROVE WindowTells'
  BY <1>2, <1>4 DEF WindowTells, Server!Reload, Server!Unchanged
<1>5. CASE Server!LoopSteps
  <2>1. loop.wants \in SUBSET Actions
    BY DEF PreviewTypes
  <2>2. window' = Server!Stepped(loop.wants, FALSE) /\ before' = before
    BY <1>5 DEF Server!LoopSteps
  <2> QED
    BY <2>1, <2>2, StepTells DEF WindowTells
<1>6. ASSUME NEW h \in Handlers, Server!ControlSteps(h) PROVE WindowTells'
  <2>1. window' = Server!Stepped({}, handler[h].restart) /\ before' = before
    BY <1>6 DEF Server!ControlSteps
  <2> QED
    BY <2>1, StepTells DEF WindowTells
<1>7. ASSUME NEW h \in Handlers, Server!InputLifts(h) PROVE WindowTells'
  <2>1. window' = Server!Released(window, reported \ handler[h].fingers) /\ before' = before
        /\ reported \ handler[h].fingers \in SUBSET PointerTracks
    BY <1>7 DEF Server!InputLifts, PreviewTypes
  <2> QED
    BY <1>1, <2>1, ReleasedTells DEF WindowTells
<1>8. ASSUME NEW h \in Handlers, Server!InputPresses(h) PROVE WindowTells'
  <2>1. PICK track \in handler[h].left : window' = Server!Pressed(window, track)
    BY <1>8 DEF Server!InputPresses
  <2>2. before' = before /\ track \in PointerTracks
    BY <1>8, <2>1 DEF Server!InputPresses, PreviewTypes, Serving
  <2> QED
    BY <1>1, <2>1, <2>2, PressedTells DEF WindowTells
<1>9. ASSUME NEW h \in Handlers, Server!FrameEnds(h) PROVE WindowTells'
  <2>1. /\ window' = [window EXCEPT !.pressed = {}, !.released = {}, !.touched = {}, !.lifted = {}]
        /\ before' = [keys |-> window.down, busy |-> Server!Busy(window)] /\ window \in WindowType
    BY <1>9 DEF Server!FrameEnds, Server!EdgesConsumed, Telling, WindowTells
  <2>2. window' \in WindowType
    BY <2>1 DEF WindowType
  <2>3. /\ window'.down = window.down /\ window'.finger = window.finger
        /\ window'.pressed = {} /\ window'.released = {} /\ window'.touched = {} /\ window'.lifted = {}
    BY <2>1 DEF WindowType
  <2>4. Server!Busy(window') = Server!Busy(window)
    BY <2>3 DEF Server!Busy
  <2>5. before'.keys = window.down /\ before'.busy = Server!Busy(window)
    BY <2>1
  <2> QED
    BY <2>2, <2>3, <2>4, <2>5 DEF WindowTells, Telling, KeysTell, FingersTell
<1>10. ASSUME NEW h \in Handlers, NEW restart, Server!ControlEnters(h, restart) PROVE WindowTells'
  BY <1>4, <1>10 DEF Server!ControlEnters
<1>11. ASSUME NEW h \in Handlers,
             \/ \E report \in Server!Reports : Server!InputArrives(h, report)
             \/ Server!InputReported(h) \/ Server!InputNotes(h) \/ Server!FrameBegins(h) \/ Server!Pause(h)
             \/ Server!ResetEnters(h) \/ Server!ResetLeaves(h) \/ Server!Asks(h) \/ Server!Answered(h)
      PROVE WindowTells'
  <2>1. window' = window /\ before' = before
    BY <1>11 DEF Server!InputArrives, Server!InputReported, Server!InputNotes, Server!FrameBegins,
       Server!Pause, Server!ResetEnters,
                 Server!ResetLeaves, Server!Asks, Server!Answered
  <2> QED
    BY <1>3, <2>1
<1>12. CASE Server!LoopLook \/ Server!Edit \/ UNCHANGED Server!vars
  BY <1>3, <1>12 DEF Server!LoopLook, Server!Edit, Server!vars
<1>13. CASE Server!LoopEnters
  BY <1>4, <1>13 DEF Server!LoopEnters
<1> QED
  BY <1>5, <1>6, <1>7, <1>8, <1>9, <1>10, <1>11, <1>12, <1>13 DEF Server!Next

LEMMA PreviewBegins ==
  ASSUME PreviewConstants, Server!Init
  PROVE  PreviewTypes /\ GameLocked /\ WindowTells
<1>1. PreviewTypes
  BY DEF Server!Init, Server!Idle, PreviewTypes, Serving
<1>2. GameLocked
  BY DEF Server!Init, Server!Idle, Server!Inside, GameLocked
<1>3. WindowTells
  BY DEF Server!Init, Server!NewWindow, Server!Busy, WindowTells, Telling, KeysTell, FingersTell,
     WindowType
<1> QED
  BY <1>1, <1>2, <1>3

\* What steps, draws, resets or rebuilds the game, and what presses and lifts
\* fingers in its window, is one thread at a time, for any number of requests,
\* and there is one game that is open (run_game.py's runtime.lock).
THEOREM OneThreadInTheGame == PreviewConstants => (Server!Spec => []Server!OneInTheGame)
<1> SUFFICES ASSUME PreviewConstants PROVE Server!Spec => []Server!OneInTheGame
  OBVIOUS
<1>1. Server!Init => PreviewTypes /\ GameLocked
  BY PreviewBegins
<1>2. PreviewTypes /\ GameLocked /\ [Server!Next]_Server!vars => (PreviewTypes /\ GameLocked)'
  BY TypesKept, LockKept
<1>3. GameLocked => Server!OneInTheGame
  BY OneStepper
<1> QED
  BY <1>1, <1>2, <1>3, PTL DEF Server!Spec

\* At any time the edges of the window tell exactly what has changed since its
\* last frame ended, for any fingers, slots and requests: no key or finger
\* that changed is missed, and none is seen that did not.
THEOREM EdgesAreTrue == PreviewConstants => (Server!Spec => []Server!EdgesTellChanges)
<1> SUFFICES ASSUME PreviewConstants PROVE Server!Spec => []Server!EdgesTellChanges
  OBVIOUS
<1>1. Server!Init => PreviewTypes /\ WindowTells
  BY PreviewBegins
<1>2. PreviewTypes /\ WindowTells /\ [Server!Next]_Server!vars => (PreviewTypes /\ WindowTells)'
  BY TypesKept, TellingKept
<1>3. WindowTells => Server!EdgesTellChanges
  BY DEF WindowTells, Telling, KeysTell, FingersTell, Server!EdgesTellChanges
<1> QED
  BY <1>1, <1>2, <1>3, PTL DEF Server!Spec

\* No finger is in two slots.
Apart(w) == \A s, t \in Server!Slot : s # t /\ w.finger[s] # None => w.finger[s] # w.finger[t]
\* What the page is thought to have reported last, as far as it is certain.
Noted(fingers) ==
  /\ mixed = "told" => Server!Touching(window) = fingers
  /\ mixed = "rebuilt" => Server!Touching(window) \subseteq fingers
\* While reports do not overlap, the one under way presses its fingers one by
\* one, and those it does not press were lifted.
Underway(h) ==
  /\ handler[h].pc = "press" => /\ Server!Touching(window) \subseteq handler[h].fingers
                                /\ handler[h].fingers \ handler[h].left \subseteq Server!Touching(window)
  /\ handler[h].pc = "note" => Noted(handler[h].fingers)
FingersKept ==
  /\ Apart(window) /\ mixed \in {"told", "rebuilt", "mixed"}
  /\ \A h \in Handlers : Server!Reporting(h) =>
       Cardinality(handler[h].fingers) <= PointerSlots /\ handler[h].left \subseteq handler[h].fingers
  /\ \A h \in Handlers : handler[h].pc = "lift" => handler[h].left = handler[h].fingers
  /\ mixed # "mixed" =>
       /\ \A g, h \in Handlers : Server!Reporting(g) /\ Server!Reporting(h) => g = h
       /\ (\A h \in Handlers : handler[h].pc \notin {"press", "note"}) => Noted(reported)
       /\ \A h \in Handlers : Underway(h)

\* A finger is pressed into the first free slot, if it is in none.
LEMMA PressedFingers ==
  ASSUME PointerSlots \in Nat, None \notin PointerTracks, NEW w \in WindowType, Apart(w), NEW track \in PointerTracks
  PROVE  /\ Apart(Server!Pressed(w, track))
         /\ \/ Server!Touching(Server!Pressed(w, track)) = Server!Touching(w) \cup {track}
            \/ Server!Busy(w) = Server!Slot /\ Server!Pressed(w, track) = w
<1> DEFINE v == Server!Pressed(w, track)
           free == Server!Slot \ Server!Busy(w)
           f == Server!First(free)
<1>1. CASE track \in Server!Touching(w)
  <2>1. v = w /\ Server!Touching(w) = Server!Touching(w) \cup {track}
    BY <1>1 DEF Server!Pressed
  <2> QED
    BY <2>1
<1>2. CASE track \notin Server!Touching(w) /\ free = {}
  BY <1>2 DEF Server!Pressed, Server!Busy
<1>3. CASE track \notin Server!Touching(w) /\ free # {}
  <2>1. f \in free
    <3>1. free \in SUBSET (1 .. PointerSlots)
      BY DEF Server!Slot
    <3>2. \E s \in free : \A t \in free : s <= t
      <4> HIDE DEF free
      <4> QED
        BY <1>3, <3>1, LeastExists
    <3> QED
      BY <3>2 DEF Server!First
  <2> DEFINE u == [w EXCEPT !.finger = [w.finger EXCEPT ![f] = track]]
  <2>2. v = [u EXCEPT !.touched = w.touched \cup {f}]
    BY <1>3 DEF Server!Pressed
  <2>3. f \in Server!Slot /\ w.finger[f] = None /\ w.finger \in [Server!Slot -> PointerTracks \cup {None}]
    BY <2>1 DEF Server!Busy, WindowType
  <2> HIDE DEF f
  <2>4. u.finger = [w.finger EXCEPT ![f] = track] /\ u \in WindowType
    BY <2>3 DEF WindowType
  <2>5. v.finger = [w.finger EXCEPT ![f] = track]
    BY <2>2, <2>4 DEF WindowType
  <2>6. v.finger[f] = track /\ track # None /\ \A s \in Server!Slot : s # f => v.finger[s] = w.finger[s]
    BY <2>3, <2>5
  <2> HIDE DEF v
  <2>7. \A s \in Server!Slot : w.finger[s] # track
    BY <1>3 DEF Server!Touching
  <2>8. Apart(v)
    BY <2>3, <2>6, <2>7 DEF Apart
  <2>9. Server!Touching(v) = Server!Touching(w) \cup {track}
    <3>1. Server!Touching(v) \subseteq Server!Touching(w) \cup {track}
      BY <2>6 DEF Server!Touching
    <3>2. Server!Touching(w) \cup {track} \subseteq Server!Touching(v)
      BY <2>3, <2>6 DEF Server!Touching
    <3> QED
      BY <3>1, <3>2
  <2> QED
    BY <2>8, <2>9 DEF v
<1> QED
  BY <1>1, <1>2, <1>3

LEMMA ReleasedFingers ==
  ASSUME None \notin PointerTracks, NEW w \in WindowType, Apart(w), NEW gone \in SUBSET PointerTracks
  PROVE  /\ Apart(Server!Released(w, gone))
         /\ Server!Touching(Server!Released(w, gone)) = Server!Touching(w) \ gone
<1> DEFINE v == Server!Released(w, gone)
           L == {s \in Server!Slot : w.finger[s] \in gone}
           fingers == [s \in Server!Slot |-> IF w.finger[s] \in gone THEN None ELSE w.finger[s]]
           u == [w EXCEPT !.finger = fingers]
<1>1. v = [u EXCEPT !.lifted = w.lifted \cup L]
  BY DEF Server!Released
<1>2. fingers \in [Server!Slot -> PointerTracks \cup {None}]
  BY DEF WindowType
<1>3. \A s \in Server!Slot : fingers[s] = IF w.finger[s] \in gone THEN None ELSE w.finger[s]
  OBVIOUS
<1> HIDE DEF fingers, L
<1>4. u.finger = fingers /\ u \in WindowType
  BY <1>2 DEF WindowType
<1>5. v.finger = fingers
  BY <1>1, <1>4 DEF WindowType
<1> HIDE DEF v
<1>6. Apart(v)
  BY <1>3, <1>5 DEF Apart
<1>7. Server!Touching(v) = Server!Touching(w) \ gone
  BY <1>3, <1>5 DEF Server!Touching
<1> QED
  BY <1>6, <1>7 DEF v

\* A report finds a slot for each of its fingers once the others are lifted.
LEMMA RoomForAll ==
  ASSUME PreviewConstants, NEW w \in WindowType, Apart(w), NEW fingers \in SUBSET PointerTracks,
         Cardinality(fingers) <= PointerSlots, Server!Touching(w) \subseteq fingers, Server!Busy(w) = Server!Slot
  PROVE  Server!Touching(w) = fingers
<1> DEFINE f == [s \in 1 .. PointerSlots |-> w.finger[s]]
<1>1. IsFiniteSet(fingers) /\ PointerSlots \in Nat /\ None \notin PointerTracks
  BY FS_Subset DEF PreviewConstants
<1>2. \A s \in 1 .. PointerSlots : w.finger[s] # None /\ w.finger[s] \in fingers
  BY DEF Server!Busy, Server!Slot, Server!Touching
<1>3. f \in [1 .. PointerSlots -> fingers]
  BY <1>2
<1>4. \A a, b \in 1 .. PointerSlots : f[a] = f[b] => a = b
  BY <1>2 DEF Apart, Server!Slot
<1>5. f \in Injection(1 .. PointerSlots, fingers)
  BY <1>3, <1>4 DEF Injection, IsInjective
<1> HIDE DEF f
<1>6. Cardinality(1 .. PointerSlots) = PointerSlots
  <2>1. 1 \in Int /\ PointerSlots \in Int
    BY <1>1
  <2>2. Cardinality(1 .. PointerSlots) = IF 1 > PointerSlots THEN 0 ELSE PointerSlots - 1 + 1
    BY <2>1, FS_Interval, Zenon
  <2> QED
    BY <1>1, <2>2
<1>7. /\ Cardinality(1 .. PointerSlots) <= Cardinality(fingers)
      /\ Cardinality(1 .. PointerSlots) = Cardinality(fingers) <=> f \in Surjection(1 .. PointerSlots, fingers)
  BY <1>1, <1>5, FS_Injection
<1>8. Cardinality(fingers) \in Nat
  BY <1>1, FS_CardinalityType
<1>9. f \in Surjection(1 .. PointerSlots, fingers)
  BY <1>1, <1>6, <1>7, <1>8
<1>10. \A t \in fingers : \E s \in 1 .. PointerSlots : w.finger[s] = t
  BY <1>9 DEF Surjection, f
<1>11. fingers \subseteq Server!Touching(w)
  BY <1>1, <1>10 DEF Server!Touching, Server!Slot
<1> QED
  BY <1>11

\* The touch points a game counts and asks for by index are the fingers in the
\* slots: the places of the busy slots among themselves are 0, 1, 2 and so on.
LEMMA EachHasAnIndex ==
  ASSUME PreviewConstants, window \in WindowType
  PROVE  {Server!TouchId(i) : i \in 0 .. Server!TouchCount - 1} = Server!Touching(window)
<1> DEFINE B == Server!Busy(window)
           n == Cardinality(B)
           Under(s) == {t \in B : t < s}
           rank == [s \in B |-> Cardinality(Under(s))]
<1>1. \A S : Server!Cardinality(S) = Cardinality(S)
  BY DEF Server!Cardinality, Cardinality
<1>2. B \in SUBSET (1 .. PointerSlots) /\ IsFiniteSet(B) /\ n \in Nat
  <2>1. B \in SUBSET (1 .. PointerSlots)
    BY DEF Server!Busy, Server!Slot
  <2>2. 1 \in Int /\ PointerSlots \in Int
    BY DEF PreviewConstants
  <2>3. IsFiniteSet(1 .. PointerSlots)
    BY <2>2, FS_Interval, Zenon
  <2> QED
    BY <2>1, <2>3, FS_Subset, FS_CardinalityType
<1>3. \A s \in B : window.finger[s] # None /\ s \in Server!Slot
  BY DEF Server!Busy
<1>4. Server!Touching(window) = {window.finger[s] : s \in B}
  BY DEF Server!Touching, Server!Busy
<1>5. Server!TouchCount = n
  BY <1>1 DEF Server!TouchCount
<1>6. ASSUME NEW i
      PROVE  Server!TouchId(i) = LET hits == {s \in B : Cardinality(Under(s)) = i}
                                 IN IF hits = {} THEN -1 ELSE window.finger[Server!First(hits)]
  BY <1>1 DEF Server!TouchId
<1> HIDE DEF B
<1>7. ASSUME NEW s \in B PROVE Cardinality(Under(s)) \in 0 .. n - 1
  <2>1. Under(s) \in SUBSET (B \ {s}) /\ B \ {s} \in SUBSET B
    BY <1>2
  <2>2. IsFiniteSet(B \ {s}) /\ Cardinality(B \ {s}) = n - 1
    BY <1>2, FS_RemoveElement
  <2>3. IsFiniteSet(Under(s)) /\ Cardinality(Under(s)) <= n - 1
    BY <2>1, <2>2, FS_Subset
  <2>4. Cardinality(Under(s)) \in Nat
    BY <2>3, FS_CardinalityType
  <2> QED
    BY <1>2, <2>3, <2>4
<1>8. ASSUME NEW s \in B, NEW t \in B, s < t PROVE Cardinality(Under(s)) # Cardinality(Under(t))
  <2>1. Under(s) \in SUBSET Under(t) /\ s \in Under(t) /\ s \notin Under(s)
    <3>1. s \in Int /\ t \in Int /\ \A r \in B : r \in Int
      BY <1>2
    <3>2. \A r \in B : r < s => r < t
      BY <1>8, <3>1
    <3>3. ~(s < s) /\ s < t
      BY <1>8, <3>1
    <3>4. Under(s) \subseteq Under(t)
      BY <3>2, Zenon
    <3>5. s \in Under(t) /\ s \notin Under(s)
      BY <3>3, Zenon
    <3> QED
      BY <3>4, <3>5, Zenon
  <2>2. IsFiniteSet(Under(t))
    <3>1. Under(t) \in SUBSET B
      OBVIOUS
    <3> QED
      BY <1>2, <3>1, FS_Subset
  <2> HIDE DEF Under
  <2> QED
    BY <2>1, <2>2, FS_Subset
<1>9. ASSUME NEW s \in B, NEW t \in B, Cardinality(Under(s)) = Cardinality(Under(t)) PROVE s = t
  <2>1. s \in Nat /\ t \in Nat
    BY <1>2
  <2>2. ~(s < t) /\ ~(t < s)
    BY <1>8, <1>9
  <2> QED
    BY <2>1, <2>2
<1> HIDE DEF Under
<1>10. rank \in Injection(B, 0 .. n - 1)
  BY <1>7, <1>9 DEF Injection, IsInjective
<1>11. IsFiniteSet(0 .. n - 1) /\ Cardinality(0 .. n - 1) = n
  <2>1. 0 \in Int /\ n - 1 \in Int
    BY <1>2
  <2> DEFINE m == n - 1
  <2>2. m \in Int /\ m = n - 1
    BY <2>1
  <2> HIDE DEF m
  <2>3. IsFiniteSet(0 .. m) /\ Cardinality(0 .. m) = IF 0 > m THEN 0 ELSE m - 0 + 1
    BY <2>1, <2>2, FS_Interval, Zenon
  <2> QED
    BY <1>2, <2>2, <2>3
<1>12. rank \in Surjection(B, 0 .. n - 1)
  <2> HIDE DEF rank
  <2> QED
    BY <1>10, <1>11, FS_Injection, Zenon
<1>13. \A i \in 0 .. n - 1 : \E s \in B : Cardinality(Under(s)) = i
  BY <1>12 DEF Surjection
<1> HIDE DEF rank, n
<1>14. ASSUME NEW s \in B PROVE Server!TouchId(Cardinality(Under(s))) = window.finger[s]
  <2> DEFINE hits == {t \in B : Cardinality(Under(t)) = Cardinality(Under(s))}
  <2>1. hits = {s}
    BY <1>9
  <2>2. Server!First({s}) = s
    BY <1>2 DEF Server!First
  <2> QED
    BY <1>6, <2>1, <2>2
<1>15. \A i \in 0 .. n - 1 : \E s \in B : Server!TouchId(i) = window.finger[s]
  BY <1>13, <1>14
<1>16. \A s \in B : \E i \in 0 .. n - 1 : Server!TouchId(i) = window.finger[s]
  BY <1>7, <1>14
<1> QED
  BY <1>4, <1>5, <1>15, <1>16

\* Nothing the fingers depend on has changed.
LEMMA FingersUntouched ==
  ASSUME FingersKept, UNCHANGED <<reported, mixed>>, window'.finger = window.finger,
         \A h \in Handlers : handler'[h] = handler[h] \/ ~(Server!Reporting(h) \/ Server!Reporting(h)')
  PROVE  FingersKept'
<1>1. Server!Touching(window') = Server!Touching(window) /\ Apart(window')
  BY DEF Server!Touching, Apart, FingersKept
<1>2. \A h \in Handlers : handler'[h].pc \in {"lift", "press", "note"} <=> handler[h].pc \in {"lift", "press", "note"}
  BY DEF Server!Reporting
<1>3. \A h \in Handlers : handler'[h].pc \in {"lift", "press", "note"} => handler'[h] = handler[h]
  BY DEF Server!Reporting
<1>4. (\A h \in Handlers : handler'[h].pc \notin {"press", "note"}) => \A h \in Handlers : handler[h].pc \notin {"press", "note"}
  BY DEF Server!Reporting
<1>5. \A S : Noted(S) => Noted(S)'
  BY <1>1 DEF Noted
<1>6. \A h \in Handlers : Underway(h) => Underway(h)'
  BY <1>1, <1>3, <1>5 DEF Underway
<1> QED
  BY <1>1, <1>2, <1>3, <1>4, <1>5, <1>6 DEF FingersKept, Server!Reporting, Noted

LEMMA ReportMoves ==
  ASSUME PreviewTypes, NEW h \in Handlers, handler[h].pc \in {"lift", "press", "note"}, NEW p, Server!Goes(h, p)
  PROVE  /\ handler'[h].pc = p /\ handler'[h].fingers = handler[h].fingers /\ handler'[h].left = handler[h].left
         /\ \A g \in Handlers : g # h => handler'[g] = handler[g]
<1> DEFINE r == handler[h]
<1>1. r \in [pc : {"lift", "press", "note"}, fingers : SUBSET PointerTracks, left : SUBSET PointerTracks]
  BY DEF PreviewTypes, Serving
<1>2. handler' = [handler EXCEPT ![h] = [r EXCEPT !.pc = p]]
  BY DEF Server!Goes
<1>3. [r EXCEPT !.pc = p].pc = p /\ [r EXCEPT !.pc = p].fingers = r.fingers /\ [r EXCEPT !.pc = p].left = r.left
  BY <1>1
<1> HIDE DEF r
<1>4. handler'[h] = [r EXCEPT !.pc = p] /\ \A g \in Handlers : g # h => handler'[g] = handler[g]
  BY <1>2 DEF PreviewTypes
<1> QED
  BY <1>3, <1>4 DEF r

\* A game that is built anew has no finger.
LEMMA RebuiltFingers ==
  ASSUME PreviewConstants, GameLocked, FingersKept, lock = None, Server!Reload, reported' = reported,
         \A h \in Handlers : handler'[h] = handler[h] \/ ~(Server!Reporting(h) \/ Server!Reporting(h)')
  PROVE  FingersKept'
<1>1. CASE window' = window /\ mixed' = mixed
  BY <1>1, FingersUntouched
<1>2. CASE /\ window' = Server!NewWindow
           /\ mixed' = IF mixed = "mixed" /\ \E h \in Handlers : Server!Reporting(h) THEN mixed ELSE "rebuilt"
  <2>1. Server!Touching(window') = {} /\ Apart(window')
    <3>1. \A s \in Server!Slot : window'.finger[s] = None
      BY <1>2 DEF Server!NewWindow
    <3> QED
      BY <3>1 DEF Server!Touching, Apart
  <2>2. \A h \in Handlers : handler'[h].pc # "press"
    <3>1. \A h \in Handlers : handler[h].pc # "press"
      BY DEF PreviewConstants, GameLocked, Server!Inside
    <3> QED
      BY <3>1 DEF Server!Reporting
  <2>3. \A h \in Handlers : Server!Reporting(h)' => Server!Reporting(h) /\ handler'[h] = handler[h]
    BY DEF Server!Reporting
  <2>4. \A h \in Handlers : Server!Reporting(h)' =>
          Cardinality(handler'[h].fingers) <= PointerSlots /\ handler'[h].left \subseteq handler'[h].fingers
    BY <2>3 DEF FingersKept
  <2>5. \A h \in Handlers : handler'[h].pc = "lift" => handler'[h].left = handler'[h].fingers
    BY <2>3 DEF FingersKept, Server!Reporting
  <2>6. mixed' \in {"told", "rebuilt", "mixed"} /\ mixed' # "told"
    BY <1>2 DEF FingersKept
  <2>7. \A S : mixed' # "mixed" => Noted(S)'
    BY <2>1, <2>6 DEF Noted
  <2>8. mixed' # "mixed" => \A g, h \in Handlers : Server!Reporting(g)' /\ Server!Reporting(h)' => g = h
    BY <1>2, <2>3 DEF FingersKept
  <2> QED
    BY <2>1, <2>2, <2>4, <2>5, <2>6, <2>7, <2>8 DEF FingersKept, Underway, Noted
<1> QED
  BY <1>1, <1>2 DEF Server!Reload, Server!Unchanged

LEMMA ArrivalKeepsFingers ==
  ASSUME PreviewConstants, PreviewTypes, FingersKept, NEW h \in Handlers, NEW report \in Server!Reports,
         Server!InputArrives(h, report)
  PROVE  FingersKept'
<1>1. report.fingers \in SUBSET PointerTracks /\ Cardinality(report.fingers) <= PointerSlots
  <2>1. \A S : Server!Cardinality(S) = Cardinality(S)
    BY DEF Server!Cardinality, Cardinality
  <2> QED
    BY <2>1 DEF Server!Reports
<1> DEFINE r == [pc |-> "lift", fingers |-> report.fingers, left |-> report.fingers]
<1>2. /\ handler[h].pc = "idle" /\ handler' = [handler EXCEPT ![h] = r]
      /\ reported' = reported /\ window' = window
      /\ mixed' = IF \E other \in Handlers : Server!Reporting(other) THEN "mixed" ELSE mixed
  BY DEF Server!InputArrives, Server!Idle
<1>3. r.pc = "lift" /\ r.fingers = report.fingers /\ r.left = report.fingers
  OBVIOUS
<1> HIDE DEF r
<1>4. handler'[h] = r /\ \A g \in Handlers : g # h => handler'[g] = handler[g]
  BY <1>2 DEF PreviewTypes
<1>5. \A g \in Handlers : Server!Reporting(g)' =>
        Cardinality(handler'[g].fingers) <= PointerSlots /\ handler'[g].left \subseteq handler'[g].fingers
  BY <1>1, <1>3, <1>4 DEF FingersKept, Server!Reporting
<1>6. \A g \in Handlers : handler'[g].pc = "lift" => handler'[g].left = handler'[g].fingers
  BY <1>3, <1>4 DEF FingersKept
<1>7. CASE \E other \in Handlers : Server!Reporting(other)
  BY <1>2, <1>5, <1>7, <1>6 DEF FingersKept, Server!Reporting, Apart
<1>8. CASE \A other \in Handlers : ~Server!Reporting(other)
  <2>1. mixed' = mixed /\ \A g \in Handlers : handler[g].pc \notin {"press", "note"}
    BY <1>2, <1>8 DEF Server!Reporting
  <2>2. \A g \in Handlers : g # h => ~Server!Reporting(g)'
    BY <1>4, <1>8 DEF Server!Reporting
  <2>3. \A g \in Handlers : handler'[g].pc \notin {"press", "note"}
    BY <1>3, <1>4, <2>1
  <2>4. mixed # "mixed" => Noted(reported)'
    BY <1>2, <2>1 DEF FingersKept, Noted
  <2> QED
    BY <1>2, <1>5, <1>6, <2>1, <2>2, <2>3, <2>4 DEF FingersKept, Underway, Apart
<1> QED
  BY <1>7, <1>8

LEMMA LiftKeepsFingers ==
  ASSUME PreviewConstants, PreviewTypes, WindowTells, FingersKept, NEW h \in Handlers, Server!InputLifts(h)
  PROVE  FingersKept'
<1>1. /\ handler[h].pc = "lift" /\ reported' = reported /\ mixed' = mixed
      /\ window' = Server!Released(window, reported \ handler[h].fingers) /\ Server!Goes(h, "press")
  BY DEF Server!InputLifts, Server!Settings
<1>2. /\ handler'[h].pc = "press" /\ handler'[h].fingers = handler[h].fingers /\ handler'[h].left = handler[h].left
      /\ \A g \in Handlers : g # h => handler'[g] = handler[g]
  BY <1>1, ReportMoves
<1>3. Apart(window') /\ Server!Touching(window') = Server!Touching(window) \ (reported \ handler[h].fingers)
  <2>1. reported \ handler[h].fingers \in SUBSET PointerTracks
    BY DEF PreviewTypes
  <2> QED
    BY <1>1, <2>1, ReleasedFingers DEF PreviewConstants, WindowTells, Telling, FingersKept
<1>4. \A g \in Handlers : Server!Reporting(g)' =>
        Server!Reporting(g) /\ handler'[g].fingers = handler[g].fingers /\ handler'[g].left = handler[g].left
  BY <1>1, <1>2 DEF Server!Reporting
<1>5. ASSUME mixed # "mixed" PROVE \A g \in Handlers : Underway(g)'
  <2>1. \A g \in Handlers : g # h => ~Server!Reporting(g)'
    BY <1>1, <1>2, <1>5 DEF FingersKept, Server!Reporting
  <2>2. \A g \in Handlers : handler[g].pc \notin {"press", "note"}
    BY <1>1, <1>2, <2>1 DEF Server!Reporting
  <2>3. Server!Touching(window) \subseteq reported
    BY <1>5, <2>2 DEF FingersKept, Noted
  <2>4. handler[h].fingers = handler[h].left
    BY <1>1, <1>5 DEF FingersKept
  <2> QED
    BY <1>2, <1>3, <2>1, <2>3, <2>4 DEF Underway, Server!Reporting
<1> QED
  BY <1>1, <1>2, <1>3, <1>4, <1>5 DEF FingersKept

LEMMA PressKeepsFingers ==
  ASSUME PreviewConstants, PreviewTypes, WindowTells, FingersKept, NEW h \in Handlers, Server!InputPresses(h)
  PROVE  FingersKept'
<1>1. handler[h].pc = "press" /\ reported' = reported /\ mixed' = mixed
  BY DEF Server!InputPresses, Server!Settings
<1>2. PICK track \in handler[h].left :
        window' = Server!Pressed(window, track) /\ handler' = [handler EXCEPT ![h].left = @ \ {track}]
  BY DEF Server!InputPresses
<1> DEFINE r == handler[h]
<1>3. r \in [pc : {"lift", "press", "note"}, fingers : SUBSET PointerTracks, left : SUBSET PointerTracks]
  BY <1>1 DEF PreviewTypes, Serving
<1>4. /\ handler' = [handler EXCEPT ![h] = [r EXCEPT !.left = r.left \ {track}]]
      /\ [r EXCEPT !.left = r.left \ {track}].pc = r.pc /\ [r EXCEPT !.left = r.left \ {track}].fingers = r.fingers
      /\ [r EXCEPT !.left = r.left \ {track}].left = r.left \ {track}
  BY <1>2, <1>3
<1> HIDE DEF r
<1>5. handler'[h] = [r EXCEPT !.left = r.left \ {track}] /\ \A g \in Handlers : g # h => handler'[g] = handler[g]
  BY <1>4 DEF PreviewTypes
<1>6. /\ handler'[h].pc = "press" /\ handler'[h].fingers = handler[h].fingers /\ handler'[h].left = handler[h].left \ {track}
      /\ \A g \in Handlers : g # h => handler'[g] = handler[g]
  BY <1>1, <1>4, <1>5 DEF r
<1>7. window \in WindowType /\ Apart(window) /\ track \in PointerTracks /\ handler[h].fingers \in SUBSET PointerTracks
      /\ Cardinality(handler[h].fingers) <= PointerSlots /\ PointerSlots \in Nat /\ None \notin PointerTracks
  BY <1>1, <1>2, <1>3 DEF WindowTells, Telling, FingersKept, PreviewConstants, Server!Reporting, r
<1>8. /\ Apart(window')
      /\ \/ Server!Touching(window') = Server!Touching(window) \cup {track}
         \/ Server!Busy(window) = Server!Slot /\ window' = window
  BY <1>2, <1>7, PressedFingers
<1>9. \A g \in Handlers : Server!Reporting(g)' => Server!Reporting(g) /\ handler'[g].fingers = handler[g].fingers
  BY <1>1, <1>6 DEF Server!Reporting
<1>10. ASSUME mixed # "mixed" PROVE \A g \in Handlers : Underway(g)'
  <2>1. \A g \in Handlers : g # h => ~Server!Reporting(g)'
    BY <1>1, <1>6, <1>10 DEF FingersKept, Server!Reporting
  <2>2. /\ Server!Touching(window) \subseteq handler[h].fingers
        /\ handler[h].fingers \ handler[h].left \subseteq Server!Touching(window)
    BY <1>1, <1>10 DEF FingersKept, Underway
  <2>3. Server!Touching(window') \subseteq Server!Touching(window) \cup {track}
        /\ (track \in handler[h].fingers => Server!Touching(window) \cup {track} \subseteq Server!Touching(window'))
    <3>1. CASE Server!Touching(window') = Server!Touching(window) \cup {track}
      BY <3>1
    <3>2. CASE Server!Busy(window) = Server!Slot /\ window' = window
      <4>1. Server!Touching(window) = handler[h].fingers
        BY <1>7, <2>2, <3>2, RoomForAll
      <4> QED
        BY <3>2, <4>1
    <3> QED
      BY <1>8, <3>1, <3>2
  <2>4. handler[h].left \subseteq handler[h].fingers
    BY <1>1 DEF FingersKept, Server!Reporting
  <2> QED
    BY <1>2, <1>6, <2>1, <2>2, <2>3, <2>4 DEF Underway, Server!Reporting
<1>11. \A g \in Handlers : handler'[g].pc = "lift" => handler'[g].left = handler'[g].fingers
  BY <1>6 DEF FingersKept
<1>12. \A g \in Handlers : Server!Reporting(g) => handler'[g].left \subseteq handler'[g].fingers
  BY <1>6, <1>9 DEF FingersKept, Server!Reporting
<1> QED
  BY <1>1, <1>6, <1>8, <1>9, <1>10, <1>11, <1>12 DEF FingersKept

LEMMA ReportKeepsFingers ==
  ASSUME PreviewTypes, FingersKept, NEW h \in Handlers, Server!InputReported(h)
  PROVE  FingersKept'
<1>1. /\ handler[h].pc = "press" /\ handler[h].left = {} /\ reported' = reported /\ window' = window
      /\ mixed' = (IF mixed = "rebuilt" THEN "told" ELSE mixed) /\ Server!Goes(h, "note")
  BY DEF Server!InputReported, Server!Settings
<1>2. /\ handler'[h].pc = "note" /\ handler'[h].fingers = handler[h].fingers /\ handler'[h].left = handler[h].left
      /\ \A g \in Handlers : g # h => handler'[g] = handler[g]
  BY <1>1, ReportMoves
<1>3. \A g \in Handlers : Server!Reporting(g)' =>
        Server!Reporting(g) /\ handler'[g].fingers = handler[g].fingers /\ handler'[g].left = handler[g].left
  BY <1>1, <1>2 DEF Server!Reporting
<1>4. ASSUME mixed # "mixed" PROVE \A g \in Handlers : Underway(g)'
  <2>1. \A g \in Handlers : g # h => ~Server!Reporting(g)'
    BY <1>1, <1>2, <1>4 DEF FingersKept, Server!Reporting
  <2>2. Server!Touching(window) = handler[h].fingers
    BY <1>1, <1>4 DEF FingersKept, Underway
  <2> QED
    BY <1>1, <1>2, <2>1, <2>2 DEF Underway, Noted, Server!Reporting
<1>5. mixed' # "mixed" <=> mixed # "mixed"
  BY <1>1
<1> QED
  BY <1>1, <1>2, <1>3, <1>4, <1>5 DEF FingersKept, Apart

LEMMA NoteKeepsFingers ==
  ASSUME PreviewTypes, FingersKept, NEW h \in Handlers, Server!InputNotes(h)
  PROVE  FingersKept'
<1>1. /\ handler[h].pc = "note" /\ handler' = [handler EXCEPT ![h] = [pc |-> "read"]]
      /\ reported' = handler[h].fingers /\ window' = window /\ mixed' = mixed
  BY DEF Server!InputNotes
<1>2. handler'[h].pc = "read" /\ \A g \in Handlers : g # h => handler'[g] = handler[g]
  BY <1>1 DEF PreviewTypes
<1>3. \A g \in Handlers : Server!Reporting(g)' => Server!Reporting(g) /\ handler'[g] = handler[g]
  BY <1>2 DEF Server!Reporting
<1>4. ASSUME mixed # "mixed" PROVE Noted(reported)' /\ \A g \in Handlers : ~Server!Reporting(g)'
  <2>1. Noted(handler[h].fingers)
    BY <1>1, <1>4 DEF FingersKept, Underway
  <2>2. \A g \in Handlers : ~Server!Reporting(g)'
    BY <1>1, <1>2, <1>4 DEF FingersKept, Server!Reporting
  <2> QED
    BY <1>1, <2>1, <2>2 DEF Noted
<1> QED
  BY <1>1, <1>2, <1>3, <1>4 DEF FingersKept, Apart, Underway, Server!Reporting

LEMMA InjectedFingers ==
  ASSUME NEW w \in WindowType, NEW keys, NEW press \in BOOLEAN
  PROVE  Server!Injected(w, keys, press).finger = w.finger
<1>1. /\ \A d, p : [w EXCEPT !.down = d, !.pressed = p].finger = w.finger
      /\ \A d, p : [w EXCEPT !.down = d, !.released = p].finger = w.finger
  BY DEF WindowType
<1>2. CASE press
  <2>1. \E d, p : Server!Injected(w, keys, press) = [w EXCEPT !.down = d, !.pressed = p]
    BY <1>2 DEF Server!Injected
  <2> QED
    BY <1>1, <2>1
<1>3. CASE ~press
  <2>1. \E d, p : Server!Injected(w, keys, press) = [w EXCEPT !.down = d, !.released = p]
    BY <1>3 DEF Server!Injected
  <2> QED
    BY <1>1, <2>1
<1> QED
  BY <1>2, <1>3

LEMMA SteppedFingers ==
  ASSUME PreviewConstants, Telling(window, before), NEW wants \in SUBSET Actions, NEW restart
  PROVE  Server!Stepped(wants, restart).finger = window.finger
<1> DEFINE down == Server!KeysOf(wants)
           others == Server!KeysOf({"left", "right", "jump"}) \ down
           x == Server!Injected(window, down, TRUE)
           y == Server!Injected(x, others, FALSE)
<1>1. down \in SUBSET Keys /\ others \in SUBSET Keys
  BY KeysAreKeys DEF PreviewConstants
<1>2. Server!Stepped(wants, restart) = IF restart THEN Server!Injected(y, Server!KeysOf({"restart"}), TRUE) ELSE y
  BY DEF Server!Stepped
<1> HIDE DEF down, others
<1>3. Telling(x, before) /\ x.finger = window.finger
  BY <1>1, InjectedTells, InjectedFingers DEF Telling
<1> HIDE DEF x
<1>4. Telling(y, before) /\ y.finger = x.finger
  BY <1>1, <1>3, InjectedTells, InjectedFingers DEF Telling
<1> HIDE DEF y
<1>5. Server!Injected(y, Server!KeysOf({"restart"}), TRUE).finger = y.finger
  BY <1>4, InjectedFingers DEF Telling
<1> QED
  BY <1>2, <1>3, <1>4, <1>5

LEMMA StepKeepsFingers ==
  ASSUME PreviewConstants, PreviewTypes, GameLocked, WindowTells, FingersKept, [Server!Next]_Server!vars
  PROVE  FingersKept'
<1>1. CASE Server!LoopLook \/ Server!Edit \/ UNCHANGED Server!vars
  <2>1. UNCHANGED <<reported, mixed, window, handler>>
    BY <1>1 DEF Server!LoopLook, Server!Edit, Server!vars, Server!Settings
  <2> QED
    BY <2>1, FingersUntouched
<1>2. CASE Server!LoopEnters
  <2>1. lock = None /\ Server!Reload /\ reported' = reported /\ handler' = handler
    BY <1>2 DEF Server!LoopEnters, Server!Settings
  <2> QED
    BY <2>1, RebuiltFingers
<1>3. CASE Server!LoopSteps
  <2>1. UNCHANGED <<reported, mixed, handler>> /\ window' = Server!Stepped(loop.wants, FALSE) /\ loop.wants \in SUBSET Actions
    BY <1>3 DEF Server!LoopSteps, Server!Settings, PreviewTypes
  <2>2. window'.finger = window.finger
    BY <2>1, SteppedFingers DEF WindowTells
  <2> QED
    BY <2>1, <2>2, FingersUntouched
<1>4. ASSUME NEW h \in Handlers, NEW restart, Server!ControlEnters(h, restart) PROVE FingersKept'
  <2>1. /\ lock = None /\ Server!Reload /\ reported' = reported /\ handler[h].pc = "idle"
        /\ handler' = [handler EXCEPT ![h] = [pc |-> "step", restart |-> restart]]
    BY <1>4 DEF Server!ControlEnters, Server!Settings, Server!Idle
  <2>2. handler'[h].pc = "step" /\ \A g \in Handlers : g # h => handler'[g] = handler[g]
    BY <2>1 DEF PreviewTypes
  <2>3. \A g \in Handlers : handler'[g] = handler[g] \/ ~(Server!Reporting(g) \/ Server!Reporting(g)')
    BY <2>1, <2>2 DEF Server!Reporting
  <2> QED
    BY <2>1, <2>3, RebuiltFingers
<1>5. ASSUME NEW h \in Handlers,
             \/ Server!FrameBegins(h) \/ Server!FrameEnds(h) \/ Server!Pause(h) \/ Server!ControlSteps(h)
             \/ Server!ResetEnters(h) \/ Server!ResetLeaves(h) \/ Server!Asks(h) \/ Server!Answered(h)
      PROVE FingersKept'
  <2>1. reported' = reported /\ mixed' = mixed /\ handler[h].pc \in {"idle", "read", "draw", "reset", "step"}
    BY <1>5 DEF Server!FrameBegins, Server!FrameEnds, Server!Pause, Server!ControlSteps,
       Server!ResetEnters, Server!ResetLeaves, Server!Asks, Server!Answered, Server!Settings, Server!Idle
  <2>2. PICK r \in [pc : {"idle", "read", "draw", "reset"}] : handler' = [handler EXCEPT ![h] = r]
    BY <1>5 DEF Server!FrameBegins, Server!FrameEnds, Server!Pause, Server!ControlSteps,
       Server!ResetEnters, Server!ResetLeaves, Server!Asks, Server!Answered, Server!Idle
  <2>3. handler'[h] = r /\ r.pc \in {"idle", "read", "draw", "reset"} /\ \A g \in Handlers : g # h => handler'[g] = handler[g]
    BY <2>2 DEF PreviewTypes
  <2>4. \A g \in Handlers : handler'[g] = handler[g] \/ ~(Server!Reporting(g) \/ Server!Reporting(g)')
    BY <2>1, <2>3 DEF Server!Reporting
  <2>5. window'.finger = window.finger
    <3>1. CASE Server!FrameEnds(h)
      BY <3>1 DEF Server!FrameEnds, Server!EdgesConsumed, WindowTells, Telling, WindowType
    <3>2. CASE Server!ControlSteps(h)
      <4>1. window' = Server!Stepped({}, handler[h].restart)
        BY <3>2 DEF Server!ControlSteps
      <4> QED
        BY <4>1, SteppedFingers DEF WindowTells
    <3> QED
      BY <1>5, <3>1, <3>2 DEF Server!FrameBegins, Server!Pause, Server!ResetEnters, Server!ResetLeaves,
         Server!Asks, Server!Answered
  <2> QED
    BY <2>1, <2>4, <2>5, FingersUntouched
<1> QED
  BY <1>1, <1>2, <1>3, <1>4, <1>5, ArrivalKeepsFingers, LiftKeepsFingers, PressKeepsFingers, ReportKeepsFingers,
     NoteKeepsFingers DEF Server!Next

LEMMA FingersBegin ==
  ASSUME PreviewConstants, Server!Init
  PROVE  FingersKept
BY DEF Server!Init, Server!NewWindow, Server!Idle, Server!Reporting, Server!Touching, FingersKept, Underway, Noted, Apart

\* The window holds the fingers of the last report, each in one slot, and a
\* game that asks for the touch points by their index is told of each of them,
\* for any fingers, slots and requests, unless reports overlapped.
THEOREM FingersStayHeld == PreviewConstants => (Server!Spec => []Server!FingersAreHeld)
<1> SUFFICES ASSUME PreviewConstants PROVE Server!Spec => []Server!FingersAreHeld
  OBVIOUS
<1> DEFINE Inv == PreviewTypes /\ GameLocked /\ WindowTells /\ FingersKept
<1>1. Server!Init => Inv
  BY PreviewBegins, FingersBegin
<1>2. Inv /\ [Server!Next]_Server!vars => Inv'
  BY TypesKept, LockKept, TellingKept, StepKeepsFingers
<1>3. Inv => Server!FingersAreHeld
  <2> SUFFICES ASSUME Inv PROVE Server!FingersAreHeld
    OBVIOUS
  <2>1. {Server!TouchId(i) : i \in 0 .. Server!TouchCount - 1} = Server!Touching(window)
    BY EachHasAnIndex DEF WindowTells, Telling
  <2>2. ASSUME \A h \in Handlers : ~Server!Reporting(h)
        PROVE  /\ mixed = "told" => Server!Touching(window) = reported
               /\ mixed = "rebuilt" => Server!Touching(window) \subseteq reported
    BY <2>2 DEF FingersKept, Noted, Server!Reporting
  <2> QED
    BY <2>1, <2>2 DEF Server!FingersAreHeld, FingersKept, Apart
<1> QED
  BY <1>1, <1>2, <1>3, PTL DEF Server!Spec


(***************************************************************************)
(* Textures, maps and wall atlases                                         *)
(***************************************************************************)

TextureTypes ==
  /\ lease \in [Atlas!Asset -> Int] /\ wall \in [Walls -> Int]
  /\ texture \in [1 .. MaxTextures -> SlotType \cup {None}]
  /\ map \in [1 .. MaxMaps -> MapType \cup {None}]
  /\ shaded \in Int

\* Which slots and maps are of an asset, and which slots are shaded.
Textured == [a \in Atlas!Asset |-> {t \in 1 .. MaxTextures : texture[t] # None /\ texture[t].of = a}]
Mapped == [a \in Atlas!Asset |-> {m \in 1 .. MaxMaps : map[m] # None /\ map[m].of = a}]
Lit == {t \in 1 .. MaxTextures : texture[t] # None /\ texture[t].light # Atlas!Full}

\* A map has a slot of its own, with the atlas it names.
MapsHaveSlots ==
  /\ \A m \in 1 .. MaxMaps : map[m] # None =>
       texture[map[m].texture] # None /\ texture[map[m].texture].of = Maps[map[m].of]
  /\ \A m, k \in 1 .. MaxMaps : m # k /\ map[m] # None /\ map[k] # None => map[m].texture # map[k].texture

Amounts ==
  /\ \A a \in Atlas!Asset : lease[a] = Cardinality(Textured[a]) + Cardinality(Mapped[a]) + (IF a \in Walls THEN wall[a] ELSE 0)
  /\ shaded = Cardinality(Lit)

\* A line of the cache holds what a search of the atlas would give.
CacheTrue ==
  /\ \A t \in 1 .. MaxTextures : texture[t] # None =>
       \A l \in Atlas!Lines : texture[t].line[l] # None =>
         texture[t].line[l].frame = Atlas!FirstFrame(texture[t].of, texture[t].line[l].id)
  /\ found.got = found.want

LEMMA OneMore ==
  ASSUME NEW n \in Nat, NEW S \in SUBSET (1 .. n), NEW x \in 1 .. n
  PROVE  /\ Cardinality(S) \in Nat
         /\ x \notin S => Cardinality(S \cup {x}) = Cardinality(S) + 1
         /\ x \in S => Cardinality(S \ {x}) = Cardinality(S) - 1
<1>1. 1 \in Int /\ n \in Int
  OBVIOUS
<1>2. IsFiniteSet(1 .. n)
  BY <1>1, FS_Interval, Zenon
<1>3. IsFiniteSet(S)
  BY <1>2, FS_Subset
<1> QED
  BY <1>3, FS_CardinalityType, FS_AddElement, FS_RemoveElement

LEMMA SlotFree ==
  ASSUME TextureConstants, TextureTypes
  PROVE  /\ Atlas!FreeTexture # 0 => Atlas!FreeTexture \in 1 .. MaxTextures /\ texture[Atlas!FreeTexture] = None
         /\ Atlas!FreeMap # 0 => Atlas!FreeMap \in 1 .. MaxMaps /\ map[Atlas!FreeMap] = None
<1>1. Len(texture) = MaxTextures /\ Len(map) = MaxMaps /\ MaxTextures \in Nat /\ MaxMaps \in Nat
  BY DEF TextureConstants, TextureTypes
<1> DEFINE S == {t \in 1 .. Len(texture) : texture[t] = None}
           M == {m \in 1 .. Len(map) : map[m] = None}
<1>2. Atlas!FreeTexture = (IF S # {} THEN Atlas!Min(S) ELSE 0) /\ Atlas!FreeMap = (IF M # {} THEN Atlas!Min(M) ELSE 0)
  BY DEF Atlas!FreeTexture, Atlas!FreeMap, Atlas!SelectInSeq
<1>3. ASSUME NEW n \in Nat, NEW F \in SUBSET (1 .. n), F # {} PROVE Atlas!Min(F) \in F
  <2>1. \E i \in F : \A j \in F : i <= j
    BY <1>3, LeastExists
  <2> QED
    BY <2>1 DEF Atlas!Min
<1>4. S # {} => Atlas!Min(S) \in S
  BY <1>1, <1>3
<1>5. M # {} => Atlas!Min(M) \in M
  BY <1>1, <1>3
<1> QED
  BY <1>1, <1>2, <1>4, <1>5

LEMMA FreshTyped ==
  ASSUME TextureConstants, NEW a \in Atlas!Atlases \cup {"rgb565"}
  PROVE  /\ Atlas!Fresh(a) \in SlotType /\ Atlas!Fresh(a) # None /\ Atlas!Fresh(a).of = a /\ Atlas!Fresh(a).light = Atlas!Full
         /\ \A l \in Atlas!Lines : Atlas!Fresh(a).line[l] = None
BY DEF Atlas!Fresh, SlotType, TextureConstants

\* What a slot that is filled, and one that is given back, change.
LEMMA SlotTaken ==
  ASSUME TextureConstants, TextureTypes, NEW t \in 1 .. MaxTextures, texture[t] = None,
         NEW a \in Atlas!Atlases \cup {"rgb565"}, texture' = [texture EXCEPT ![t] = Atlas!Fresh(a)]
  PROVE  /\ texture' \in [1 .. MaxTextures -> SlotType \cup {None}]
         /\ texture'[t] # None /\ texture'[t].of = a /\ \A l \in Atlas!Lines : texture'[t].line[l] = None
         /\ \A u \in 1 .. MaxTextures : u # t => texture'[u] = texture[u]
         /\ Lit' = Lit
         /\ \A b \in Atlas!Asset : Cardinality(Textured'[b]) = IF b = a THEN Cardinality(Textured[b]) + 1 ELSE Cardinality(Textured[b])
<1>1. /\ texture' \in [1 .. MaxTextures -> SlotType \cup {None}]
      /\ texture'[t] = Atlas!Fresh(a) /\ \A u \in 1 .. MaxTextures : u # t => texture'[u] = texture[u]
  BY FreshTyped DEF TextureTypes
<1>2. Lit' = Lit
  BY <1>1, FreshTyped DEF Lit
<1>3. ASSUME NEW b \in Atlas!Asset
      PROVE  Cardinality(Textured'[b]) = IF b = a THEN Cardinality(Textured[b]) + 1 ELSE Cardinality(Textured[b])
  <2>1. Textured[b] \in SUBSET (1 .. MaxTextures) /\ t \notin Textured[b]
    BY DEF Textured
  <2>2. Textured'[b] = IF b = a THEN Textured[b] \cup {t} ELSE Textured[b]
    BY <1>1, FreshTyped DEF Textured
  <2> QED
    BY <2>1, <2>2, OneMore DEF TextureConstants
<1> QED
  BY <1>1, <1>2, <1>3, FreshTyped

LEMMA SlotGiven ==
  ASSUME TextureConstants, TextureTypes, NEW t \in 1 .. MaxTextures, texture[t] # None,
         texture' = [texture EXCEPT ![t] = None]
  PROVE  /\ texture' \in [1 .. MaxTextures -> SlotType \cup {None}]
         /\ texture'[t] = None /\ \A u \in 1 .. MaxTextures : u # t => texture'[u] = texture[u]
         /\ Cardinality(Lit') = IF texture[t].light # Atlas!Full THEN Cardinality(Lit) - 1 ELSE Cardinality(Lit)
         /\ \A b \in Atlas!Asset : Cardinality(Textured'[b]) =
              IF b = texture[t].of THEN Cardinality(Textured[b]) - 1 ELSE Cardinality(Textured[b])
<1>1. /\ texture' \in [1 .. MaxTextures -> SlotType \cup {None}]
      /\ texture'[t] = None /\ \A u \in 1 .. MaxTextures : u # t => texture'[u] = texture[u]
  BY DEF TextureTypes
<1>2. Cardinality(Lit') = IF texture[t].light # Atlas!Full THEN Cardinality(Lit) - 1 ELSE Cardinality(Lit)
  <2>1. Lit \in SUBSET (1 .. MaxTextures) /\ (t \in Lit <=> texture[t].light # Atlas!Full)
    BY DEF Lit
  <2>2. Lit' = IF texture[t].light # Atlas!Full THEN Lit \ {t} ELSE Lit
    BY <1>1 DEF Lit
  <2> QED
    BY <2>1, <2>2, OneMore DEF TextureConstants
<1>3. ASSUME NEW b \in Atlas!Asset
      PROVE  Cardinality(Textured'[b]) = IF b = texture[t].of THEN Cardinality(Textured[b]) - 1 ELSE Cardinality(Textured[b])
  <2>1. Textured[b] \in SUBSET (1 .. MaxTextures) /\ (t \in Textured[b] <=> b = texture[t].of)
    BY DEF Textured
  <2>2. Textured'[b] = IF b = texture[t].of THEN Textured[b] \ {t} ELSE Textured[b]
    BY <1>1 DEF Textured
  <2> QED
    BY <2>1, <2>2, OneMore DEF TextureConstants
<1> QED
  BY <1>1, <1>2, <1>3

\* The same for a map.
LEMMA MapTaken ==
  ASSUME TextureConstants, TextureTypes, NEW m \in 1 .. MaxMaps, map[m] = None,
         NEW r \in MapType, map' = [map EXCEPT ![m] = r]
  PROVE  /\ map' \in [1 .. MaxMaps -> MapType \cup {None}]
         /\ map'[m] = r /\ \A k \in 1 .. MaxMaps : k # m => map'[k] = map[k]
         /\ \A b \in Atlas!Asset : Cardinality(Mapped'[b]) = IF b = r.of THEN Cardinality(Mapped[b]) + 1 ELSE Cardinality(Mapped[b])
<1>1. /\ map' \in [1 .. MaxMaps -> MapType \cup {None}]
      /\ map'[m] = r /\ \A k \in 1 .. MaxMaps : k # m => map'[k] = map[k]
  BY DEF TextureTypes
<1>2. ASSUME NEW b \in Atlas!Asset
      PROVE  Cardinality(Mapped'[b]) = IF b = r.of THEN Cardinality(Mapped[b]) + 1 ELSE Cardinality(Mapped[b])
  <2>1. Mapped[b] \in SUBSET (1 .. MaxMaps) /\ m \notin Mapped[b]
    BY DEF Mapped
  <2>2. Mapped'[b] = IF b = r.of THEN Mapped[b] \cup {m} ELSE Mapped[b]
    BY <1>1 DEF Mapped, TextureConstants
  <2> QED
    BY <2>1, <2>2, OneMore DEF TextureConstants
<1> QED
  BY <1>1, <1>2

LEMMA MapGiven ==
  ASSUME TextureConstants, TextureTypes, NEW m \in 1 .. MaxMaps, map[m] # None, map' = [map EXCEPT ![m] = None]
  PROVE  /\ map' \in [1 .. MaxMaps -> MapType \cup {None}]
         /\ map'[m] = None /\ \A k \in 1 .. MaxMaps : k # m => map'[k] = map[k]
         /\ \A b \in Atlas!Asset : Cardinality(Mapped'[b]) = IF b = map[m].of THEN Cardinality(Mapped[b]) - 1 ELSE Cardinality(Mapped[b])
<1>1. /\ map' \in [1 .. MaxMaps -> MapType \cup {None}]
      /\ map'[m] = None /\ \A k \in 1 .. MaxMaps : k # m => map'[k] = map[k]
  BY DEF TextureTypes
<1>2. ASSUME NEW b \in Atlas!Asset
      PROVE  Cardinality(Mapped'[b]) = IF b = map[m].of THEN Cardinality(Mapped[b]) - 1 ELSE Cardinality(Mapped[b])
  <2>1. Mapped[b] \in SUBSET (1 .. MaxMaps) /\ (m \in Mapped[b] <=> b = map[m].of)
    BY DEF Mapped
  <2>2. Mapped'[b] = IF b = map[m].of THEN Mapped[b] \ {m} ELSE Mapped[b]
    BY <1>1 DEF Mapped
  <2> QED
    BY <2>1, <2>2, OneMore DEF TextureConstants
<1> QED
  BY <1>1, <1>2

LEMMA AmountsTyped ==
  ASSUME TextureConstants
  PROVE  /\ Cardinality(Lit) \in Nat
         /\ \A a \in Atlas!Asset : Cardinality(Textured[a]) \in Nat /\ Cardinality(Mapped[a]) \in Nat
<1>1. Lit \in SUBSET (1 .. MaxTextures)
  BY DEF Lit
<1>2. \A a \in Atlas!Asset : Textured[a] \in SUBSET (1 .. MaxTextures) /\ Mapped[a] \in SUBSET (1 .. MaxMaps)
  BY DEF Textured, Mapped
<1>3. \A n \in Nat : \A S \in SUBSET (1 .. n) : Cardinality(S) \in Nat
  <2>1. ASSUME NEW n \in Nat, NEW S \in SUBSET (1 .. n) PROVE Cardinality(S) \in Nat
    <3>1. 1 \in Int /\ n \in Int
      OBVIOUS
    <3>2. IsFiniteSet(1 .. n)
      BY <3>1, FS_Interval, Zenon
    <3> QED
      BY <3>2, FS_Subset, FS_CardinalityType
  <2> QED
    BY <2>1
<1> QED
  BY <1>1, <1>2, <1>3 DEF TextureConstants

LEMMA FrameFound ==
  ASSUME TextureConstants, NEW a \in Atlas!Atlases \cup {"rgb565"}, NEW id
  PROVE  Atlas!FirstFrame(a, id) \in Nat
<1>1. CASE a = "rgb565"
  BY <1>1 DEF Atlas!FirstFrame
<1>2. CASE a # "rgb565"
  <2> DEFINE S == {i \in 1 .. Len(AtlasFrames[a]) : AtlasFrames[a][i] = id}
  <2>1. Atlas!FirstFrame(a, id) = IF S # {} THEN Atlas!Min(S) ELSE 0
    BY <1>2 DEF Atlas!FirstFrame, Atlas!SelectInSeq
  <2>2. Len(AtlasFrames[a]) \in Nat
    BY <1>2 DEF TextureConstants
  <2>3. S # {} => \E i \in S : \A j \in S : i <= j
    BY <2>2, LeastExists
  <2>4. S # {} => Atlas!Min(S) \in S
    BY <2>3 DEF Atlas!Min
  <2> QED
    BY <2>1, <2>4
<1> QED
  BY <1>1, <1>2

TexturesInductive == TextureTypes /\ MapsHaveSlots /\ Amounts /\ CacheTrue

LEMMA TexturesBegin == ASSUME TextureConstants, Atlas!Init PROVE TexturesInductive
<1>1. TextureTypes
  <2>1. lease \in [Atlas!Asset -> Int] /\ wall \in [Walls -> Int] /\ shaded \in Int
    BY DEF Atlas!Init
  <2>2. texture \in [1 .. MaxTextures -> SlotType \cup {None}] /\ map \in [1 .. MaxMaps -> MapType \cup {None}]
    BY DEF Atlas!Init
  <2> QED
    BY <2>1, <2>2 DEF TextureTypes
<1>2. MapsHaveSlots /\ CacheTrue
  <2>1. (\A t \in 1 .. MaxTextures : texture[t] = None) /\ (\A m \in 1 .. MaxMaps : map[m] = None)
    BY DEF Atlas!Init
  <2>2. found.got = found.want
    BY DEF Atlas!Init
  <2> QED
    BY <2>1, <2>2 DEF MapsHaveSlots, CacheTrue
<1>3. Lit = {} /\ \A a \in Atlas!Asset : Textured[a] = {} /\ Mapped[a] = {}
  BY DEF Atlas!Init, Lit, Textured, Mapped
<1>4. Amounts
  <2>1. /\ (\A a \in Atlas!Asset : lease[a] = 0) /\ (\A a \in Walls : wall[a] = 0) /\ shaded = 0
    BY DEF Atlas!Init
  <2>2. Cardinality({}) = 0
    BY FS_EmptySet
  <2> QED
    BY <1>3, <2>1, <2>2 DEF Amounts
<1> QED
  BY <1>1, <1>2, <1>4 DEF TexturesInductive

LEMMA LoadTextureKeeps ==
  ASSUME TextureConstants, TexturesInductive, NEW a \in Atlas!Atlases, Atlas!LoadTexture(a)
  PROVE  TexturesInductive'
<1>1. TextureTypes /\ MapsHaveSlots /\ Amounts /\ CacheTrue
  BY DEF TexturesInductive
<1>2. UNCHANGED <<map, wall, shaded, found>>
  BY DEF Atlas!LoadTexture
<1>3. CASE UNCHANGED <<lease, texture>>
  BY <1>1, <1>2, <1>3 DEF TexturesInductive, TextureTypes, MapsHaveSlots, Amounts, CacheTrue,
     Textured, Mapped, Lit
<1>4. CASE /\ Atlas!FreeTexture # 0 /\ lease' = [lease EXCEPT ![a] = lease[a] + 1]
           /\ texture' = [texture EXCEPT ![Atlas!FreeTexture] = Atlas!Fresh(a)]
  <2> DEFINE t == Atlas!FreeTexture
  <2>1. t \in 1 .. MaxTextures /\ texture[t] = None
    BY <1>1, <1>4, SlotFree
  <2> HIDE DEF t
  <2>2. /\ texture' \in [1 .. MaxTextures -> SlotType \cup {None}]
        /\ texture'[t] # None /\ texture'[t].of = a /\ \A l \in Atlas!Lines : texture'[t].line[l] = None
        /\ \A u \in 1 .. MaxTextures : u # t => texture'[u] = texture[u]
        /\ Lit' = Lit
        /\ \A b \in Atlas!Asset : Cardinality(Textured'[b]) = IF b = a THEN Cardinality(Textured[b]) + 1 ELSE Cardinality(Textured[b])
    BY <1>1, <1>4, <2>1, SlotTaken DEF t
  <2>3. Mapped' = Mapped
    BY <1>2 DEF Mapped
  <2>4. a \in Atlas!Asset /\ lease' \in [Atlas!Asset -> Int] /\ \A b \in Atlas!Asset : lease'[b] = IF b = a THEN lease[b] + 1 ELSE lease[b]
    BY <1>1, <1>4 DEF TextureTypes, Atlas!Asset
  <2>5. TextureTypes'
    BY <1>1, <1>2, <2>2, <2>4 DEF TextureTypes
  <2>6. MapsHaveSlots'
    <3>1. \A m \in 1 .. MaxMaps : map[m] # None => map[m].texture \in 1 .. MaxTextures /\ map[m].texture # t
      <4>1. \A m \in 1 .. MaxMaps : map[m] # None => map[m].texture \in 1 .. MaxTextures
        BY <1>1 DEF TextureTypes, MapType
      <4> QED
        BY <1>1, <2>1, <4>1 DEF MapsHaveSlots
    <3> QED
      BY <1>1, <1>2, <2>2, <3>1 DEF MapsHaveSlots
  <2>7. Amounts'
    <3>1. \A b \in Atlas!Asset : lease[b] = Cardinality(Textured[b]) + Cardinality(Mapped[b]) + (IF b \in Walls THEN wall[b] ELSE 0)
      BY <1>1 DEF Amounts
    <3>2. \A b \in Atlas!Asset : b \in Walls => wall[b] \in Int
      BY <1>1 DEF TextureTypes
    <3>3. shaded' = Cardinality(Lit')
      BY <1>1, <1>2, <2>2 DEF Amounts
    <3>4. ASSUME NEW b \in Atlas!Asset
          PROVE  lease'[b] = Cardinality(Textured'[b]) + Cardinality(Mapped'[b]) + (IF b \in Walls THEN wall'[b] ELSE 0)
      <4>1. Cardinality(Textured[b]) \in Nat /\ Cardinality(Mapped[b]) \in Nat
        BY AmountsTyped
      <4>2. Mapped'[b] = Mapped[b] /\ wall' = wall
        BY <1>2, <2>3
      <4> QED
        BY ONLY <2>2, <2>4, <3>1, <3>2, <4>1, <4>2
    <3> QED
      BY <3>3, <3>4 DEF Amounts
  <2>8. CacheTrue'
    BY <1>1, <1>2, <2>2 DEF CacheTrue
  <2> QED
    BY <2>5, <2>6, <2>7, <2>8 DEF TexturesInductive
<1> QED
  BY <1>3, <1>4 DEF Atlas!LoadTexture, Atlas!Leased

LEMMA RegisterKeeps ==
  ASSUME TextureConstants, TexturesInductive, Atlas!RegisterRgb565
  PROVE  TexturesInductive'
<1> DEFINE t == Atlas!FreeTexture
<1>1. TextureTypes /\ MapsHaveSlots /\ Amounts /\ CacheTrue
  BY DEF TexturesInductive
<1>2. UNCHANGED <<lease, map, wall, shaded, found>> /\ texture' = [texture EXCEPT ![t] = Atlas!Fresh("rgb565")]
      /\ t \in 1 .. MaxTextures /\ texture[t] = None
  BY <1>1, SlotFree DEF Atlas!RegisterRgb565
<1> HIDE DEF t
<1>3. /\ texture' \in [1 .. MaxTextures -> SlotType \cup {None}]
      /\ texture'[t] # None /\ texture'[t].of = "rgb565" /\ \A l \in Atlas!Lines : texture'[t].line[l] = None
      /\ \A u \in 1 .. MaxTextures : u # t => texture'[u] = texture[u]
      /\ Lit' = Lit
      /\ \A b \in Atlas!Asset : Cardinality(Textured'[b]) = IF b = "rgb565" THEN Cardinality(Textured[b]) + 1 ELSE Cardinality(Textured[b])
  BY <1>1, <1>2, SlotTaken
<1>4. TextureTypes'
  BY <1>1, <1>2, <1>3 DEF TextureTypes
<1>5. MapsHaveSlots'
  <2>1. \A m \in 1 .. MaxMaps : map[m] # None => map[m].texture \in 1 .. MaxTextures
    BY <1>1 DEF TextureTypes, MapType
  <2>2. \A m \in 1 .. MaxMaps : map[m] # None => map[m].texture # t
    BY <1>1, <1>2, <2>1 DEF MapsHaveSlots
  <2> QED
    BY <1>1, <1>2, <1>3, <2>1, <2>2 DEF MapsHaveSlots
<1>6. Amounts'
  <2>1. \A b \in Atlas!Asset : Cardinality(Textured'[b]) = Cardinality(Textured[b])
    BY <1>3 DEF TextureConstants
  <2>2. Mapped' = Mapped
    BY <1>2 DEF Mapped
  <2> QED
    BY <1>1, <1>2, <1>3, <2>1, <2>2 DEF Amounts
<1>7. CacheTrue'
  BY <1>1, <1>2, <1>3 DEF CacheTrue
<1> QED
  BY <1>4, <1>5, <1>6, <1>7 DEF TexturesInductive

LEMMA UnloadTextureKeeps ==
  ASSUME TextureConstants, TexturesInductive, NEW t \in 1 .. MaxTextures, Atlas!UnloadTexture(t)
  PROVE  TexturesInductive'
<1> DEFINE a == texture[t].of
<1>1. TextureTypes /\ MapsHaveSlots /\ Amounts /\ CacheTrue
  BY DEF TexturesInductive
<1>2. /\ UNCHANGED <<map, wall, found>> /\ texture[t] # None
      /\ \A m \in 1 .. MaxMaps : map[m] # None => map[m].texture # t
      /\ texture' = [texture EXCEPT ![t] = None]
      /\ shaded' = IF texture[t].light # Atlas!Full THEN shaded - 1 ELSE shaded
      /\ lease' = [b \in Atlas!Asset |-> IF b \in {a} THEN lease[b] - 1 ELSE lease[b]]
  BY DEF Atlas!UnloadTexture, Atlas!OfGame, Atlas!OfMap, Atlas!SlotReleased, Atlas!Released
<1> HIDE DEF a
<1>3. /\ texture' \in [1 .. MaxTextures -> SlotType \cup {None}]
      /\ texture'[t] = None /\ \A u \in 1 .. MaxTextures : u # t => texture'[u] = texture[u]
      /\ Cardinality(Lit') = IF texture[t].light # Atlas!Full THEN Cardinality(Lit) - 1 ELSE Cardinality(Lit)
      /\ \A b \in Atlas!Asset : Cardinality(Textured'[b]) = IF b = a THEN Cardinality(Textured[b]) - 1 ELSE Cardinality(Textured[b])
  BY <1>1, <1>2, SlotGiven DEF a
<1>4. lease' \in [Atlas!Asset -> Int] /\ \A b \in Atlas!Asset : lease'[b] = IF b = a THEN lease[b] - 1 ELSE lease[b]
  BY <1>1, <1>2 DEF TextureTypes
<1>5. TextureTypes'
  <2>1. shaded' \in Int
    BY <1>1, <1>2 DEF TextureTypes
  <2> QED
    BY <1>1, <1>2, <1>3, <1>4, <2>1 DEF TextureTypes
<1>6. MapsHaveSlots'
  <2>1. \A m \in 1 .. MaxMaps : map[m] # None => map[m].texture \in 1 .. MaxTextures
    BY <1>1 DEF TextureTypes, MapType
  <2> QED
    BY <1>1, <1>2, <1>3, <2>1 DEF MapsHaveSlots
<1>7. Amounts'
  <2>1. ASSUME NEW b \in Atlas!Asset
        PROVE  lease'[b] = Cardinality(Textured'[b]) + Cardinality(Mapped'[b]) + (IF b \in Walls THEN wall'[b] ELSE 0)
    <3>1. Cardinality(Textured[b]) \in Nat /\ Cardinality(Mapped[b]) \in Nat
      BY AmountsTyped
    <3>2. Mapped'[b] = Mapped[b] /\ wall' = wall
      BY <1>2 DEF Mapped
    <3>3. lease[b] = Cardinality(Textured[b]) + Cardinality(Mapped[b]) + (IF b \in Walls THEN wall[b] ELSE 0)
      BY <1>1 DEF Amounts
    <3>4. b \in Walls => wall[b] \in Int
      BY <1>1 DEF TextureTypes
    <3> QED
      BY ONLY <1>3, <1>4, <3>1, <3>2, <3>3, <3>4
  <2>2. shaded' = Cardinality(Lit')
    BY <1>1, <1>2, <1>3 DEF Amounts
  <2> QED
    BY <2>1, <2>2 DEF Amounts
<1>8. CacheTrue'
  BY <1>1, <1>2, <1>3 DEF CacheTrue
<1> QED
  BY <1>5, <1>6, <1>7, <1>8 DEF TexturesInductive

LEMMA CacheLightKeeps ==
  ASSUME TextureConstants, TexturesInductive, NEW t \in 1 .. MaxTextures, NEW light \in Lights \cup {Atlas!Full},
         Atlas!CacheLight(t, light)
  PROVE  TexturesInductive'
<1> DEFINE r == [texture[t] EXCEPT !.light = light]
<1>1. TextureTypes /\ MapsHaveSlots /\ Amounts /\ CacheTrue
  BY DEF TexturesInductive
<1>2. /\ UNCHANGED <<lease, map, wall, found>> /\ texture[t] # None /\ texture[t].light # light
      /\ texture' = [texture EXCEPT ![t] = r]
      /\ shaded' = IF light = Atlas!Full THEN shaded - 1 ELSE IF texture[t].light = Atlas!Full THEN shaded + 1 ELSE shaded
  BY DEF Atlas!CacheLight, Atlas!OfGame
<1>3. r \in SlotType /\ r # None /\ r.of = texture[t].of /\ r.line = texture[t].line /\ r.light = light
  <2>1. texture[t] \in SlotType
    BY <1>1, <1>2 DEF TextureTypes
  <2>2. r \in SlotType /\ r.of = texture[t].of /\ r.line = texture[t].line /\ r.light = light
    BY <2>1 DEF SlotType
  <2> QED
    BY <2>2 DEF TextureConstants
<1> HIDE DEF r
<1>4. /\ texture' \in [1 .. MaxTextures -> SlotType \cup {None}]
      /\ texture'[t] = r /\ \A u \in 1 .. MaxTextures : u # t => texture'[u] = texture[u]
  BY <1>1, <1>2, <1>3 DEF TextureTypes
<1>5. TextureTypes'
  <2>1. shaded' \in Int
    BY <1>1, <1>2 DEF TextureTypes
  <2> QED
    BY <1>1, <1>2, <1>4, <2>1 DEF TextureTypes
<1>6. \A u \in 1 .. MaxTextures : (texture'[u] # None <=> texture[u] # None) /\
        (texture[u] # None => texture'[u].of = texture[u].of /\ texture'[u].line = texture[u].line)
  BY <1>2, <1>3, <1>4
<1>7. MapsHaveSlots'
  <2>1. \A m \in 1 .. MaxMaps : map[m] # None => map[m].texture \in 1 .. MaxTextures
    BY <1>1 DEF TextureTypes, MapType
  <2> QED
    BY <1>1, <1>2, <1>6, <2>1 DEF MapsHaveSlots
<1>8. Amounts'
  <2>1. Textured' = Textured /\ Mapped' = Mapped
    BY <1>2, <1>6 DEF Textured, Mapped
  <2>2. Lit \in SUBSET (1 .. MaxTextures) /\ (t \in Lit <=> texture[t].light # Atlas!Full)
    BY <1>2 DEF Lit
  <2>3. Lit' = IF light = Atlas!Full THEN Lit \ {t} ELSE Lit \cup {t}
    BY <1>2, <1>3, <1>4 DEF Lit
  <2>4. shaded = Cardinality(Lit)
    BY <1>1 DEF Amounts
  <2>5. shaded' = Cardinality(Lit')
    <3>1. CASE light = Atlas!Full
      BY <1>2, <2>2, <2>3, <2>4, <3>1, OneMore DEF TextureConstants
    <3>2. CASE light # Atlas!Full /\ texture[t].light = Atlas!Full
      BY <1>2, <2>2, <2>3, <2>4, <3>2, OneMore DEF TextureConstants
    <3>3. CASE light # Atlas!Full /\ texture[t].light # Atlas!Full
      <4>1. Lit' = Lit
        BY <2>2, <2>3, <3>3
      <4> QED
        BY <1>2, <2>4, <3>3, <4>1
    <3> QED
      BY <3>1, <3>2, <3>3
  <2> QED
    BY <1>1, <1>2, <2>1, <2>5 DEF Amounts
<1>9. CacheTrue'
  BY <1>1, <1>2, <1>6 DEF CacheTrue
<1> QED
  BY <1>5, <1>7, <1>8, <1>9 DEF TexturesInductive

LEMMA GetFrameKeeps ==
  ASSUME TextureConstants, TexturesInductive, NEW t \in 1 .. MaxTextures, NEW id \in Atlas!Id, Atlas!GetFrame(t, id)
  PROVE  TexturesInductive'
<1> DEFINE entry == texture[t].line[Line(id)]
           first == Atlas!FirstFrame(texture[t].of, id)
           new == [id |-> id, frame |-> first]
           r == [texture[t] EXCEPT !.line = [texture[t].line EXCEPT ![Line(id)] = new]]
<1>1. TextureTypes /\ MapsHaveSlots /\ Amounts /\ CacheTrue /\ Line(id) \in Atlas!Lines
  BY DEF TexturesInductive, Atlas!Lines
<1>2. /\ UNCHANGED <<lease, map, wall, shaded>> /\ texture[t] # None
      /\ found' = [want |-> first, got |-> IF Atlas!Hits(entry, id) THEN entry.frame ELSE first]
      /\ texture' = IF Atlas!Hits(entry, id) \/ first = 0 THEN texture ELSE [texture EXCEPT ![t] = r]
  BY DEF Atlas!GetFrame
<1>3. texture[t] \in SlotType /\ first \in Nat
  <2>1. texture[t] \in SlotType
    BY <1>1, <1>2 DEF TextureTypes
  <2>2. texture[t].of \in Atlas!Atlases \cup {"rgb565"}
    BY <2>1 DEF SlotType
  <2> QED
    BY <2>1, <2>2, FrameFound
<1>4. Atlas!Hits(entry, id) => entry.frame = first
  BY <1>1, <1>2 DEF CacheTrue, Atlas!Hits
<1>5. found'.got = found'.want
  <2> HIDE DEF first, entry
  <2> QED
    BY <1>2, <1>4
<1>6. CASE texture' = texture
  <2>1. UNCHANGED <<lease, map, wall, shaded, texture>>
    BY <1>2, <1>6
  <2>2. TextureTypes' /\ MapsHaveSlots' /\ Amounts'
    BY ONLY <1>1, <2>1 DEF TextureTypes, MapsHaveSlots, Amounts, Textured, Mapped, Lit
  <2>3. CacheTrue'
    BY ONLY <1>1, <1>5, <2>1 DEF CacheTrue
  <2> QED
    BY ONLY <2>2, <2>3 DEF TexturesInductive
<1>7. CASE texture' = [texture EXCEPT ![t] = r]
  <2>1. new \in CacheType /\ new.id = id /\ new.frame = first
    BY <1>3 DEF CacheType
  <2> HIDE DEF new, first
  <2>2. texture[t].line \in [Atlas!Lines -> CacheType \cup {None}]
    BY <1>3 DEF SlotType
  <2> DEFINE line == [texture[t].line EXCEPT ![Line(id)] = new]
  <2>3. /\ line \in [Atlas!Lines -> CacheType \cup {None}] /\ line[Line(id)] = new
        /\ \A l \in Atlas!Lines : l # Line(id) => line[l] = texture[t].line[l]
    BY <1>1, <2>1, <2>2
  <2> HIDE DEF line
  <2>4. r \in SlotType /\ r.of = texture[t].of /\ r.light = texture[t].light /\ r.line = line
    BY <1>3, <2>3 DEF SlotType, line
  <2>5. r # None
    BY <2>4 DEF TextureConstants
  <2> HIDE DEF r
  <2>6. /\ texture' \in [1 .. MaxTextures -> SlotType \cup {None}]
        /\ texture'[t] = r /\ \A u \in 1 .. MaxTextures : u # t => texture'[u] = texture[u]
    BY <1>1, <1>7, <2>4 DEF TextureTypes
  <2>7. \A u \in 1 .. MaxTextures : (texture'[u] # None <=> texture[u] # None) /\
          (texture[u] # None => texture'[u].of = texture[u].of /\ texture'[u].light = texture[u].light)
    BY <1>2, <2>4, <2>5, <2>6
  <2>8. TextureTypes'
    BY <1>1, <1>2, <2>6 DEF TextureTypes
  <2>9. MapsHaveSlots'
    <3>1. \A m \in 1 .. MaxMaps : map[m] # None => map[m].texture \in 1 .. MaxTextures
      BY <1>1 DEF TextureTypes, MapType
    <3> QED
      BY <1>1, <1>2, <2>7, <3>1 DEF MapsHaveSlots
  <2>10. Amounts'
    <3>1. Textured' = Textured /\ Mapped' = Mapped /\ Lit' = Lit
      BY <1>2, <2>7 DEF Textured, Mapped, Lit
    <3> QED
      BY <1>1, <1>2, <3>1 DEF Amounts
  <2>11. CacheTrue'
    <3>1. ASSUME NEW u \in 1 .. MaxTextures, texture'[u] # None, NEW l \in Atlas!Lines, texture'[u].line[l] # None
          PROVE  texture'[u].line[l].frame = Atlas!FirstFrame(texture'[u].of, texture'[u].line[l].id)
      <4>1. CASE u # t \/ l # Line(id)
        <5>1. texture[u] # None /\ texture'[u].of = texture[u].of /\ texture'[u].line[l] = texture[u].line[l]
          BY <2>3, <2>4, <2>6, <2>7, <3>1, <4>1
        <5> QED
          BY <1>1, <3>1, <5>1 DEF CacheTrue
      <4>2. CASE u = t /\ l = Line(id)
        <5>1. texture'[u].of = texture[t].of /\ texture'[u].line[l] = new
          BY <2>3, <2>4, <2>6, <4>2
        <5> QED
          BY <2>1, <5>1 DEF first
      <4> QED
        BY <4>1, <4>2
    <3> QED
      BY <1>5, <3>1 DEF CacheTrue
  <2> QED
    BY <2>8, <2>9, <2>10, <2>11 DEF TexturesInductive
<1>8. texture' = texture \/ texture' = [texture EXCEPT ![t] = r]
  <2> HIDE DEF entry, first, r
  <2> QED
    BY <1>2
<1> QED
  BY ONLY <1>6, <1>7, <1>8

\* The leases of a wall atlas follow what the game holds of it.
LEMMA WallKeeps ==
  ASSUME TextureConstants, TexturesInductive, NEW w \in Walls, Atlas!LoadWall(w) \/ Atlas!UnloadWall(w)
  PROVE  TexturesInductive'
<1>1. TextureTypes /\ MapsHaveSlots /\ Amounts /\ CacheTrue
  BY DEF TexturesInductive
<1>2. UNCHANGED <<texture, map, shaded, found>> /\ w \in Atlas!Asset
  BY DEF Atlas!LoadWall, Atlas!UnloadWall, Atlas!Asset
<1>3. Textured' = Textured /\ Mapped' = Mapped /\ Lit' = Lit /\ MapsHaveSlots' /\ CacheTrue'
  BY <1>1, <1>2 DEF Textured, Mapped, Lit, MapsHaveSlots, CacheTrue
<1>4. PICK d \in {-1, 0, 1} :
        /\ wall' \in [Walls -> Int] /\ \A v \in Walls : wall'[v] = IF v = w THEN wall[v] + d ELSE wall[v]
        /\ lease' \in [Atlas!Asset -> Int] /\ \A b \in Atlas!Asset : lease'[b] = IF b = w THEN lease[b] + d ELSE lease[b]
  <2>1. CASE wall' = [wall EXCEPT ![w] = wall[w] + 1] /\ lease' = [lease EXCEPT ![w] = lease[w] + 1]
    <3>1. /\ wall' \in [Walls -> Int] /\ \A v \in Walls : wall'[v] = IF v = w THEN wall[v] + 1 ELSE wall[v]
      BY <1>1, <2>1 DEF TextureTypes
    <3>2. /\ lease' \in [Atlas!Asset -> Int] /\ \A b \in Atlas!Asset : lease'[b] = IF b = w THEN lease[b] + 1 ELSE lease[b]
      BY <1>1, <1>2, <2>1 DEF TextureTypes
    <3> QED
      BY <3>1, <3>2
  <2>2. CASE UNCHANGED <<lease, wall>>
    <3>1. (\A v \in Walls : wall[v] + 0 = wall[v]) /\ (\A b \in Atlas!Asset : lease[b] + 0 = lease[b])
      BY <1>1 DEF TextureTypes
    <3> QED
      BY <1>1, <2>2, <3>1 DEF TextureTypes
  <2>3. CASE /\ wall' = [wall EXCEPT ![w] = wall[w] - 1]
             /\ lease' = [b \in Atlas!Asset |-> IF b \in {w} THEN lease[b] - 1 ELSE lease[b]]
    <3>1. /\ wall' \in [Walls -> Int] /\ \A v \in Walls : wall'[v] = IF v = w THEN wall[v] + (-1) ELSE wall[v]
      BY <1>1, <2>3 DEF TextureTypes
    <3>2. /\ lease' \in [Atlas!Asset -> Int] /\ \A b \in Atlas!Asset : lease'[b] = IF b = w THEN lease[b] + (-1) ELSE lease[b]
      BY <1>1, <1>2, <2>3 DEF TextureTypes
    <3> QED
      BY <3>1, <3>2
  <2> QED
    BY <2>1, <2>2, <2>3 DEF Atlas!LoadWall, Atlas!UnloadWall, Atlas!Leased, Atlas!Released
<1>5. Amounts'
  <2>1. ASSUME NEW b \in Atlas!Asset
        PROVE  lease'[b] = Cardinality(Textured'[b]) + Cardinality(Mapped'[b]) + (IF b \in Walls THEN wall'[b] ELSE 0)
    <3>1. Cardinality(Textured[b]) \in Nat /\ Cardinality(Mapped[b]) \in Nat
      BY AmountsTyped
    <3>2. Mapped'[b] = Mapped[b] /\ Textured'[b] = Textured[b]
      BY <1>3
    <3>3. lease[b] = Cardinality(Textured[b]) + Cardinality(Mapped[b]) + (IF b \in Walls THEN wall[b] ELSE 0)
      BY <1>1 DEF Amounts
    <3>4. b \in Walls => wall[b] \in Int
      BY <1>1 DEF TextureTypes
    <3> QED
      BY ONLY <1>4, <3>1, <3>2, <3>3, <3>4
  <2>2. shaded' = Cardinality(Lit')
    BY <1>1, <1>2, <1>3 DEF Amounts
  <2> QED
    BY <2>1, <2>2 DEF Amounts
<1> QED
  BY <1>1, <1>2, <1>3, <1>4, <1>5 DEF TexturesInductive, TextureTypes

LEMMA LoadTilemapKeeps ==
  ASSUME TextureConstants, TexturesInductive, NEW m \in DOMAIN Maps, Atlas!LoadTilemap(m)
  PROVE  TexturesInductive'
<1> DEFINE a == Maps[m]
           t == Atlas!FreeTexture
           i == Atlas!FreeMap
           r == [of |-> m, texture |-> t]
<1>1. TextureTypes /\ MapsHaveSlots /\ Amounts /\ CacheTrue
  BY DEF TexturesInductive
<1>2. UNCHANGED <<wall, shaded, found>>
  BY DEF Atlas!LoadTilemap
<1>3. CASE UNCHANGED <<lease, texture, map>>
  BY <1>1, <1>2, <1>3 DEF TexturesInductive, TextureTypes, MapsHaveSlots, Amounts, CacheTrue,
     Textured, Mapped, Lit
<1>4. CASE /\ t # 0 /\ i # 0 /\ texture' = [texture EXCEPT ![t] = Atlas!Fresh(a)] /\ map' = [map EXCEPT ![i] = r]
           /\ lease' = [[lease EXCEPT ![m] = lease[m] + 1] EXCEPT ![a] = [lease EXCEPT ![m] = lease[m] + 1][a] + 1]
  <2>1. t \in 1 .. MaxTextures /\ texture[t] = None /\ i \in 1 .. MaxMaps /\ map[i] = None
    BY <1>1, <1>4, SlotFree
  <2>2. a \in Atlas!Atlases /\ a # m /\ a \in Atlas!Asset /\ m \in Atlas!Asset /\ m \notin Walls /\ a \notin Walls
    BY DEF TextureConstants, Atlas!Asset
  <2>3. r \in MapType /\ r.of = m /\ r.texture = t /\ r # None
    BY <2>1 DEF MapType, TextureConstants
  <2> HIDE DEF t, i, r, a
  <2>4. /\ texture' \in [1 .. MaxTextures -> SlotType \cup {None}]
        /\ texture'[t] # None /\ texture'[t].of = a /\ \A l \in Atlas!Lines : texture'[t].line[l] = None
        /\ \A u \in 1 .. MaxTextures : u # t => texture'[u] = texture[u]
        /\ Lit' = Lit
        /\ \A b \in Atlas!Asset : Cardinality(Textured'[b]) = IF b = a THEN Cardinality(Textured[b]) + 1 ELSE Cardinality(Textured[b])
    BY <1>1, <1>4, <2>1, <2>2, SlotTaken
  <2>5. /\ map' \in [1 .. MaxMaps -> MapType \cup {None}]
        /\ map'[i] = r /\ \A k \in 1 .. MaxMaps : k # i => map'[k] = map[k]
        /\ \A b \in Atlas!Asset : Cardinality(Mapped'[b]) = IF b = m THEN Cardinality(Mapped[b]) + 1 ELSE Cardinality(Mapped[b])
    BY <1>1, <1>4, <2>1, <2>3, MapTaken
  <2>6. /\ lease' \in [Atlas!Asset -> Int]
        /\ \A b \in Atlas!Asset : lease'[b] = IF b = a \/ b = m THEN lease[b] + 1 ELSE lease[b]
    BY <1>1, <1>4, <2>2 DEF TextureTypes
  <2>7. TextureTypes'
    BY <1>1, <1>2, <2>4, <2>5, <2>6 DEF TextureTypes
  <2>8. MapsHaveSlots'
    <3>1. \A k \in 1 .. MaxMaps : map[k] # None => map[k].texture \in 1 .. MaxTextures
      BY <1>1 DEF TextureTypes, MapType
    <3>2. \A k \in 1 .. MaxMaps : map[k] # None => map[k].texture # t
      BY <1>1, <2>1, <3>1 DEF MapsHaveSlots
    <3>3. ASSUME NEW k \in 1 .. MaxMaps, map'[k] # None
          PROVE  texture'[map'[k].texture] # None /\ texture'[map'[k].texture].of = Maps[map'[k].of]
      <4>1. CASE k = i
        BY <2>3, <2>4, <2>5, <4>1 DEF a
      <4>2. CASE k # i
        <5>1. map'[k] = map[k] /\ map[k].texture \in 1 .. MaxTextures /\ texture'[map[k].texture] = texture[map[k].texture]
          BY <2>4, <2>5, <3>1, <3>2, <3>3, <4>2
        <5> QED
          BY <1>1, <3>3, <5>1 DEF MapsHaveSlots
      <4> QED
        BY <4>1, <4>2
    <3>4. ASSUME NEW k \in 1 .. MaxMaps, NEW j \in 1 .. MaxMaps, k # j, map'[k] # None, map'[j] # None
          PROVE  map'[k].texture # map'[j].texture
      BY <1>1, <2>3, <2>5, <3>2, <3>4 DEF MapsHaveSlots
    <3> QED
      BY <3>3, <3>4 DEF MapsHaveSlots
  <2>9. Amounts'
    <3>1. ASSUME NEW b \in Atlas!Asset
          PROVE  lease'[b] = Cardinality(Textured'[b]) + Cardinality(Mapped'[b]) + (IF b \in Walls THEN wall'[b] ELSE 0)
      <4>1. Cardinality(Textured[b]) \in Nat /\ Cardinality(Mapped[b]) \in Nat /\ wall' = wall
        BY <1>2, AmountsTyped
      <4>2. lease[b] = Cardinality(Textured[b]) + Cardinality(Mapped[b]) + (IF b \in Walls THEN wall[b] ELSE 0)
        BY <1>1 DEF Amounts
      <4>3. b \in Walls => wall[b] \in Int
        BY <1>1 DEF TextureTypes
      <4> QED
        BY ONLY <2>2, <2>4, <2>5, <2>6, <4>1, <4>2, <4>3
    <3>2. shaded' = Cardinality(Lit')
      BY <1>1, <1>2, <2>4 DEF Amounts
    <3> QED
      BY <3>1, <3>2 DEF Amounts
  <2>10. CacheTrue'
    BY <1>1, <1>2, <2>4 DEF CacheTrue
  <2> QED
    BY <2>7, <2>8, <2>9, <2>10 DEF TexturesInductive
<1> QED
  BY <1>3, <1>4 DEF Atlas!LoadTilemap, Atlas!Leased

LEMMA UnloadTilemapKeeps ==
  ASSUME TextureConstants, TexturesInductive, NEW i \in 1 .. MaxMaps, Atlas!UnloadTilemap(i)
  PROVE  TexturesInductive'
<1> DEFINE m == map[i].of
           a == Maps[m]
           t == map[i].texture
<1>1. TextureTypes /\ MapsHaveSlots /\ Amounts /\ CacheTrue
  BY DEF TexturesInductive
<1>2. /\ UNCHANGED <<wall, found>> /\ map[i] # None /\ map' = [map EXCEPT ![i] = None]
      /\ texture' = [texture EXCEPT ![t] = None]
      /\ shaded' = IF texture[t].light # Atlas!Full THEN shaded - 1 ELSE shaded
      /\ lease' = [b \in Atlas!Asset |-> IF b \in {a, m} THEN lease[b] - 1 ELSE lease[b]]
  BY DEF Atlas!UnloadTilemap, Atlas!SlotReleased, Atlas!Released
<1>3. m \in DOMAIN Maps /\ t \in 1 .. MaxTextures
  BY <1>1, <1>2 DEF TextureTypes, MapType
<1>4. texture[t] # None /\ texture[t].of = a
  BY <1>1, <1>2 DEF MapsHaveSlots
<1>5. a \in Atlas!Atlases /\ a # m /\ m \notin Walls /\ a \notin Walls
  BY <1>3 DEF TextureConstants
<1> HIDE DEF m, a, t
<1>6. /\ texture' \in [1 .. MaxTextures -> SlotType \cup {None}]
      /\ texture'[t] = None /\ \A u \in 1 .. MaxTextures : u # t => texture'[u] = texture[u]
      /\ Cardinality(Lit') = IF texture[t].light # Atlas!Full THEN Cardinality(Lit) - 1 ELSE Cardinality(Lit)
      /\ \A b \in Atlas!Asset : Cardinality(Textured'[b]) = IF b = a THEN Cardinality(Textured[b]) - 1 ELSE Cardinality(Textured[b])
  BY <1>1, <1>2, <1>3, <1>4, SlotGiven
<1>7. /\ map' \in [1 .. MaxMaps -> MapType \cup {None}]
      /\ map'[i] = None /\ \A k \in 1 .. MaxMaps : k # i => map'[k] = map[k]
      /\ \A b \in Atlas!Asset : Cardinality(Mapped'[b]) = IF b = m THEN Cardinality(Mapped[b]) - 1 ELSE Cardinality(Mapped[b])
  BY <1>1, <1>2, MapGiven DEF m
<1>8. /\ lease' \in [Atlas!Asset -> Int]
      /\ \A b \in Atlas!Asset : lease'[b] = IF b = a \/ b = m THEN lease[b] - 1 ELSE lease[b]
  BY <1>1, <1>2 DEF TextureTypes
<1>9. TextureTypes'
  <2>1. shaded' \in Int
    BY <1>1, <1>2 DEF TextureTypes
  <2> QED
    BY <1>1, <1>2, <1>6, <1>7, <1>8, <2>1 DEF TextureTypes
<1>10. MapsHaveSlots'
  <2>1. \A k \in 1 .. MaxMaps : map[k] # None => map[k].texture \in 1 .. MaxTextures
    BY <1>1 DEF TextureTypes, MapType
  <2>2. ASSUME NEW k \in 1 .. MaxMaps, map'[k] # None
        PROVE  map'[k] = map[k] /\ map[k].texture \in 1 .. MaxTextures /\ texture'[map[k].texture] = texture[map[k].texture]
    <3>1. k # i /\ map'[k] = map[k]
      BY <1>7, <2>2
    <3>2. map[k].texture # t
      BY <1>1, <1>2, <2>2, <3>1 DEF MapsHaveSlots, t
    <3> QED
      BY <1>6, <2>1, <2>2, <3>1, <3>2
  <2> QED
    BY <1>1, <2>2 DEF MapsHaveSlots
<1>11. Amounts'
  <2>1. ASSUME NEW b \in Atlas!Asset
        PROVE  lease'[b] = Cardinality(Textured'[b]) + Cardinality(Mapped'[b]) + (IF b \in Walls THEN wall'[b] ELSE 0)
    <3>1. Cardinality(Textured[b]) \in Nat /\ Cardinality(Mapped[b]) \in Nat /\ wall' = wall
      BY <1>2, AmountsTyped
    <3>2. lease[b] = Cardinality(Textured[b]) + Cardinality(Mapped[b]) + (IF b \in Walls THEN wall[b] ELSE 0)
      BY <1>1 DEF Amounts
    <3>3. b \in Walls => wall[b] \in Int
      BY <1>1 DEF TextureTypes
    <3> QED
      BY ONLY <1>5, <1>6, <1>7, <1>8, <3>1, <3>2, <3>3
  <2>2. shaded' = Cardinality(Lit')
    BY <1>1, <1>2, <1>6 DEF Amounts
  <2> QED
    BY <2>1, <2>2 DEF Amounts
<1>12. CacheTrue'
  BY <1>1, <1>2, <1>6 DEF CacheTrue
<1> QED
  BY <1>9, <1>10, <1>11, <1>12 DEF TexturesInductive

LEMMA TexturesStep ==
  ASSUME TextureConstants, TexturesInductive, [Atlas!Next]_Atlas!vars
  PROVE  TexturesInductive'
<1>1. CASE UNCHANGED Atlas!vars
  BY <1>1 DEF Atlas!vars, TexturesInductive, TextureTypes, MapsHaveSlots, Amounts, CacheTrue,
     Textured, Mapped, Lit
<1> QED
  BY <1>1, LoadTextureKeeps, RegisterKeeps, UnloadTextureKeeps, CacheLightKeeps, GetFrameKeeps,
     WallKeeps,
     LoadTilemapKeeps, UnloadTilemapKeeps DEF Atlas!Next

LEMMA TexturesAreTrue ==
  ASSUME TextureConstants, TexturesInductive
  PROVE  Atlas!LeasesAreHeld /\ Atlas!FramesAreRight
<1>1. \A S : Atlas!Cardinality(S) = Cardinality(S)
  BY DEF Atlas!Cardinality, Cardinality
<1>2. \A a \in Atlas!Asset :
        /\ Textured[a] = {t \in 1 .. MaxTextures : texture[t] # None /\ texture[t].of = a}
        /\ Mapped[a] = {m \in 1 .. MaxMaps : map[m] # None /\ map[m].of = a}
  BY DEF Textured, Mapped
<1>3. Amounts /\ CacheTrue
  BY DEF TexturesInductive
<1> QED
  BY <1>1, <1>2, <1>3 DEF Amounts, CacheTrue, Lit, Atlas!LeasesAreHeld, Atlas!FramesAreRight

LEMMA WallsStep ==
  ASSUME TextureConstants, wall \in [Walls -> 0 .. MaxWalls], [Atlas!Next]_Atlas!vars
  PROVE  wall' \in [Walls -> 0 .. MaxWalls]
<1>1. ASSUME NEW w \in Walls, Atlas!LoadWall(w) PROVE wall' \in [Walls -> 0 .. MaxWalls]
  <2>1. wall[w] + 1 \in 0 .. MaxWalls
    BY <1>1 DEF Atlas!LoadWall, TextureConstants
  <2>2. wall' = wall \/ wall' = [wall EXCEPT ![w] = wall[w] + 1]
    BY <1>1 DEF Atlas!LoadWall
  <2> QED
    BY <2>1, <2>2
<1>2. ASSUME NEW w \in Walls, Atlas!UnloadWall(w) PROVE wall' \in [Walls -> 0 .. MaxWalls]
  <2>1. wall[w] - 1 \in 0 .. MaxWalls
    BY <1>2 DEF Atlas!UnloadWall, TextureConstants
  <2>2. wall' = [wall EXCEPT ![w] = wall[w] - 1]
    BY <1>2 DEF Atlas!UnloadWall
  <2> QED
    BY <2>1, <2>2
<1>3. ASSUME wall' = wall PROVE wall' \in [Walls -> 0 .. MaxWalls]
  BY <1>3
<1> QED
  BY <1>1, <1>2, <1>3 DEF Atlas!Next, Atlas!vars, Atlas!LoadTexture, Atlas!RegisterRgb565, Atlas!UnloadTexture,
     Atlas!CacheLight, Atlas!GetFrame, Atlas!LoadTilemap, Atlas!UnloadTilemap

LEMMA TexturesTyped ==
  ASSUME TextureConstants, TexturesInductive, wall \in [Walls -> 0 .. MaxWalls]
  PROVE  Atlas!TypeOK
<1>1. TextureTypes /\ Amounts
  BY DEF TexturesInductive
<1>2. lease \in [Atlas!Asset -> Nat]
  <2>1. \A a \in Atlas!Asset : Cardinality(Textured[a]) \in Nat /\ Cardinality(Mapped[a]) \in Nat
    BY AmountsTyped
  <2>2. ASSUME NEW a \in Atlas!Asset PROVE lease[a] \in Nat
    <3>1. a \in Walls => wall[a] \in Nat
      BY DEF TextureConstants
    <3> QED
      BY <1>1, <2>1, <3>1 DEF Amounts
  <2> QED
    BY <1>1, <2>2 DEF TextureTypes
<1>3. shaded \in 0 .. MaxTextures
  <2>1. Lit \in SUBSET (1 .. MaxTextures) /\ MaxTextures \in Nat /\ Cardinality(Lit) \in Nat
    BY AmountsTyped DEF Lit, TextureConstants
  <2>2. IsFiniteSet(1 .. MaxTextures) /\ Cardinality(1 .. MaxTextures) = MaxTextures
    <3>1. 1 \in Int /\ MaxTextures \in Int
      BY <2>1
    <3>2. IsFiniteSet(1 .. MaxTextures)
          /\ Cardinality(1 .. MaxTextures) = IF 1 > MaxTextures THEN 0 ELSE MaxTextures - 1 + 1
      BY <3>1, FS_Interval, Zenon
    <3> QED
      BY <2>1, <3>2
  <2>3. Cardinality(Lit) <= MaxTextures
    BY <2>1, <2>2, FS_Subset
  <2> QED
    BY <1>1, <2>1, <2>3 DEF Amounts
<1>4. ASSUME NEW t \in 1 .. MaxTextures, texture[t] # None
      PROVE  texture[t].of \in Atlas!Atlases \cup {"rgb565"} /\ texture[t].light \in Lights \cup {Atlas!Full}
  <2>1. texture[t] \in SlotType
    BY <1>1, <1>4 DEF TextureTypes
  <2> QED
    BY <2>1 DEF SlotType
<1>5. \A m \in 1 .. MaxMaps : map[m] # None => map[m] \in [of : DOMAIN Maps, texture : 1 .. MaxTextures]
  BY <1>1 DEF TextureTypes, MapType
<1> QED
  BY <1>2, <1>3, <1>4, <1>5 DEF Atlas!TypeOK

\* For any atlases, maps and wall atlases, malformed or not, in any number of
\* slots: each asset is leased as often as slots, maps and the game hold it,
\* there are as many shaded copies as shaded slots, and the cache of a slot
\* finds what a search finds (raylib_lite_renderer.c, raylib_lite_tilemap.c).
THEOREM TexturesAreHeld ==
  TextureConstants => (Atlas!Spec => [](Atlas!TypeOK /\ Atlas!LeasesAreHeld /\ Atlas!FramesAreRight))
<1> SUFFICES ASSUME TextureConstants PROVE Atlas!Spec => [](Atlas!TypeOK /\ Atlas!LeasesAreHeld /\ Atlas!FramesAreRight)
  OBVIOUS
<1> DEFINE Kept == TexturesInductive /\ wall \in [Walls -> 0 .. MaxWalls]
<1>1. Atlas!Init => Kept
  BY TexturesBegin DEF Atlas!Init, TextureConstants
<1>2. Kept /\ [Atlas!Next]_Atlas!vars => Kept'
  BY TexturesStep, WallsStep
<1>3. Kept => Atlas!TypeOK /\ Atlas!LeasesAreHeld /\ Atlas!FramesAreRight
  BY TexturesAreTrue, TexturesTyped
<1> QED
  BY <1>1, <1>2, <1>3, PTL DEF Atlas!Spec

(***************************************************************************)
(* The invariants of Library                                               *)
(***************************************************************************)
\* What is looked at stays the same.
LEMMA WhichStays ==
  ASSUME [Move]_components
  PROVE  which' = which
BY DEF Move, components

\* The asset store keeps its leases, its heap and its streams, and the
\* textures on top of it their leases, their slots and their frames.
THEOREM StoresStayTrue ==
  AssetConstants /\ TextureConstants => (LibrarySpec => []StoresAreTrue)
<1> SUFFICES ASSUME AssetConstants /\ TextureConstants PROVE LibrarySpec => []StoresAreTrue
  OBVIOUS
<1> DEFINE A == which = "assets"
<1> DEFINE B == which = "textures"
<1>1. LibraryInit /\ A => Store!Init
  BY DEF LibraryInit, Start
<1>2. A /\ [Move]_components => [Store!Next]_Store!vars /\ A'
  BY WhichStays DEF Move, components, StoreVars, Store!vars
<1>3. ~A /\ [Move]_components => ~A'
  BY WhichStays
<1>4. Store!Spec => []Store!LeasesMatchViews
  BY LeasesAreMatched
<1>5. Store!Spec => [](Store!TypeOK /\ Store!HeapAccounted)
  BY HeapIsTheMounts
<1>6. Store!Spec => []Store!StreamsLoseNothing
  BY StreamsDeliver
<1>7. LibraryInit /\ B => Atlas!Init
  BY DEF LibraryInit, Start
<1>8. B /\ [Move]_components => [Atlas!Next]_Atlas!vars /\ B'
  BY WhichStays DEF Move, components, AtlasVars, Atlas!vars
<1>9. ~B /\ [Move]_components => ~B'
  BY WhichStays
<1>10. Atlas!Spec => [](Atlas!TypeOK /\ Atlas!LeasesAreHeld /\ Atlas!FramesAreRight)
  BY TexturesAreHeld
<1>11. (A => Store!LeasesMatchViews /\ Store!TypeOK /\ Store!HeapAccounted /\ Store!StreamsLoseNothing) /\ (B => Atlas!TypeOK /\ Atlas!LeasesAreHeld /\ Atlas!FramesAreRight) => StoresAreTrue
  BY DEF StoresAreTrue
<1> QED
  BY <1>1, <1>2, <1>3, <1>4, <1>5, <1>6, <1>7, <1>8, <1>9, <1>10, <1>11,
     PTL DEF LibrarySpec, Store!Spec, Atlas!Spec

\* The panel of the BOX-3 shows the last accepted frame whole, and no task of
\* its board outlives what it uses.
THEOREM PanelStaysFaithful ==
  PanelConstants => (LibrarySpec => []PanelIsFaithful)
<1> SUFFICES ASSUME PanelConstants PROVE LibrarySpec => []PanelIsFaithful
  OBVIOUS
<1> DEFINE A == which = "box3"
<1> DEFINE B == which = "board"
<1>1. LibraryInit /\ A => Panel!Init
  BY DEF LibraryInit, Start
<1>2. A /\ [Move]_components => [Panel!Next]_Panel!vars /\ A'
  BY WhichStays DEF Move, components, PanelVars, Panel!vars
<1>3. ~A /\ [Move]_components => ~A'
  BY WhichStays
<1>4. Panel!Spec => [](Panel!TypeOK /\ Panel!PanelShowsAccepted)
  BY PanelFaithful
<1>5. LibraryInit /\ B => Board!Init
  BY DEF LibraryInit, Start
<1>6. B /\ [Move]_components => [Board!Next]_Board!vars /\ B'
  BY WhichStays DEF Move, components, BoardVars, Board!vars
<1>7. ~B /\ [Move]_components => ~B'
  BY WhichStays
<1>8. Board!Spec => []Board!UsersHaveTheirBoard
  BY BoardOutlivesItsUsers
<1>9. (A => Panel!TypeOK /\ Panel!PanelShowsAccepted) /\ (B => Board!UsersHaveTheirBoard) => PanelIsFaithful
  BY DEF PanelIsFaithful
<1> QED
  BY <1>1, <1>2, <1>3, <1>4, <1>5, <1>6, <1>7, <1>8, <1>9,
     PTL DEF LibrarySpec, Panel!Spec, Board!Spec

\* The host preview draws into the target of the frame it renders or nowhere,
\* one thread at a time is in its game, and its window tells of true edges and
\* holds the fingers that were reported.
THEOREM PreviewDrawsIntoTarget ==
  HostConstants /\ PreviewConstants => (LibrarySpec => []DrawsIntoTarget)
<1> SUFFICES ASSUME HostConstants /\ PreviewConstants PROVE LibrarySpec => []DrawsIntoTarget
  OBVIOUS
<1> DEFINE A == which = "host"
<1> DEFINE B == which = "preview"
<1>1. LibraryInit /\ A => Host!Init
  BY DEF LibraryInit, Start
<1>2. A /\ [Move]_components => [Host!Next]_Host!vars /\ A'
  BY WhichStays DEF Move, components, HostVars, Host!vars
<1>3. ~A /\ [Move]_components => ~A'
  BY WhichStays
<1>4. Host!Spec => []Host!DrawsIntoTarget
  BY HostDrawsIntoTarget
<1>5. LibraryInit /\ B => Server!Init
  BY DEF LibraryInit, Start
<1>6. B /\ [Move]_components => [Server!Next]_Server!vars /\ B'
  BY WhichStays DEF Move, components, ServerVars, Server!vars
<1>7. ~B /\ [Move]_components => ~B'
  BY WhichStays
<1>8. Server!Spec => []Server!OneInTheGame
  BY OneThreadInTheGame
<1>9. Server!Spec => []Server!EdgesTellChanges
  BY EdgesAreTrue
<1>10. Server!Spec => []Server!FingersAreHeld
  BY FingersStayHeld
<1>11. /\ A => Host!DrawsIntoTarget
       /\ B => Server!OneInTheGame /\ Server!EdgesTellChanges /\ Server!FingersAreHeld
       => DrawsIntoTarget
  BY DEF DrawsIntoTarget
<1> QED
  BY <1>1, <1>2, <1>3, <1>4, <1>5, <1>6, <1>7, <1>8, <1>9, <1>10, <1>11,
     PTL DEF LibrarySpec, Host!Spec, Server!Spec

\* Each frame is counted once, whatever becomes of it, and a published rate is
\* that of its window.
THEOREM StatsStayTrue == RateConstants => (LibrarySpec => []StatsAreTrue)
<1> SUFFICES ASSUME RateConstants PROVE LibrarySpec => []StatsAreTrue
  OBVIOUS
<1> DEFINE A == which = "stats"
<1> DEFINE B == which = "rate"
<1>1. LibraryInit /\ A => Stats!Init
  BY DEF LibraryInit, Start
<1>2. A /\ [Move]_components => [Stats!Next]_Stats!vars /\ A'
  BY WhichStays DEF Move, components, StatsVars, Stats!vars, Stats!video, Stats!shared
<1>3. ~A /\ [Move]_components => ~A'
  BY WhichStays
<1>4. Stats!Spec => []Stats!CountsAddUp
  BY StatsAddUp
<1>5. LibraryInit /\ B => Rate!Init
  BY DEF LibraryInit, Start
<1>6. B /\ [Move]_components => [Rate!Next]_Rate!vars /\ B'
  BY WhichStays DEF Move, components, RateVars, Rate!vars
<1>7. ~B /\ [Move]_components => ~B'
  BY WhichStays
<1>8. Rate!Spec => []Rate!RateIsMeasured
  BY RatesAreMeasured
<1>9. (A => Stats!CountsAddUp) /\ (B => Rate!RateIsMeasured) => StatsAreTrue
  BY DEF StatsAreTrue
<1> QED
  BY <1>1, <1>2, <1>3, <1>4, <1>5, <1>6, <1>7, <1>8, <1>9,
     PTL DEF LibrarySpec, Stats!Spec, Rate!Spec
=============================================================================
