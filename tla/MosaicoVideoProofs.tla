-------------------------- MODULE MosaicoVideoProofs --------------------------
(***************************************************************************)
(* Proofs that MosaicoVideo keeps its buffers apart, for every number of   *)
(* buffers, rows, draw buffers and frames and every set of driver errors,  *)
(* whether the caller keeps the port's discipline or not.  `Inductive` is  *)
(* the invariant; each action preserves it, in the groups: the types, who  *)
(* owns what, what the pixels are, how far a close has come.               *)
(***************************************************************************)
EXTENDS MosaicoVideo, TLAPS

\* A driver error is not ESP_OK, and every answer is a raylib_lite_result_t.
LEMMA ErrorCodes ==
  /\ EspOk \notin Errors
  /\ \A e : MapErr(e) \in Results
  /\ {"OK", "INVALID_STATE", "BUSY", "TIMEOUT"} \subseteq Results
BY VideoAssumption DEF EspOk, EspErrors, MapErr, Results

USE VideoAssumption, ErrorCodes
USE DEF TypeOK, Inductive, None, Index, Buffers, Frames, FrameState, Holding,
        device, game, worker, reader, display, pixels

\* A step that neither sends a row nor changes the pixels being sent keeps what
\* is on its way.
LEMMA SamePainted ==
  ASSUME Painted, UNCHANGED <<display, y>>,
         wpc' = "strips" =>
           y' = 0 \/ (wpc = "strips" /\ content'[work'] = content[work])
  PROVE  Painted'
<1>1. \A r, f : Coming(r, f)' <=> Coming(r, f)
  BY DEF Coming, Covers
<1> QED
  BY <1>1 DEF Painted

\* An opened backend satisfies the invariant.
LEMMA InitInductive == Init => Inductive
<1> SUFFICES ASSUME Init PROVE Inductive
  OBVIOUS
<1> USE DEF Init
<1>1. DeviceOK /\ GameOK
  BY DEF DeviceOK, GameOK
<1>2. WorkerOK
  BY DEF WorkerOK
<1>3. PixelsOK
  BY DEF PixelsOK
<1>4. Ownership /\ Control /\ Staging /\ Closing
  BY DEF Ownership, Control, Staging, Closing
<1>5. CopyIsWhole /\ LatestIsCommitted /\ NoUseAfterFree /\ NoLostWakeup
  BY DEF CopyIsWhole, LatestIsCommitted, NoUseAfterFree, NoLostWakeup
<1>6. DisplayOK /\ Painted
  <2>1. wire = <<>> /\ Len(wire) = 0 /\ DOMAIN wire = {} /\ wire \in Seq(Strips)
    OBVIOUS
  <2>2. \A r \in Lines : panel[r] = 0
    OBVIOUS
  <2>3. \A r \in Lines : Coming(r, 0)
    BY <2>1, <2>2 DEF Coming
  <2> QED
    BY <2>1, <2>3 DEF DisplayOK, Painted, Lines
<1> QED
  BY <1>1, <1>2, <1>3, <1>4, <1>5, <1>6

\* Step Acquire: the buffer lent was free, so nobody reads what the game draws.
LEMMA AcquireInductive == Inductive /\ (Acquire) => Inductive'
<1> SUFFICES ASSUME Inductive, Acquire PROVE Inductive'
  OBVIOUS
<1> USE DEF Acquire, Return, LowestFree
<1>1. DeviceOK'
  BY DEF DeviceOK, GameOK, WorkerOK
<1>2. GameOK'
  BY DEF DeviceOK, GameOK
<1>3. WorkerOK' /\ PixelsOK' /\ DisplayOK'
  <2>1. WorkerOK' /\ PixelsOK'
    BY DEF DeviceOK, WorkerOK, PixelsOK
  <2>2. DisplayOK'
    BY DEF DisplayOK
  <2> QED
    BY <2>1, <2>2
<1>4. Ownership' /\ Control'
  BY DEF DeviceOK, GameOK, WorkerOK, Ownership, Control
<1>5. Staging' /\ CopyIsWhole' /\ LatestIsCommitted'
  BY DEF DeviceOK, WorkerOK, PixelsOK, Ownership, Control, Staging,
         CopyIsWhole, LatestIsCommitted
<1>6. Painted'
  <2>1. wpc = "strips" => content'[work] = content[work]
    BY DEF DeviceOK, WorkerOK, PixelsOK, Ownership, Control
  <2> QED
    BY <2>1, SamePainted
<1>7. Closing' /\ NoUseAfterFree' /\ NoLostWakeup'
  BY DEF DeviceOK, GameOK, WorkerOK, PixelsOK, Ownership, Control, Closing,
         NoUseAfterFree, NoLostWakeup
<1> QED
  BY <1>1, <1>2, <1>3, <1>4, <1>5, <1>6, <1>7

\* Step Present: the buffer goes to the worker or back to the pool, on every path.
LEMMA PresentInductive == Inductive /\ (\E f \in Index : Present(f)) => Inductive'
<1> SUFFICES ASSUME Inductive, \E f \in Index : Present(f) PROVE Inductive'
  OBVIOUS
<1> USE DEF Present, FreeDrawing, Return
<1>1. DeviceOK'
  BY DEF DeviceOK, GameOK, WorkerOK
<1>2. GameOK'
  BY DEF DeviceOK, GameOK
<1>3. WorkerOK' /\ PixelsOK' /\ DisplayOK'
  BY DEF DeviceOK, WorkerOK, PixelsOK, DisplayOK
<1>4. Ownership' /\ Control'
  BY DEF DeviceOK, GameOK, WorkerOK, Ownership, Control
<1>5. Staging' /\ CopyIsWhole' /\ LatestIsCommitted'
  BY DEF DeviceOK, WorkerOK, PixelsOK, Ownership, Control, Staging,
         CopyIsWhole, LatestIsCommitted
<1>6. Painted'
  BY SamePainted DEF Staging
<1>7. Closing' /\ NoUseAfterFree' /\ NoLostWakeup'
  BY DEF DeviceOK, GameOK, WorkerOK, PixelsOK, Ownership, Control, Closing,
         NoUseAfterFree, NoLostWakeup
<1> QED
  BY <1>1, <1>2, <1>3, <1>4, <1>5, <1>6, <1>7

\* Step PresentGive: the wakeup of the frame just accepted.
LEMMA PresentGiveInductive == Inductive /\ PresentGive => Inductive'
<1> SUFFICES ASSUME Inductive, PresentGive PROVE Inductive'
  OBVIOUS
<1> USE DEF PresentGive, GiveReady, Return
<1>1. DeviceOK'
  BY DEF DeviceOK, GameOK, WorkerOK
<1>2. GameOK'
  BY DEF DeviceOK, GameOK
<1>3. WorkerOK' /\ PixelsOK' /\ DisplayOK'
  BY DEF DeviceOK, WorkerOK, PixelsOK, DisplayOK
<1>4. Ownership' /\ Control'
  BY DEF DeviceOK, GameOK, WorkerOK, Ownership, Control
<1>5. Staging' /\ CopyIsWhole' /\ LatestIsCommitted'
  BY DEF DeviceOK, WorkerOK, PixelsOK, Ownership, Control, Staging,
         CopyIsWhole, LatestIsCommitted
<1>6. Painted'
  BY SamePainted DEF Staging
<1>7. Closing' /\ NoUseAfterFree' /\ NoLostWakeup'
  BY DEF DeviceOK, GameOK, WorkerOK, PixelsOK, Ownership, Control, Closing,
         NoUseAfterFree, NoLostWakeup
<1> QED
  BY <1>1, <1>2, <1>3, <1>4, <1>5, <1>6, <1>7

\* Step Discard: the buffer goes back to the pool.
LEMMA DiscardInductive == Inductive /\ Discard => Inductive'
<1> SUFFICES ASSUME Inductive, Discard PROVE Inductive'
  OBVIOUS
<1> USE DEF Discard, FreeDrawing
<1>1. DeviceOK'
  BY DEF DeviceOK, GameOK, WorkerOK
<1>2. GameOK'
  BY DEF DeviceOK, GameOK
<1>3. WorkerOK' /\ PixelsOK' /\ DisplayOK'
  BY DEF DeviceOK, WorkerOK, PixelsOK, DisplayOK
<1>4. Ownership' /\ Control'
  BY DEF DeviceOK, GameOK, WorkerOK, Ownership, Control
<1>5. Staging' /\ CopyIsWhole' /\ LatestIsCommitted'
  BY DEF DeviceOK, WorkerOK, PixelsOK, Ownership, Control, Staging,
         CopyIsWhole, LatestIsCommitted
<1>6. Painted'
  BY SamePainted DEF Staging
<1>7. Closing' /\ NoUseAfterFree' /\ NoLostWakeup'
  BY DEF DeviceOK, GameOK, WorkerOK, PixelsOK, Ownership, Control, Closing,
         NoUseAfterFree, NoLostWakeup
<1> QED
  BY <1>1, <1>2, <1>3, <1>4, <1>5, <1>6, <1>7

\* Step Flush: a call of flush or close begins.
LEMMA FlushInductive == Inductive /\ (\E c \in BOOLEAN : Flush(c)) => Inductive'
<1> SUFFICES ASSUME Inductive, \E c \in BOOLEAN : Flush(c) PROVE Inductive'
  OBVIOUS
<1> USE DEF Flush
<1>1. DeviceOK'
  BY DEF DeviceOK, GameOK, WorkerOK
<1>2. GameOK'
  BY DEF DeviceOK, GameOK
<1>3. WorkerOK' /\ PixelsOK' /\ DisplayOK'
  BY DEF DeviceOK, WorkerOK, PixelsOK, DisplayOK
<1>4. Ownership' /\ Control'
  BY DEF DeviceOK, GameOK, WorkerOK, Ownership, Control
<1>5. Staging' /\ CopyIsWhole' /\ LatestIsCommitted'
  BY DEF DeviceOK, WorkerOK, PixelsOK, Ownership, Control, Staging,
         CopyIsWhole, LatestIsCommitted
<1>6. Painted'
  BY SamePainted DEF Staging
<1>7. Closing' /\ NoUseAfterFree' /\ NoLostWakeup'
  BY DEF DeviceOK, GameOK, WorkerOK, PixelsOK, Ownership, Control, Closing,
         NoUseAfterFree, NoLostWakeup
<1> QED
  BY <1>1, <1>2, <1>3, <1>4, <1>5, <1>6, <1>7

\* Step FlushCheck: going on to quiesce means that nothing is pending or working.
LEMMA FlushCheckInductive == Inductive /\ FlushCheck => Inductive'
<1> SUFFICES ASSUME Inductive, FlushCheck PROVE Inductive'
  OBVIOUS
<1> USE DEF FlushCheck, FlushReturn, Return, Busy
<1>1. DeviceOK'
  BY DEF DeviceOK, GameOK, WorkerOK
<1>2. GameOK'
  BY DEF DeviceOK, GameOK
<1>3. WorkerOK' /\ PixelsOK' /\ DisplayOK'
  BY DEF DeviceOK, WorkerOK, PixelsOK, DisplayOK
<1>4. Ownership' /\ Control'
  BY DEF DeviceOK, GameOK, WorkerOK, Ownership, Control
<1>5. Staging' /\ CopyIsWhole' /\ LatestIsCommitted'
  BY DEF DeviceOK, WorkerOK, PixelsOK, Ownership, Control, Staging,
         CopyIsWhole, LatestIsCommitted
<1>6. Painted'
  BY SamePainted DEF Staging
<1>7. Closing' /\ NoUseAfterFree' /\ NoLostWakeup'
  BY DEF DeviceOK, GameOK, WorkerOK, PixelsOK, Ownership, Control, Closing,
         NoUseAfterFree, NoLostWakeup
<1> QED
  BY <1>1, <1>2, <1>3, <1>4, <1>5, <1>6, <1>7

\* Step FlushWait: the worker's token lets flush look again.
LEMMA FlushWaitInductive == Inductive /\ FlushWait => Inductive'
<1> SUFFICES ASSUME Inductive, FlushWait PROVE Inductive'
  OBVIOUS
<1> USE DEF FlushWait
<1>1. DeviceOK'
  BY DEF DeviceOK, GameOK, WorkerOK
<1>2. GameOK'
  BY DEF DeviceOK, GameOK
<1>3. WorkerOK' /\ PixelsOK' /\ DisplayOK'
  BY DEF DeviceOK, WorkerOK, PixelsOK, DisplayOK
<1>4. Ownership' /\ Control'
  BY DEF DeviceOK, GameOK, WorkerOK, Ownership, Control
<1>5. Staging' /\ CopyIsWhole' /\ LatestIsCommitted'
  BY DEF DeviceOK, WorkerOK, PixelsOK, Ownership, Control, Staging,
         CopyIsWhole, LatestIsCommitted
<1>6. Painted'
  BY SamePainted DEF Staging
<1>7. Closing' /\ NoUseAfterFree' /\ NoLostWakeup'
  BY DEF DeviceOK, GameOK, WorkerOK, PixelsOK, Ownership, Control, Closing,
         NoUseAfterFree, NoLostWakeup
<1> QED
  BY <1>1, <1>2, <1>3, <1>4, <1>5, <1>6, <1>7

\* Step FlushTimeout: a flush that gives up leaves everything as it is.
LEMMA FlushTimeoutInductive == Inductive /\ FlushTimeout => Inductive'
<1> SUFFICES ASSUME Inductive, FlushTimeout PROVE Inductive'
  OBVIOUS
<1> USE DEF FlushTimeout, FlushReturn, Return
<1>1. DeviceOK'
  BY DEF DeviceOK, GameOK, WorkerOK
<1>2. GameOK'
  BY DEF DeviceOK, GameOK
<1>3. WorkerOK' /\ PixelsOK' /\ DisplayOK'
  BY DEF DeviceOK, WorkerOK, PixelsOK, DisplayOK
<1>4. Ownership' /\ Control'
  BY DEF DeviceOK, GameOK, WorkerOK, Ownership, Control
<1>5. Staging' /\ CopyIsWhole' /\ LatestIsCommitted'
  BY DEF DeviceOK, WorkerOK, PixelsOK, Ownership, Control, Staging,
         CopyIsWhole, LatestIsCommitted
<1>6. Painted'
  BY SamePainted DEF Staging
<1>7. Closing' /\ NoUseAfterFree' /\ NoLostWakeup'
  BY DEF DeviceOK, GameOK, WorkerOK, PixelsOK, Ownership, Control, Closing,
         NoUseAfterFree, NoLostWakeup
<1> QED
  BY <1>1, <1>2, <1>3, <1>4, <1>5, <1>6, <1>7

\* Step FlushQuiesce: a close goes on only from here, with nothing outstanding.
LEMMA FlushQuiesceInductive == Inductive /\ FlushQuiesce => Inductive'
<1> SUFFICES ASSUME Inductive, FlushQuiesce PROVE Inductive'
  OBVIOUS
<1> USE DEF FlushQuiesce, FlushReturn, Return
<1>1. DeviceOK'
  BY DEF DeviceOK, GameOK, WorkerOK
<1>2. GameOK'
  BY DEF DeviceOK, GameOK
<1>3. WorkerOK' /\ PixelsOK' /\ DisplayOK'
  BY DEF DeviceOK, WorkerOK, PixelsOK, DisplayOK
<1>4. Ownership' /\ Control'
  BY DEF DeviceOK, GameOK, WorkerOK, Ownership, Control
<1>5. Staging' /\ CopyIsWhole' /\ LatestIsCommitted'
  BY DEF DeviceOK, WorkerOK, PixelsOK, Ownership, Control, Staging,
         CopyIsWhole, LatestIsCommitted
<1>6. Painted'
  BY SamePainted DEF Staging
<1>7. Closing' /\ NoUseAfterFree' /\ NoLostWakeup'
  BY DEF DeviceOK, GameOK, WorkerOK, PixelsOK, Ownership, Control, Closing,
         NoUseAfterFree, NoLostWakeup
<1> QED
  BY <1>1, <1>2, <1>3, <1>4, <1>5, <1>6, <1>7

\* Step CloseSet: no frame is outstanding when closing is set.
LEMMA CloseSetInductive == Inductive /\ CloseSet => Inductive'
<1> SUFFICES ASSUME Inductive, CloseSet PROVE Inductive'
  OBVIOUS
<1> USE DEF CloseSet
<1>1. DeviceOK'
  BY DEF DeviceOK, GameOK, WorkerOK
<1>2. GameOK'
  BY DEF DeviceOK, GameOK
<1>3. WorkerOK' /\ PixelsOK' /\ DisplayOK'
  BY DEF DeviceOK, WorkerOK, PixelsOK, DisplayOK
<1>4. Ownership' /\ Control'
  BY DEF DeviceOK, GameOK, WorkerOK, Ownership, Control
<1>5. Staging' /\ CopyIsWhole' /\ LatestIsCommitted'
  BY DEF DeviceOK, WorkerOK, PixelsOK, Ownership, Control, Staging,
         CopyIsWhole, LatestIsCommitted
<1>6. Painted'
  BY SamePainted DEF Staging
<1>7. Closing' /\ NoUseAfterFree' /\ NoLostWakeup'
  BY DEF DeviceOK, GameOK, WorkerOK, PixelsOK, Ownership, Control, Closing,
         NoUseAfterFree, NoLostWakeup
<1> QED
  BY <1>1, <1>2, <1>3, <1>4, <1>5, <1>6, <1>7

\* Step CloseGive: the wakeup that lets the worker see closing.
LEMMA CloseGiveInductive == Inductive /\ CloseGive => Inductive'
<1> SUFFICES ASSUME Inductive, CloseGive PROVE Inductive'
  OBVIOUS
<1> USE DEF CloseGive, GiveReady
<1>1. DeviceOK'
  BY DEF DeviceOK, GameOK, WorkerOK
<1>2. GameOK'
  BY DEF DeviceOK, GameOK
<1>3. WorkerOK' /\ PixelsOK' /\ DisplayOK'
  BY DEF DeviceOK, WorkerOK, PixelsOK, DisplayOK
<1>4. Ownership' /\ Control'
  BY DEF DeviceOK, GameOK, WorkerOK, Ownership, Control
<1>5. Staging' /\ CopyIsWhole' /\ LatestIsCommitted'
  BY DEF DeviceOK, WorkerOK, PixelsOK, Ownership, Control, Staging,
         CopyIsWhole, LatestIsCommitted
<1>6. Painted'
  BY SamePainted DEF Staging
<1>7. Closing' /\ NoUseAfterFree' /\ NoLostWakeup'
  BY DEF DeviceOK, GameOK, WorkerOK, PixelsOK, Ownership, Control, Closing,
         NoUseAfterFree, NoLostWakeup
<1> QED
  BY <1>1, <1>2, <1>3, <1>4, <1>5, <1>6, <1>7

\* Step CloseJoin: the memory is freed only after the worker gave `stopped`.
LEMMA CloseJoinInductive == Inductive /\ CloseJoin => Inductive'
<1> SUFFICES ASSUME Inductive, CloseJoin PROVE Inductive'
  OBVIOUS
<1> USE DEF CloseJoin, Return
<1>1. DeviceOK'
  BY DEF DeviceOK, GameOK, WorkerOK
<1>2. GameOK'
  BY DEF DeviceOK, GameOK
<1>3. WorkerOK' /\ PixelsOK' /\ DisplayOK'
  BY DEF DeviceOK, WorkerOK, PixelsOK, DisplayOK
<1>4. Ownership' /\ Control'
  BY DEF DeviceOK, GameOK, WorkerOK, Ownership, Control
<1>5. Staging' /\ CopyIsWhole' /\ LatestIsCommitted'
  BY DEF DeviceOK, WorkerOK, PixelsOK, Ownership, Control, Staging,
         CopyIsWhole, LatestIsCommitted
<1>6. Painted'
  BY SamePainted DEF Staging
<1>7. Closing' /\ NoUseAfterFree' /\ NoLostWakeup'
  BY DEF DeviceOK, GameOK, WorkerOK, PixelsOK, Ownership, Control, Closing,
         NoUseAfterFree, NoLostWakeup
<1> QED
  BY <1>1, <1>2, <1>3, <1>4, <1>5, <1>6, <1>7

\* Step CloseTimeout: a close that gives up keeps everything for a retry.
LEMMA CloseTimeoutInductive == Inductive /\ CloseTimeout => Inductive'
<1> SUFFICES ASSUME Inductive, CloseTimeout PROVE Inductive'
  OBVIOUS
<1> USE DEF CloseTimeout, FlushReturn, Return
<1>1. DeviceOK'
  BY DEF DeviceOK, GameOK, WorkerOK
<1>2. GameOK'
  BY DEF DeviceOK, GameOK
<1>3. WorkerOK' /\ PixelsOK' /\ DisplayOK'
  BY DEF DeviceOK, WorkerOK, PixelsOK, DisplayOK
<1>4. Ownership' /\ Control'
  BY DEF DeviceOK, GameOK, WorkerOK, Ownership, Control
<1>5. Staging' /\ CopyIsWhole' /\ LatestIsCommitted'
  BY DEF DeviceOK, WorkerOK, PixelsOK, Ownership, Control, Staging,
         CopyIsWhole, LatestIsCommitted
<1>6. Painted'
  BY SamePainted DEF Staging
<1>7. Closing' /\ NoUseAfterFree' /\ NoLostWakeup'
  BY DEF DeviceOK, GameOK, WorkerOK, PixelsOK, Ownership, Control, Closing,
         NoUseAfterFree, NoLostWakeup
<1> QED
  BY <1>1, <1>2, <1>3, <1>4, <1>5, <1>6, <1>7

\* Step WorkerWait: taking the wakeup moves it into the worker's control state.
LEMMA WorkerWaitInductive == Inductive /\ WorkerWait => Inductive'
<1> SUFFICES ASSUME Inductive, WorkerWait PROVE Inductive'
  OBVIOUS
<1> USE DEF WorkerWait, WorkerFrame
<1>1. DeviceOK'
  BY DEF DeviceOK, GameOK, WorkerOK
<1>2. GameOK'
  BY DEF DeviceOK, GameOK
<1>3. WorkerOK' /\ PixelsOK' /\ DisplayOK'
  BY DEF DeviceOK, WorkerOK, PixelsOK, DisplayOK
<1>4. Ownership' /\ Control'
  BY DEF DeviceOK, GameOK, WorkerOK, Ownership, Control
<1>5. Staging' /\ CopyIsWhole' /\ LatestIsCommitted'
  BY DEF DeviceOK, WorkerOK, PixelsOK, Ownership, Control, Staging,
         CopyIsWhole, LatestIsCommitted
<1>6. Painted'
  BY SamePainted DEF Staging
<1>7. Closing' /\ NoUseAfterFree' /\ NoLostWakeup'
  BY DEF DeviceOK, GameOK, WorkerOK, PixelsOK, Ownership, Control, Closing,
         NoUseAfterFree, NoLostWakeup
<1> QED
  BY <1>1, <1>2, <1>3, <1>4, <1>5, <1>6, <1>7

\* Step WorkerLock: the worker enters its critical section.
LEMMA WorkerLockInductive == Inductive /\ WorkerLock => Inductive'
<1> SUFFICES ASSUME Inductive, WorkerLock PROVE Inductive'
  OBVIOUS
<1> USE DEF WorkerLock, WorkerFrame
<1>1. DeviceOK'
  BY DEF DeviceOK, GameOK, WorkerOK
<1>2. GameOK'
  BY DEF DeviceOK, GameOK
<1>3. WorkerOK' /\ PixelsOK' /\ DisplayOK'
  BY DEF DeviceOK, WorkerOK, PixelsOK, DisplayOK
<1>4. Ownership' /\ Control'
  BY DEF DeviceOK, GameOK, WorkerOK, Ownership, Control
<1>5. Staging' /\ CopyIsWhole' /\ LatestIsCommitted'
  BY DEF DeviceOK, WorkerOK, PixelsOK, Ownership, Control, Staging,
         CopyIsWhole, LatestIsCommitted
<1>6. Painted'
  BY SamePainted DEF Staging
<1>7. Closing' /\ NoUseAfterFree' /\ NoLostWakeup'
  BY DEF DeviceOK, GameOK, WorkerOK, PixelsOK, Ownership, Control, Closing,
         NoUseAfterFree, NoLostWakeup
<1> QED
  BY <1>1, <1>2, <1>3, <1>4, <1>5, <1>6, <1>7

\* Step WorkerPick: the pending buffer becomes the worker's.
LEMMA WorkerPickInductive == Inductive /\ WorkerPick => Inductive'
<1> SUFFICES ASSUME Inductive, WorkerPick PROVE Inductive'
  OBVIOUS
<1> USE DEF WorkerPick, WorkerFrame
<1>1. DeviceOK'
  BY DEF DeviceOK, GameOK, WorkerOK
<1>2. GameOK'
  BY DEF DeviceOK, GameOK
<1>3. WorkerOK' /\ PixelsOK' /\ DisplayOK'
  BY DEF DeviceOK, WorkerOK, PixelsOK, DisplayOK
<1>4. Ownership' /\ Control'
  BY DEF DeviceOK, GameOK, WorkerOK, Ownership, Control
<1>5. Staging' /\ CopyIsWhole' /\ LatestIsCommitted'
  BY DEF DeviceOK, WorkerOK, PixelsOK, Ownership, Control, Staging,
         CopyIsWhole, LatestIsCommitted
<1>6. Painted'
  BY SamePainted DEF Staging
<1>7. Closing' /\ NoUseAfterFree' /\ NoLostWakeup'
  BY DEF DeviceOK, GameOK, WorkerOK, PixelsOK, Ownership, Control, Closing,
         NoUseAfterFree, NoLostWakeup
<1> QED
  BY <1>1, <1>2, <1>3, <1>4, <1>5, <1>6, <1>7

\* Step WorkerBegin: the presenter accepts a frame.
LEMMA WorkerBeginInductive == Inductive /\ WorkerBegin => Inductive'
<1> SUFFICES ASSUME Inductive, WorkerBegin PROVE Inductive'
  OBVIOUS
<1> USE DEF WorkerBegin, WorkerFrame
<1>1. DeviceOK'
  BY DEF DeviceOK, GameOK, WorkerOK
<1>2. GameOK'
  BY DEF DeviceOK, GameOK
<1>3. WorkerOK' /\ PixelsOK' /\ DisplayOK'
  BY DEF DeviceOK, WorkerOK, PixelsOK, DisplayOK
<1>4. Ownership' /\ Control'
  BY DEF DeviceOK, GameOK, WorkerOK, Ownership, Control
<1>5. Staging' /\ CopyIsWhole' /\ LatestIsCommitted'
  BY DEF DeviceOK, WorkerOK, PixelsOK, Ownership, Control, Staging,
         CopyIsWhole, LatestIsCommitted
<1>6. Painted'
  BY SamePainted DEF Staging
<1>7. Closing' /\ NoUseAfterFree' /\ NoLostWakeup'
  BY DEF DeviceOK, GameOK, WorkerOK, PixelsOK, Ownership, Control, Closing,
         NoUseAfterFree, NoLostWakeup
<1> QED
  BY <1>1, <1>2, <1>3, <1>4, <1>5, <1>6, <1>7

\* The wire after one more strip.
LEMMA Lengthened ==
  ASSUME NEW S, NEW w \in Seq(S), NEW s \in S
  PROVE  /\ Append(w, s) \in Seq(S)
         /\ Len(w) \in Nat
         /\ Len(Append(w, s)) = Len(w) + 1
         /\ DOMAIN w = 1 .. Len(w)
         /\ DOMAIN Append(w, s) = 1 .. Len(w) + 1
         /\ \A i \in 1 .. Len(w) : Append(w, s)[i] = w[i]
         /\ Append(w, s)[Len(w) + 1] = s
OBVIOUS

\* A strip that is sent decides about the rows it covers, and about no other.
LEMMA StripComes ==
  ASSUME wire \in Seq(Strips), NEW s \in Strips, wire' = Append(wire, s),
         UNCHANGED panel, NEW r
  PROVE  /\ Covers(s, r) => Coming(r, s.frame)'
         /\ ~Covers(s, r) => \A f : Coming(r, f) => Coming(r, f)'
<1>1. /\ Len(wire) \in Nat /\ Len(wire') = Len(wire) + 1
      /\ DOMAIN wire = 1 .. Len(wire) /\ DOMAIN wire' = 1 .. Len(wire) + 1
      /\ \A i \in 1 .. Len(wire) : wire'[i] = wire[i]
      /\ wire'[Len(wire) + 1] = s
  BY Lengthened
<1>2. CASE Covers(s, r)
  <2>1. Len(wire) + 1 \in DOMAIN wire'
    BY <1>1
  <2>2. \A j \in Len(wire) + 2 .. Len(wire') : ~Covers(wire'[j], r)
    BY <1>1
  <2> QED
    BY <1>1, <1>2, <2>1, <2>2 DEF Coming, Covers
<1>3. ASSUME ~Covers(s, r), NEW f, Coming(r, f) PROVE Coming(r, f)'
  <2>1. CASE panel[r] = f /\ \A i \in DOMAIN wire : ~Covers(wire[i], r)
    BY <1>1, <1>3, <2>1 DEF Coming, Covers
  <2>2. CASE \E i \in DOMAIN wire :
               /\ wire[i].frame = f /\ Covers(wire[i], r)
               /\ \A j \in i + 1 .. Len(wire) : ~Covers(wire[j], r)
    <3>1. PICK i \in 1 .. Len(wire) :
            /\ wire[i].frame = f /\ Covers(wire[i], r)
            /\ \A j \in i + 1 .. Len(wire) : ~Covers(wire[j], r)
      BY <1>1, <2>2
    <3>2. \A j \in i + 1 .. Len(wire') : ~Covers(wire'[j], r)
      BY <1>1, <1>3, <3>1
    <3>3. i \in DOMAIN wire' /\ wire'[i] = wire[i]
      BY <1>1
    <3> QED
      BY <3>1, <3>2, <3>3 DEF Coming, Covers
  <2> QED
    BY <1>3, <2>1, <2>2 DEF Coming
<1> QED
  BY <1>2, <1>3

\* Step WorkerStrip: the strip comes from the buffer the worker holds, below the
\* rows that were sent before.
LEMMA WorkerStripInductive == Inductive /\ WorkerStrip => Inductive'
<1> SUFFICES ASSUME Inductive, WorkerStrip PROVE Inductive'
  OBVIOUS
<1> USE DEF WorkerStrip, WorkerFrame, MoreRows
<1>1. DeviceOK'
  BY DEF DeviceOK, GameOK, WorkerOK
<1>2. GameOK'
  BY DEF DeviceOK, GameOK
<1>8. PICK count \in 1 .. Rows - y :
        /\ wire' = Append(wire, [first |-> y, count |-> count,
                                 frame |-> content[work]])
        /\ y' = y + count
  OBVIOUS
<1>9. y \in Nat /\ y < Rows /\ count \in 1 .. Rows /\ y' \in 0 .. Rows
  BY <1>8 DEF WorkerOK
<1>10. PICK s \in Strips : /\ wire' = Append(wire, s)
                          /\ s.first = y /\ s.count = count
                          /\ s.frame = content[work]
  <2>1. content[work] \in Frames
    BY DEF WorkerOK, PixelsOK, Control
  <2>2. [first |-> y, count |-> count, frame |-> content[work]] \in Strips
    BY <1>9, <2>1 DEF Strips, Lines
  <2> QED
    BY <1>8, <2>2
<1>3. WorkerOK' /\ PixelsOK' /\ DisplayOK'
  <2>1. wire' \in Seq(Strips) /\ Len(wire') = Len(wire) + 1
    BY <1>10, Lengthened DEF DisplayOK
  <2>2. Len(wire') <= DrawBuffers
    BY <2>1, Lengthened, <1>10 DEF DisplayOK
  <2>3. WorkerOK' /\ PixelsOK'
    BY <1>9 DEF WorkerOK, PixelsOK
  <2> QED
    BY <2>1, <2>2, <2>3 DEF DisplayOK
<1>4. Ownership' /\ Control'
  BY DEF DeviceOK, GameOK, WorkerOK, Ownership, Control
<1>5. Staging' /\ CopyIsWhole' /\ LatestIsCommitted'
  BY DEF DeviceOK, WorkerOK, PixelsOK, Ownership, Control, Staging,
         CopyIsWhole, LatestIsCommitted
<1>6. Painted'
  <2>1. \A r : r \in y .. y' - 1 => Covers(s, r)
    BY <1>8, <1>9, <1>10 DEF Covers
  <2>2. \A r : r \in 0 .. y - 1 \/ r \in y' .. Rows - 1 => ~Covers(s, r)
    BY <1>8, <1>9, <1>10 DEF Covers
  <2>3. ASSUME NEW r PROVE /\ Covers(s, r) => Coming(r, s.frame)'
                           /\ ~Covers(s, r) => \A f : Coming(r, f) => Coming(r, f)'
    BY <1>10, StripComes DEF DisplayOK
  <2>4. s.frame = content[work] /\ content'[work'] = content[work]
        /\ committed' = committed /\ broken' = broken /\ wpc = "strips"
    BY <1>10
  <2>5. \A r \in 0 .. y' - 1 : Coming(r, content[work])'
    <3>1. \A r : r \in 0 .. y' - 1 => r \in 0 .. y - 1 \/ r \in y .. y' - 1
      BY <1>8, <1>9
    <3>2. \A r \in 0 .. y - 1 : Coming(r, content[work])
      BY <2>4 DEF Painted
    <3>3. \A r : r \in 0 .. y - 1 => Coming(r, content[work])'
      BY <2>2, <2>3, <2>4, <3>2
    <3>4. \A r : r \in y .. y' - 1 => Coming(r, content[work])'
      BY <2>1, <2>3, <2>4
    <3> QED
      BY ONLY <3>1, <3>3, <3>4
  <2>6. ~broken' => \A r \in y' .. Rows - 1 : Coming(r, committed)'
    <3>1. \A r : r \in y' .. Rows - 1 => r \in y .. Rows - 1
      BY <1>8, <1>9
    <3> QED
      BY <2>2, <2>3, <2>4, <3>1 DEF Painted
  <2> QED
    BY <2>5, <2>6 DEF Painted
<1>7. Closing' /\ NoUseAfterFree' /\ NoLostWakeup'
  BY DEF DeviceOK, GameOK, WorkerOK, PixelsOK, Ownership, Control, Closing,
         NoUseAfterFree, NoLostWakeup
<1> QED
  BY <1>1, <1>2, <1>3, <1>4, <1>5, <1>6, <1>7

\* Step WorkerCommit: every row of the frame has been sent.
LEMMA WorkerCommitInductive == Inductive /\ WorkerCommit => Inductive'
<1> SUFFICES ASSUME Inductive, WorkerCommit PROVE Inductive'
  OBVIOUS
<1> USE DEF WorkerCommit, WorkerFrame, MoreRows
<1>1. DeviceOK'
  BY DEF DeviceOK, GameOK, WorkerOK
<1>2. GameOK'
  BY DEF DeviceOK, GameOK
<1>3. WorkerOK' /\ PixelsOK' /\ DisplayOK'
  <2>1. WorkerOK' /\ PixelsOK'
    BY DEF DeviceOK, WorkerOK, PixelsOK
  <2>2. content[work] \in Frames
    BY DEF WorkerOK, PixelsOK, Control
  <2>3. DisplayOK'
    BY <2>2 DEF DisplayOK
  <2> QED
    BY <2>1, <2>3
<1>4. Ownership' /\ Control'
  BY DEF DeviceOK, GameOK, WorkerOK, Ownership, Control
<1>5. Staging' /\ CopyIsWhole' /\ LatestIsCommitted'
  BY DEF DeviceOK, WorkerOK, PixelsOK, Ownership, Control, Staging,
         CopyIsWhole, LatestIsCommitted
<1>6. Painted'
  <2>1. \A r, f : Coming(r, f)' <=> Coming(r, f)
    BY DEF Coming, Covers
  <2>2. y = Rows /\ y' = 0
    BY DEF WorkerOK
  <2>3. \A r \in 0 .. Rows - 1 : Coming(r, content[work])
    BY <2>2 DEF Painted
  <2> QED
    BY <2>1, <2>2, <2>3 DEF Painted
<1>7. Closing' /\ NoUseAfterFree' /\ NoLostWakeup'
  BY DEF DeviceOK, GameOK, WorkerOK, PixelsOK, Ownership, Control, Closing,
         NoUseAfterFree, NoLostWakeup
<1> QED
  BY <1>1, <1>2, <1>3, <1>4, <1>5, <1>6, <1>7

\* Step WorkerFail: what was sent stays, and counts as broken.
LEMMA WorkerFailInductive == Inductive /\ WorkerFail => Inductive'
<1> SUFFICES ASSUME Inductive, WorkerFail PROVE Inductive'
  OBVIOUS
<1> USE DEF WorkerFail, WorkerFrame
<1>1. DeviceOK'
  BY DEF DeviceOK, GameOK, WorkerOK
<1>2. GameOK'
  BY DEF DeviceOK, GameOK
<1>3. WorkerOK' /\ PixelsOK' /\ DisplayOK'
  BY DEF DeviceOK, WorkerOK, PixelsOK, DisplayOK
<1>4. Ownership' /\ Control'
  BY DEF DeviceOK, GameOK, WorkerOK, Ownership, Control
<1>5. Staging' /\ CopyIsWhole' /\ LatestIsCommitted'
  BY DEF DeviceOK, WorkerOK, PixelsOK, Ownership, Control, Staging,
         CopyIsWhole, LatestIsCommitted
<1>6. Painted'
  <2>1. \A r, f : Coming(r, f)' <=> Coming(r, f)
    BY DEF Coming, Covers
  <2>2. ~broken' => ~broken /\ y = 0
    <3>1. broken' = (broken \/ y > 0)
      OBVIOUS
    <3>2. ~broken' => ~broken /\ ~(y > 0)
      BY ONLY <3>1, Zenon
    <3> QED
      BY <3>2 DEF WorkerOK
  <2> QED
    BY <2>1, <2>2 DEF Painted
<1>7. Closing' /\ NoUseAfterFree' /\ NoLostWakeup'
  BY DEF DeviceOK, GameOK, WorkerOK, PixelsOK, Ownership, Control, Closing,
         NoUseAfterFree, NoLostWakeup
<1> QED
  BY <1>1, <1>2, <1>3, <1>4, <1>5, <1>6, <1>7

\* Step WorkerFinish: the previous latest is freed, or the failed buffer is.
LEMMA WorkerFinishInductive == Inductive /\ WorkerFinish => Inductive'
<1> SUFFICES ASSUME Inductive, WorkerFinish PROVE Inductive'
  OBVIOUS
<1> USE DEF WorkerFinish, WorkerFrame, Publish, Fail
<1>1. DeviceOK'
  BY DEF DeviceOK, GameOK, WorkerOK
<1>2. GameOK'
  BY DEF DeviceOK, GameOK
<1>3. WorkerOK' /\ PixelsOK' /\ DisplayOK'
  BY DEF DeviceOK, WorkerOK, PixelsOK, DisplayOK
<1>4. Ownership' /\ Control'
  BY DEF DeviceOK, GameOK, WorkerOK, Ownership, Control
<1>5. Staging' /\ CopyIsWhole' /\ LatestIsCommitted'
  BY DEF DeviceOK, WorkerOK, PixelsOK, Ownership, Control, Staging,
         CopyIsWhole, LatestIsCommitted
<1>6. Painted'
  BY SamePainted DEF Staging
<1>7. Closing' /\ NoUseAfterFree' /\ NoLostWakeup'
  BY DEF DeviceOK, GameOK, WorkerOK, PixelsOK, Ownership, Control, Closing,
         NoUseAfterFree, NoLostWakeup
<1> QED
  BY <1>1, <1>2, <1>3, <1>4, <1>5, <1>6, <1>7

\* Step WorkerSignal: the worker holds no buffer any more.
LEMMA WorkerSignalInductive == Inductive /\ WorkerSignal => Inductive'
<1> SUFFICES ASSUME Inductive, WorkerSignal PROVE Inductive'
  OBVIOUS
<1> USE DEF WorkerSignal, WorkerFrame
<1>1. DeviceOK'
  BY DEF DeviceOK, GameOK, WorkerOK
<1>2. GameOK'
  BY DEF DeviceOK, GameOK
<1>3. WorkerOK' /\ PixelsOK' /\ DisplayOK'
  BY DEF DeviceOK, WorkerOK, PixelsOK, DisplayOK
<1>4. Ownership' /\ Control'
  BY DEF DeviceOK, GameOK, WorkerOK, Ownership, Control
<1>5. Staging' /\ CopyIsWhole' /\ LatestIsCommitted'
  BY DEF DeviceOK, WorkerOK, PixelsOK, Ownership, Control, Staging,
         CopyIsWhole, LatestIsCommitted
<1>6. Painted'
  BY SamePainted DEF Staging
<1>7. Closing' /\ NoUseAfterFree' /\ NoLostWakeup'
  BY DEF DeviceOK, GameOK, WorkerOK, PixelsOK, Ownership, Control, Closing,
         NoUseAfterFree, NoLostWakeup
<1> QED
  BY <1>1, <1>2, <1>3, <1>4, <1>5, <1>6, <1>7

\* Step WorkerStop: the worker stops only after a close began.
LEMMA WorkerStopInductive == Inductive /\ WorkerStop => Inductive'
<1> SUFFICES ASSUME Inductive, WorkerStop PROVE Inductive'
  OBVIOUS
<1> USE DEF WorkerStop, WorkerFrame
<1>1. DeviceOK'
  BY DEF DeviceOK, GameOK, WorkerOK
<1>2. GameOK'
  BY DEF DeviceOK, GameOK
<1>3. WorkerOK' /\ PixelsOK' /\ DisplayOK'
  BY DEF DeviceOK, WorkerOK, PixelsOK, DisplayOK
<1>4. Ownership' /\ Control'
  BY DEF DeviceOK, GameOK, WorkerOK, Ownership, Control
<1>5. Staging' /\ CopyIsWhole' /\ LatestIsCommitted'
  BY DEF DeviceOK, WorkerOK, PixelsOK, Ownership, Control, Staging,
         CopyIsWhole, LatestIsCommitted
<1>6. Painted'
  BY SamePainted DEF Staging
<1>7. Closing' /\ NoUseAfterFree' /\ NoLostWakeup'
  BY DEF DeviceOK, GameOK, WorkerOK, PixelsOK, Ownership, Control, Closing,
         NoUseAfterFree, NoLostWakeup
<1> QED
  BY <1>1, <1>2, <1>3, <1>4, <1>5, <1>6, <1>7

\* The wire without its first strip.
LEMMA Shortened ==
  ASSUME NEW S, NEW w \in Seq(S), w # <<>>
  PROVE  /\ Tail(w) \in Seq(S)
         /\ Len(w) \in Nat \ {0}
         /\ Len(Tail(w)) = Len(w) - 1
         /\ DOMAIN w = 1 .. Len(w)
         /\ DOMAIN Tail(w) = 1 .. Len(w) - 1
         /\ \A i \in 1 .. Len(w) - 1 : Tail(w)[i] = w[i + 1]
         /\ Head(w) = w[1] /\ w[1] \in S
OBVIOUS

\* What Land does to the wire and the panel.
LEMMA Landed ==
  ASSUME DisplayOK, Land
  PROVE  /\ wire \in Seq(Strips) /\ wire # <<>> /\ wire' \in Seq(Strips)
         /\ Len(wire) \in Nat \ {0} /\ Len(wire') = Len(wire) - 1
         /\ DOMAIN wire = 1 .. Len(wire) /\ DOMAIN wire' = 1 .. Len(wire) - 1
         /\ \A i \in 1 .. Len(wire) - 1 : wire'[i] = wire[i + 1]
         /\ wire[1] \in Strips
         /\ panel' = [r \in Lines |-> IF Covers(wire[1], r) THEN wire[1].frame
                                      ELSE panel[r]]
<1>1. wire \in Seq(Strips) /\ wire # <<>> /\ wire' = Tail(wire)
  BY DEF DisplayOK, Land
<1>2. Head(wire) = wire[1]
  BY <1>1, Shortened
<1>3. panel' = [r \in Lines |-> IF Covers(wire[1], r) THEN wire[1].frame
                                ELSE panel[r]]
  BY <1>2 DEF Land
<1> QED
  BY <1>1, <1>3, Shortened

\* A strip that lands is one that was on its way.
LEMMA LandKeepsComing ==
  ASSUME DisplayOK, Land, NEW r \in Lines, NEW f, Coming(r, f)
  PROVE  Coming(r, f)'
<1> DEFINE n == Len(wire)
<1>1. /\ n \in Nat \ {0} /\ Len(wire') = n - 1
      /\ DOMAIN wire = 1 .. n /\ DOMAIN wire' = 1 .. n - 1
      /\ \A i \in 1 .. n - 1 : wire'[i] = wire[i + 1]
      /\ panel'[r] = IF Covers(wire[1], r) THEN wire[1].frame ELSE panel[r]
  BY Landed
<1> HIDE DEF n
<1>2. CASE panel[r] = f /\ \A i \in 1 .. n : ~Covers(wire[i], r)
  <2>1. panel'[r] = f
    BY <1>1, <1>2
  <2>2. \A i \in 1 .. n - 1 : ~Covers(wire'[i], r)
    BY <1>1, <1>2
  <2> QED
    BY <1>1, <2>1, <2>2 DEF Coming, Covers
<1>3. ASSUME NEW i \in 1 .. n, wire[i].frame = f, Covers(wire[i], r),
             \A j \in i + 1 .. n : ~Covers(wire[j], r)
      PROVE  Coming(r, f)'
  <2>1. CASE i = 1
    <3>1. panel'[r] = f
      BY <1>1, <1>3, <2>1
    <3>2. \A k \in 1 .. n - 1 : ~Covers(wire'[k], r)
      BY <1>1, <1>3, <2>1
    <3> QED
      BY <1>1, <3>1, <3>2 DEF Coming, Covers
  <2>2. CASE i # 1
    <3>1. i - 1 \in 1 .. n - 1 /\ wire'[i - 1] = wire[i]
      BY <1>1, <2>2
    <3>2. \A j \in (i - 1) + 1 .. n - 1 : ~Covers(wire'[j], r)
      BY <1>1, <1>3, <2>2
    <3> QED
      BY <1>1, <1>3, <3>1, <3>2 DEF Coming, Covers
  <2> QED
    BY <2>1, <2>2
<1> QED
  BY <1>1, <1>2, <1>3 DEF Coming, n

\* Step Land: the panel gets what was on its way.
LEMMA LandInductive == Inductive /\ Land => Inductive'
<1> SUFFICES ASSUME Inductive, Land PROVE Inductive'
  OBVIOUS
<1>8. /\ UNCHANGED <<device, mutex, ready, finished, stopped, game, worker,
                     reader, content, frames, committed, broken>>
      /\ wire # <<>>
  BY DEF Land
<1>1. DeviceOK'
  BY <1>8 DEF DeviceOK
<1>2. GameOK'
  BY <1>8 DEF GameOK
<1>3. WorkerOK' /\ PixelsOK' /\ DisplayOK'
  <2>1. WorkerOK' /\ PixelsOK'
    BY <1>8 DEF WorkerOK, PixelsOK
  <2>2. wire' \in Seq(Strips) /\ Len(wire') <= DrawBuffers
    BY Landed DEF DisplayOK
  <2>3. panel' \in [Lines -> Frames]
    <3>1. wire[1].frame \in Frames
      BY Landed DEF Strips
    <3> QED
      BY <3>1, Landed DEF DisplayOK
  <2> QED
    BY <1>8, <2>1, <2>2, <2>3 DEF DisplayOK
<1>4. Ownership' /\ Control'
  BY <1>8 DEF Ownership, Control
<1>5. Staging' /\ CopyIsWhole' /\ LatestIsCommitted'
  BY <1>8 DEF Staging, CopyIsWhole, LatestIsCommitted
<1>6. Painted'
  <2>1. \A r \in Lines : \A f : Coming(r, f) => Coming(r, f)'
    BY LandKeepsComing
  <2>2. \A r : r \in 0 .. y - 1 \/ r \in y .. Rows - 1 => r \in Lines
    BY DEF WorkerOK, Lines
  <2> QED
    BY <1>8, <2>1, <2>2 DEF Painted
<1>7. Closing' /\ NoUseAfterFree' /\ NoLostWakeup'
  <2>1. gpc \notin {"closing", "wake", "join", "gone"}
    BY <1>8 DEF Closing
  <2> QED
    BY <1>8, <2>1 DEF Closing, NoUseAfterFree, NoLostWakeup
<1> QED
  BY <1>1, <1>2, <1>3, <1>4, <1>5, <1>6, <1>7

\* Step CopyStart: the copying task holds the mutex.
LEMMA CopyStartInductive == Inductive /\ CopyStart => Inductive'
<1> SUFFICES ASSUME Inductive, CopyStart PROVE Inductive'
  OBVIOUS
<1> USE DEF CopyStart, NotReady
<1>1. DeviceOK'
  BY DEF DeviceOK, GameOK, WorkerOK
<1>2. GameOK'
  BY DEF DeviceOK, GameOK
<1>3. WorkerOK' /\ PixelsOK' /\ DisplayOK'
  BY DEF DeviceOK, WorkerOK, PixelsOK, DisplayOK
<1>4. Ownership' /\ Control'
  BY DEF DeviceOK, GameOK, WorkerOK, Ownership, Control
<1>5. Staging' /\ CopyIsWhole' /\ LatestIsCommitted'
  BY DEF DeviceOK, WorkerOK, PixelsOK, Ownership, Control, Staging,
         CopyIsWhole, LatestIsCommitted
<1>6. Painted'
  BY SamePainted DEF Staging
<1>7. Closing' /\ NoUseAfterFree' /\ NoLostWakeup'
  BY DEF DeviceOK, GameOK, WorkerOK, PixelsOK, Ownership, Control, Closing,
         NoUseAfterFree, NoLostWakeup
<1> QED
  BY <1>1, <1>2, <1>3, <1>4, <1>5, <1>6, <1>7

\* Step CopyEnd: and gives it back.
LEMMA CopyEndInductive == Inductive /\ CopyEnd => Inductive'
<1> SUFFICES ASSUME Inductive, CopyEnd PROVE Inductive'
  OBVIOUS
<1> USE DEF CopyEnd
<1>1. DeviceOK'
  BY DEF DeviceOK, GameOK, WorkerOK
<1>2. GameOK'
  BY DEF DeviceOK, GameOK
<1>3. WorkerOK' /\ PixelsOK' /\ DisplayOK'
  BY DEF DeviceOK, WorkerOK, PixelsOK, DisplayOK
<1>4. Ownership' /\ Control'
  BY DEF DeviceOK, GameOK, WorkerOK, Ownership, Control
<1>5. Staging' /\ CopyIsWhole' /\ LatestIsCommitted'
  BY DEF DeviceOK, WorkerOK, PixelsOK, Ownership, Control, Staging,
         CopyIsWhole, LatestIsCommitted
<1>6. Painted'
  BY SamePainted DEF Staging
<1>7. Closing' /\ NoUseAfterFree' /\ NoLostWakeup'
  BY DEF DeviceOK, GameOK, WorkerOK, PixelsOK, Ownership, Control, Closing,
         NoUseAfterFree, NoLostWakeup
<1> QED
  BY <1>1, <1>2, <1>3, <1>4, <1>5, <1>6, <1>7

\* Step Stutter: nothing changes.
LEMMA StutterInductive == Inductive /\ (UNCHANGED vars) => Inductive'
<1> SUFFICES ASSUME Inductive, UNCHANGED vars PROVE Inductive'
  OBVIOUS
<1> USE DEF vars
<1>1. DeviceOK'
  BY DEF DeviceOK, GameOK, WorkerOK
<1>2. GameOK'
  BY DEF DeviceOK, GameOK
<1>3. WorkerOK' /\ PixelsOK' /\ DisplayOK'
  BY DEF DeviceOK, WorkerOK, PixelsOK, DisplayOK
<1>4. Ownership' /\ Control'
  BY DEF DeviceOK, GameOK, WorkerOK, Ownership, Control
<1>5. Staging' /\ CopyIsWhole' /\ LatestIsCommitted'
  BY DEF DeviceOK, WorkerOK, PixelsOK, Ownership, Control, Staging,
         CopyIsWhole, LatestIsCommitted
<1>6. Painted'
  BY SamePainted DEF Staging
<1>7. Closing' /\ NoUseAfterFree' /\ NoLostWakeup'
  BY DEF DeviceOK, GameOK, WorkerOK, PixelsOK, Ownership, Control, Closing,
         NoUseAfterFree, NoLostWakeup
<1> QED
  BY <1>1, <1>2, <1>3, <1>4, <1>5, <1>6, <1>7

\* Every step keeps the invariant.
LEMMA NextInductive == Inductive /\ [Next]_vars => Inductive'
BY AcquireInductive, PresentInductive, PresentGiveInductive, DiscardInductive,
   FlushInductive, FlushCheckInductive, FlushWaitInductive,
   FlushTimeoutInductive, CloseTimeoutInductive, FlushQuiesceInductive,
   CloseSetInductive, CloseGiveInductive, CloseJoinInductive,
   LandInductive, WorkerWaitInductive, WorkerLockInductive,
   WorkerPickInductive, WorkerBeginInductive, WorkerStripInductive,
   WorkerCommitInductive, WorkerFailInductive, WorkerFinishInductive,
   WorkerSignalInductive, WorkerStopInductive, CopyStartInductive,
   CopyEndInductive, StutterInductive
   DEF Next, GameCall, GameStep, Timeout, Worker, Closed

\* The invariant holds in every state of every behaviour.
THEOREM InductiveHolds == Spec => []Inductive
BY InitInductive, NextInductive, PTL DEF Spec

\* Every variable keeps its type.
THEOREM TypeCorrect == Spec => []TypeOK
<1>1. Inductive => TypeOK
  OBVIOUS
<1> QED
  BY <1>1, InductiveHolds, PTL

\* No buffer is leaked, lent twice, or lent while somebody still reads it.
THEOREM BuffersOwned == Spec => []Ownership
<1>1. Inductive => Ownership
  OBVIOUS
<1> QED
  BY <1>1, InductiveHolds, PTL

\* The snapshot is the frame the presenter committed last, outside the window in
\* which the worker is about to publish the next: a frame that failed is never it.
THEOREM LatestWasCommitted == Spec => []LatestIsCommitted
<1>1. Inductive => LatestIsCommitted
  OBVIOUS
<1> QED
  BY <1>1, InductiveHolds, PTL

\* The game's quiesce never overlaps the worker's use of the presenter.
THEOREM PresenterExclusive == Spec => []ExclusivePresenter
<1>1. Inductive => ExclusivePresenter
  BY DEF ExclusivePresenter, Control, Closing
<1> QED
  BY <1>1, InductiveHolds, PTL

\* The memory of a closed backend is out of every other task's reach.
THEOREM CloseIsSafe == Spec => []NoUseAfterFree
<1>1. Inductive => NoUseAfterFree
  OBVIOUS
<1> QED
  BY <1>1, InductiveHolds, PTL

\* A pending frame always has a wakeup of the worker on its way.
THEOREM WakeupsArrive == Spec => []NoLostWakeup
<1>1. Inductive => NoLostWakeup
  OBVIOUS
<1> QED
  BY <1>1, InductiveHolds, PTL

\* After a flush has found the backend idle, and after a close, no accepted
\* frame is left behind; a close that frees the backend has emptied the wire.
THEOREM FlushDrains == Spec => []Drained
<1>1. Inductive => Drained
  BY DEF Drained, InFlight, Ownership, Control, Closing
<1> QED
  BY <1>1, InductiveHolds, PTL

\* All of these together: what the run checks on three buffers.
THEOREM SafetyHolds == Spec => []Safety
<1>1. TypeOK /\ Ownership /\ LatestIsCommitted /\ ExclusivePresenter
        /\ NoUseAfterFree /\ NoLostWakeup /\ Drained => Safety
  BY DEF Safety
<1> QED
  BY <1>1, TypeCorrect, BuffersOwned, LatestWasCommitted, PresenterExclusive,
     CloseIsSafe, WakeupsArrive, FlushDrains, PTL
-----------------------------------------------------------------------------
(* MosaicoVideo implements VideoContract: every step of the game thread,   *)
(* the strip worker and the copying task is a step of the contract or      *)
(* leaves it alone.                                                        *)
HIDE DEF TypeOK, Inductive
USE DEF InFlight

\* What was sent has a number, and the committed frame was sent.
LEMMA SentNumbers == DisplayOK => Sent \subseteq Frames /\ committed \in Sent
<1> SUFFICES ASSUME DisplayOK PROVE Sent \subseteq Frames /\ committed \in Sent
  OBVIOUS
<1>1. \A i \in DOMAIN wire : wire[i] \in Strips
  BY DEF DisplayOK
<1> QED
  BY <1>1 DEF DisplayOK, Sent, Strips

\* A step that sends, lands and commits nothing keeps what was sent.
LEMMA SameSent ==
  ASSUME UNCHANGED <<wire, panel, committed>>
  PROVE  Sent' = Sent /\ (WireIsNewer => WireIsNewer')
BY DEF Sent, WireIsNewer

\* An opened backend has handed out no frame.
LEMMA InitOrder == Init => FrameOrder
<1> SUFFICES ASSUME Init PROVE FrameOrder
  OBVIOUS
<1>1. wire = <<>> /\ DOMAIN wire = {}
  BY DEF Init
<1>2. WireIsNewer
  BY <1>1 DEF WireIsNewer
<1>3. Sent \subseteq {0}
  BY <1>1 DEF Init, Sent
<1> QED
  BY <1>2, <1>3 DEF Init, FrameOrder

\* The worker sends only what is as new as everything sent before.
LEMMA StripOrder ==
  ASSUME Inductive, FrameOrder, WorkerStrip
  PROVE  Sent' = Sent \cup {content[work]} /\ WireIsNewer'
<1> USE DEF Inductive, TypeOK
<1>1. PICK s \in Strips : wire' = Append(wire, s) /\ s.frame = content[work]
  <2>1. PICK count \in 1 .. Rows - y :
          wire' = Append(wire, [first |-> y, count |-> count,
                                frame |-> content[work]])
    BY DEF WorkerStrip
  <2>2. [first |-> y, count |-> count, frame |-> content[work]] \in Strips
    BY DEF WorkerStrip, MoreRows, WorkerOK, PixelsOK, Control, Strips, Lines
  <2> QED
    BY <2>1, <2>2
<1> DEFINE n == Len(wire)
<1>2. /\ n \in Nat /\ DOMAIN wire = 1 .. n /\ DOMAIN wire' = 1 .. n + 1
      /\ \A i \in 1 .. n : wire'[i] = wire[i]
      /\ wire'[n + 1].frame = content[work]
  BY <1>1, Lengthened DEF DisplayOK
<1> HIDE DEF n
<1>3. panel' = panel /\ committed' = committed
  BY DEF WorkerStrip
<1>4. Sent' = Sent \cup {content[work]}
  <2>1. {wire'[i].frame : i \in 1 .. n + 1}
          = {wire[i].frame : i \in 1 .. n} \cup {content[work]}
    BY <1>2
  <2> QED
    BY <1>2, <1>3, <2>1 DEF Sent
<1>5. \A f \in Sent : f \in Nat /\ f <= content[work]
  BY SentNumbers DEF FrameOrder, WorkerStrip
<1>6. \A r \in Lines : panel[r] \in Sent
  BY DEF Sent
<1>7. \A i \in 1 .. n : wire[i].frame \in Sent
  BY <1>2 DEF Sent
<1>8. content[work] \in Nat
  BY DEF WorkerOK, PixelsOK, Control, WorkerStrip
<1>9. WireIsNewer
  BY DEF FrameOrder
<1>10. ASSUME NEW i \in 1 .. n + 1
       PROVE  /\ \A r \in Lines : panel[r] <= wire'[i].frame
              /\ \A j \in i .. n + 1 : wire'[i].frame <= wire'[j].frame
  <2>1. CASE i = n + 1
    BY <1>2, <1>5, <1>6, <1>8, <2>1
  <2>2. CASE i # n + 1
    <3>1. i \in 1 .. n /\ wire'[i] = wire[i]
      BY <1>2, <2>2
    <3>2. \A j \in i .. n : wire'[i].frame <= wire'[j].frame
      BY <1>2, <1>9, <3>1 DEF WireIsNewer
    <3>3. wire'[i].frame <= wire'[n + 1].frame
      BY <1>2, <1>5, <1>7, <3>1
    <3>4. \A r \in Lines : panel[r] <= wire'[i].frame
      BY <1>2, <1>9, <3>1 DEF WireIsNewer
    <3> QED
      BY <1>2, <3>2, <3>3, <3>4
  <2> QED
    BY <2>1, <2>2
<1>11. WireIsNewer'
  <2>1. Len(wire') = n + 1
    BY <1>1, Lengthened DEF DisplayOK, n
  <2> QED
    BY <1>2, <1>3, <1>10, <2>1 DEF WireIsNewer
<1> QED
  BY <1>4, <1>11

\* A strip that lands takes no row back.
LEMMA LandOrder ==
  ASSUME Inductive, FrameOrder, Land
  PROVE  Sent' \subseteq Sent /\ WireIsNewer'
<1> USE DEF Inductive, TypeOK
<1> DEFINE n == Len(wire)
<1>1. /\ n \in Nat \ {0} /\ Len(wire') = n - 1
      /\ DOMAIN wire = 1 .. n /\ DOMAIN wire' = 1 .. n - 1
      /\ \A i \in 1 .. n - 1 : wire'[i] = wire[i + 1]
      /\ \A r \in Lines : panel'[r] \in {wire[1].frame, panel[r]}
  BY Landed
<1> HIDE DEF n
<1>2. committed' = committed
  BY DEF Land
<1>3. WireIsNewer
  BY DEF FrameOrder
<1>4. Sent' \subseteq Sent
  <2>1. \A r \in Lines : panel'[r] \in Sent
    BY <1>1 DEF Sent
  <2>2. \A i \in 1 .. n - 1 : wire'[i].frame \in Sent
    BY <1>1 DEF Sent
  <2> QED
    BY <1>1, <1>2, <2>1, <2>2 DEF Sent
<1>5. ASSUME NEW i \in 1 .. n - 1
      PROVE  /\ \A r \in Lines : panel'[r] <= wire'[i].frame
             /\ \A j \in i .. n - 1 : wire'[i].frame <= wire'[j].frame
  <2>1. i + 1 \in 1 .. n /\ wire'[i] = wire[i + 1]
    BY <1>1
  <2>2. \A r \in Lines : panel[r] <= wire[i + 1].frame
    BY <1>1, <1>3, <2>1 DEF WireIsNewer
  <2>3. wire[1].frame <= wire[i + 1].frame
    <3>1. 1 \in DOMAIN wire /\ i + 1 \in 1 .. Len(wire)
      BY <1>1, <2>1 DEF n
    <3> QED
      BY <1>3, <3>1 DEF WireIsNewer
  <2>4. ASSUME NEW j \in i .. n - 1 PROVE wire'[i].frame <= wire'[j].frame
    <3>1. j \in 1 .. n - 1 /\ j + 1 \in i + 1 .. Len(wire) /\ i + 1 \in DOMAIN wire
      BY <1>1, <2>1 DEF n
    <3>2. wire[i + 1].frame <= wire[j + 1].frame
      BY <1>3, <3>1 DEF WireIsNewer
    <3> QED
      BY <1>1, <2>1, <3>1, <3>2
  <2> QED
    BY <1>1, <2>1, <2>2, <2>3, <2>4
<1>6. WireIsNewer'
  BY <1>1, <1>5 DEF WireIsNewer
<1> QED
  BY <1>4, <1>6

\* A step hands out a newer frame, passes one on, or drops one.
LEMMA NextOrder == Inductive /\ FrameOrder /\ [Next]_vars => FrameOrder'
<1> SUFFICES ASSUME Inductive, FrameOrder, [Next]_vars PROVE FrameOrder'
  OBVIOUS
<1> USE DEF FrameOrder, Inductive, TypeOK, DeviceOK, WorkerOK, PixelsOK,
            Ownership, Control
<1>0. Sent \subseteq Nat /\ committed \in Sent
  BY SentNumbers
<1>1. CASE Acquire
  <2>0. Sent' = Sent /\ WireIsNewer'
    BY <1>1, SameSent DEF Acquire
  <2>1. CASE UNCHANGED <<state, drawing, content, frames>>
    BY <1>1, <2>0, <2>1 DEF Acquire
  <2>2. CASE frames' = frames + 1
    <3>1. PICK b \in Buffers :
            /\ state[b] = "FREE" /\ drawing = None /\ drawing' = b
            /\ state' = [state EXCEPT ![b] = "DRAWING"]
            /\ content' = [content EXCEPT ![b] = frames + 1]
      BY <1>1, <2>2 DEF Acquire, LowestFree
    <3>2. UNCHANGED <<pending, work, wpc, committed>>
      BY <1>1 DEF Acquire
    <3>3. frames \in Nat /\ \A c \in Buffers : content[c] \in Nat
      OBVIOUS
    <3>4. \A c \in Buffers : c # b => /\ content'[c] = content[c]
                                      /\ state'[c] = state[c]
      BY <3>1
    <3>5. content'[b] = frames + 1 /\ state'[b] = "DRAWING"
      BY <3>1
    <3>6. work # b /\ pending # b
      BY <3>1
    <3>7. ASSUME NEW f \in Sent'
          PROVE  /\ f <= frames'
                 /\ \A c \in Buffers : state'[c] \in {"PENDING", "DRAWING"}
                      => f < content'[c]
                 /\ wpc' \in {"begin", "strips"} => f <= content'[work']
      BY <1>0, <2>0, <2>2, <3>2, <3>3, <3>4, <3>5, <3>6
    <3>8. wpc' \in {"begin", "strips"} => committed' < content'[work']
      BY <3>2, <3>4, <3>6
    <3> QED
      BY <2>0, <2>2, <3>1, <3>2, <3>3, <3>4, <3>5, <3>6, <3>7, <3>8
  <2> QED
    BY <1>1, <2>1, <2>2 DEF Acquire
<1>2. CASE \E f \in Index : Present(f)
  <2>0. Sent' = Sent /\ WireIsNewer'
    BY <1>2, SameSent DEF Present
  <2>1. UNCHANGED <<work, wpc, content, frames, committed>> /\ drawing' = None
    BY <1>2 DEF Present, FreeDrawing
  <2>2. \A b \in Buffers :
          /\ state'[b] = "PENDING" => state[b] \in {"PENDING", "DRAWING"}
          /\ state'[b] = "WORKING" <=> state[b] = "WORKING"
          /\ state'[b] # "DRAWING"
    BY <1>2 DEF Present, FreeDrawing
  <2>3. pending' = pending \/ (drawing # None /\ pending' = drawing)
    BY <1>2 DEF Present
  <2>4. \A b \in Buffers : state'[b] # "FREE" => state[b] # "FREE"
    BY <1>2 DEF Present, FreeDrawing
  <2>5. drawing # None => content[drawing] # 0
    OBVIOUS
  <2>6. \A b \in Buffers : state'[b] # "FREE" => content'[b] # 0
    BY <2>1, <2>4
  <2>7. work' # None /\ pending' # None => content'[work'] < content'[pending']
    BY <2>1, <2>3
  <2>8. \A f \in Sent :
          /\ f <= frames
          /\ \A b \in Buffers : state'[b] \in {"PENDING", "DRAWING"}
               => f < content[b]
          /\ wpc \in {"begin", "strips"} => f <= content[work]
    BY <2>2
  <2> QED
    BY <2>0, <2>1, <2>6, <2>7, <2>8
<1>3. CASE Discard
  <2>0. Sent' = Sent /\ WireIsNewer'
    BY <1>3, SameSent DEF Discard
  <2> QED
    BY <1>3, <2>0 DEF Discard, FreeDrawing
<1>4. CASE \E c \in BOOLEAN : Flush(c)
  <2>0. Sent' = Sent /\ WireIsNewer'
    BY <1>4, SameSent DEF Flush
  <2> QED
    BY <1>4, <2>0 DEF Flush
<1>5. CASE GameStep \/ Timeout
  <2> USE DEF GameStep, Timeout, PresentGive, FlushCheck, FlushWait,
              FlushTimeout, FlushQuiesce, CloseSet, CloseGive, CloseJoin,
              CloseTimeout
  <2>0. Sent' = Sent /\ WireIsNewer'
    BY <1>5, SameSent
  <2>1. UNCHANGED <<state, drawing, pending, work, wpc, content, frames, committed>>
    BY <1>5
  <2> QED
    BY ONLY <2>0, <2>1, FrameOrder DEF FrameOrder, InFlight
<1>6. CASE WorkerWait \/ WorkerLock \/ WorkerBegin \/ WorkerSignal \/ WorkerStop
  <2> USE DEF WorkerWait, WorkerLock, WorkerBegin, WorkerSignal, WorkerStop,
              WorkerFrame
  <2>0. Sent' = Sent /\ WireIsNewer'
    BY <1>6, SameSent
  <2>1. UNCHANGED <<state, drawing, pending, work, content, frames, committed>>
    BY <1>6
  <2>2. wpc' \in {"begin", "strips"} => wpc \in {"begin", "strips"}
    BY <1>6
  <2> QED
    BY ONLY <2>0, <2>1, <2>2, FrameOrder DEF FrameOrder, InFlight
<1>7. CASE WorkerPick
  <2>0. Sent' = Sent /\ WireIsNewer'
    BY <1>7, SameSent DEF WorkerPick
  <2> QED
    BY <1>0, <1>7, <2>0 DEF WorkerPick, WorkerFrame
<1>8. CASE WorkerStrip
  <2>0. Sent' = Sent \cup {content[work]} /\ WireIsNewer'
    BY <1>8, StripOrder
  <2>1. UNCHANGED <<state, drawing, pending, work, wpc, content, frames, committed>>
        /\ wpc = "strips"
    BY <1>8 DEF WorkerStrip, WorkerFrame
  <2>2. work \in Buffers /\ content[work] \in Nat /\ work \in InFlight
    BY <2>1
  <2>3. ASSUME NEW f \in Sent'
        PROVE  /\ f <= frames
               /\ \A b \in Buffers : state[b] \in {"PENDING", "DRAWING"}
                    => f < content[b]
               /\ f <= content[work]
    <3>1. CASE f \in Sent
      BY <2>1, <3>1
    <3>2. CASE f = content[work]
      BY <2>1, <2>2, <3>2
    <3> QED
      BY <2>0, <3>1, <3>2
  <2> QED
    BY <2>0, <2>1, <2>3
<1>9. CASE WorkerFail
  <2>0. Sent' = Sent /\ WireIsNewer'
    BY <1>9, SameSent DEF WorkerFail
  <2> QED
    BY <1>9, <2>0 DEF WorkerFail, WorkerFrame
<1>10. CASE WorkerCommit
  <2>0. Sent' \subseteq Sent \cup {content[work]} /\ WireIsNewer'
    BY <1>10 DEF WorkerCommit, Sent, WireIsNewer
  <2>1. UNCHANGED <<state, drawing, pending, work, content, frames>>
        /\ wpc = "strips" /\ wpc' = "relock"
    BY <1>10 DEF WorkerCommit, WorkerFrame
  <2>2. work \in Buffers /\ content[work] \in Nat /\ work \in InFlight
    BY <2>1
  <2>3. ASSUME NEW f \in Sent'
        PROVE  /\ f <= frames
               /\ \A b \in Buffers : state[b] \in {"PENDING", "DRAWING"}
                    => f < content[b]
    <3>1. CASE f \in Sent
      BY <2>1, <3>1
    <3>2. CASE f = content[work]
      BY <2>1, <2>2, <3>2
    <3> QED
      BY <2>0, <3>1, <3>2
  <2> QED
    BY <2>0, <2>1, <2>3
<1>11. CASE WorkerFinish
  <2>0. Sent' = Sent /\ WireIsNewer'
    BY <1>11, SameSent DEF WorkerFinish
  <2> QED
    BY <1>11, <2>0 DEF WorkerFinish, Publish, Fail, WorkerFrame
<1>12. CASE Land
  <2>0. Sent' \subseteq Sent /\ WireIsNewer'
    BY <1>12, LandOrder
  <2>1. UNCHANGED <<state, drawing, pending, work, wpc, content, frames, committed>>
    BY <1>12 DEF Land
  <2> QED
    BY ONLY <2>0, <2>1, FrameOrder DEF FrameOrder, InFlight
<1>13. CASE CopyStart \/ CopyEnd \/ UNCHANGED vars
  <2>0. Sent' = Sent /\ WireIsNewer'
    BY <1>13, SameSent DEF CopyStart, CopyEnd, vars
  <2>1. UNCHANGED <<state, drawing, pending, work, wpc, content, frames, committed>>
    BY <1>13 DEF CopyStart, CopyEnd, vars
  <2> QED
    BY ONLY <2>0, <2>1, FrameOrder DEF FrameOrder, InFlight
<1> QED
  BY <1>1, <1>2, <1>3, <1>4, <1>5, <1>6, <1>7, <1>8, <1>9, <1>10, <1>11,
     <1>12, <1>13
     DEF Next, GameCall, Worker, Closed

\* No frame overtakes an older one on its way to the panel.
THEOREM FramesInOrder == Spec => []FrameOrder
BY InitOrder, NextOrder, InductiveHolds, PTL DEF Spec

\* What the panel shows, once the wire is empty, is cut only where the worker's
\* loop stands, or by a frame that failed; no row ever goes back to an older
\* frame; and copy_latest copies one frame.
THEOREM NeverTorn == Spec => []NoTearing
<1>1. Inductive /\ FrameOrder => NoTearing
  BY DEF Inductive, FrameOrder, NoTearing
<1> QED
  BY <1>1, InductiveHolds, FramesInOrder, PTL

------------------------------------------------------------------------------

\* An opened backend starts as the contract does.
LEMMA InitContract == Init => Contract!Init
<1> SUFFICES ASSUME Init PROVE Contract!Init
  OBVIOUS
<1>1. committed = 0
  BY DEF Init
<1>2. Flight = {}
  BY DEF Init, Flight
<1> QED
  BY <1>1, <1>2 DEF Init, Contract!Init, FrameOf

\* The view of the contract, and what a step that keeps it leaves alone.
View == <<frames, FrameOf(drawing), Flight, committed, ~closing>>

\* A step that moves no frame is invisible to the contract.
LEMMA SameView ==
  ASSUME UNCHANGED <<frames, drawing, content, committed, closing>>,
         InFlight' = InFlight
  PROVE  UNCHANGED View
BY DEF View, FrameOf, Flight

\* acquire hands out the next frame, or answers without effect.
LEMMA AcquireRefines ==
  ASSUME Inductive, FrameOrder, Acquire
  PROVE  Contract!Next \/ UNCHANGED View
<1> USE DEF Inductive, TypeOK, DeviceOK, PixelsOK, Ownership
<1>1. CASE UNCHANGED <<state, drawing, content, frames>>
  <2>1. UNCHANGED <<committed, closing>>
    BY DEF Acquire
  <2> QED
    BY <1>1, <2>1, SameView
<1>2. CASE frames' = frames + 1
  <2>1. PICK b \in Buffers :
          /\ state[b] = "FREE" /\ drawing = None /\ drawing' = b
          /\ state' = [state EXCEPT ![b] = "DRAWING"]
          /\ content' = [content EXCEPT ![b] = frames + 1]
    BY <1>2 DEF Acquire, LowestFree
  <2>2. UNCHANGED <<committed, closing>> /\ ~closing
    BY <1>2 DEF Acquire
  <2>3. InFlight' = InFlight /\ Flight' = Flight
    BY <2>1 DEF Flight
  <2>4. FrameOf(drawing)' = frames + 1 /\ FrameOf(drawing) = 0
    BY <2>1 DEF FrameOf
  <2>7. Contract!Lease
    BY <1>2, <2>2, <2>3, <2>4 DEF Contract!Lease
  <2> QED
    BY <2>7 DEF Contract!Next
<1> QED
  BY <1>1, <1>2 DEF Acquire

\* A frame in flight, or lent, has a number.
LEMMA LentHasNumber ==
  ASSUME Inductive, FrameOrder, drawing # None
  PROVE  FrameOf(drawing) # 0 /\ FrameOf(drawing) = content[drawing]
<1> USE DEF Inductive, TypeOK, DeviceOK, PixelsOK, Ownership, FrameOrder
<1>1. drawing \in Buffers /\ state[drawing] = "DRAWING"
  OBVIOUS
<1> QED
  BY <1>1 DEF FrameOf

\* discard and every refusing present consume the frame.
LEMMA ConsumeRefines ==
  ASSUME Inductive, FrameOrder, FreeDrawing,
         UNCHANGED <<pending, latest, closing, pixels>>
  PROVE  Contract!Next \/ UNCHANGED View
<1> USE DEF Inductive, TypeOK, DeviceOK, PixelsOK, Ownership, FreeDrawing
<1>1. InFlight' = InFlight /\ Flight' = Flight /\ committed' = committed
  BY DEF Flight
<1>2. FrameOf(drawing)' = 0
  BY DEF FrameOf
<1>3. CASE drawing = None
  BY <1>1, <1>2, <1>3 DEF View, FrameOf
<1>4. CASE drawing # None
  BY <1>1, <1>2, <1>4, LentHasNumber DEF Contract!Next, Contract!Consume
<1> QED
  BY <1>3, <1>4

\* An accepting present puts the frame in flight, in place of the pending one.
LEMMA AcceptRefines ==
  ASSUME Inductive, FrameOrder, drawing # None, drawing' = None, ~closing,
         state' = [b \in Buffers |-> IF b = drawing THEN "PENDING"
                                     ELSE IF b = pending THEN "FREE"
                                     ELSE state[b]],
         UNCHANGED <<closing, pixels>>
  PROVE  Contract!Next
<1> USE DEF Inductive, TypeOK, DeviceOK, PixelsOK, WorkerOK, Ownership, Control
<1> DEFINE superseded == IF pending = None THEN 0 ELSE content[pending]
<1>1. FrameOf(drawing) # 0 /\ FrameOf(drawing) = content[drawing]
  BY LentHasNumber
<1>2. InFlight' = (InFlight \ {pending}) \cup {drawing}
  OBVIOUS
<1>3. superseded \in Flight \cup {0}
  BY DEF Flight
<1>4. Flight' = (Flight \ {superseded}) \cup {FrameOf(drawing)}
  <2>1. InFlight \subseteq {pending, work}
    OBVIOUS
  <2>2. \A b \in InFlight \ {pending} : content[b] # superseded
    BY <2>1 DEF FrameOrder
  <2>3. Flight' = {content[b] : b \in InFlight \ {pending}} \cup {content[drawing]}
    <3>1. content' = content
      OBVIOUS
    <3>2. Flight' = {content[b] : b \in InFlight'}
      BY <3>1 DEF Flight
    <3> HIDE DEF InFlight
    <3> QED
      BY <1>2, <3>2
  <2>4. {content[b] : b \in InFlight \ {pending}} = Flight \ {superseded}
    BY <2>2 DEF Flight
  <2> QED
    BY <1>1, <2>3, <2>4
<1>6. FrameOf(drawing)' = 0 /\ committed' = committed /\ frames' = frames
  BY DEF FrameOf
<1>7. Contract!Accept
  BY <1>1, <1>3, <1>4, <1>6 DEF Contract!Accept
<1> QED
  BY <1>7 DEF Contract!Next

\* The commit makes the worker's frame the visible one.
LEMMA CommitRefines ==
  ASSUME Inductive, FrameOrder, WorkerCommit
  PROVE  Contract!Next
<1> USE DEF Inductive, TypeOK, DeviceOK, WorkerOK, PixelsOK, Ownership, Control
<1>1. work \in Buffers /\ work \in InFlight /\ content[work] \in Flight
  BY DEF WorkerCommit, Flight
<1>2. committed' = content[work] /\ committed < content[work]
  BY DEF WorkerCommit, FrameOrder
<1>6. UNCHANGED <<frames, drawing, content, closing>> /\ InFlight' = InFlight
  BY DEF WorkerCommit, WorkerFrame
<1>7. FrameOf(drawing)' = FrameOf(drawing) /\ Flight' = Flight
  BY <1>6 DEF FrameOf, Flight
<1>8. Contract!Show(content[work])
  BY <1>1, <1>2, <1>6, <1>7 DEF Contract!Show, DisplayOK
<1> QED
  BY <1>1, <1>8 DEF Contract!Next

\* What an image loses with a point that has its value to itself.
LEMMA ImageWithout ==
  ASSUME NEW f, NEW S, NEW x \in S, \A b \in S \ {x} : f[b] # f[x]
  PROVE  {f[b] : b \in S \ {x}} = {f[b] : b \in S} \ {f[x]}
  OBVIOUS

\* Publication, or the failure of the frame, is its release point.
LEMMA FinishRefines ==
  ASSUME Inductive, FrameOrder, WorkerFinish
  PROVE  Contract!Next
<1> USE DEF Inductive, TypeOK, DeviceOK, WorkerOK, PixelsOK, Ownership, Control
<1>1. work \in Buffers /\ work \in InFlight /\ content[work] \in Flight
  BY DEF WorkerFinish, Flight
<1>2. UNCHANGED <<frames, drawing, content, closing, committed>>
  BY DEF WorkerFinish, WorkerFrame
<1>3. InFlight' = InFlight \ {work}
  BY DEF WorkerFinish, Publish, Fail
<1>4. InFlight \subseteq {pending, work}
  OBVIOUS
<1>5. \A b \in InFlight \ {work} : content[b] # content[work]
  BY <1>1, <1>4 DEF FrameOrder
<1>6. Flight' = Flight \ {content[work]}
  <2>1. Flight' = {content[b] : b \in InFlight \ {work}}
    BY <1>2, <1>3, Zenon DEF Flight
  <2> QED
    BY <1>1, <1>5, <2>1, ImageWithout, Zenon DEF Flight
<1>7. FrameOf(drawing)' = FrameOf(drawing)
  BY <1>2 DEF FrameOf
<1>8. Contract!Release(content[work])
  BY <1>1, <1>2, <1>6, <1>7 DEF Contract!Release
<1> QED
  BY <1>1, <1>8 DEF Contract!Next

\* closing is set when nothing is lent and nothing is in flight.
LEMMA CloseRefines ==
  ASSUME Inductive, CloseSet
  PROVE  Contract!Next \/ UNCHANGED View
<1> USE DEF Inductive, TypeOK, DeviceOK, PixelsOK, Ownership
<1>1. UNCHANGED <<frames, drawing, content, committed, state>> /\ closing'
  BY DEF CloseSet
<1>2. InFlight = {} /\ drawing = None
  BY DEF CloseSet, Closing
<1>3. FrameOf(drawing) = 0 /\ FrameOf(drawing)' = 0
  BY <1>1, <1>2 DEF FrameOf
<1>4. Flight = {} /\ Flight' = {}
  BY <1>1, <1>2 DEF Flight
<1>5. CASE closing
  BY <1>1, <1>3, <1>4, <1>5 DEF View
<1>6. CASE ~closing
  BY <1>1, <1>3, <1>4, <1>6 DEF Contract!Next, Contract!Shut
<1> QED
  BY <1>5, <1>6

\* The steps that neither lend, pass on nor release a frame.
LEMMA OthersStutter ==
  ASSUME Inductive,
         \/ \E c \in BOOLEAN : Flush(c)
         \/ PresentGive \/ FlushCheck \/ FlushWait \/ FlushQuiesce
         \/ CloseGive \/ CloseJoin \/ Timeout
         \/ WorkerWait \/ WorkerLock \/ WorkerPick \/ WorkerBegin
         \/ WorkerStrip \/ WorkerFail \/ WorkerSignal \/ WorkerStop \/ Land
         \/ CopyStart \/ CopyEnd \/ Closed \/ UNCHANGED vars
  PROVE  UNCHANGED View
<1> USE DEF Inductive, TypeOK, DeviceOK, WorkerOK, PixelsOK, Ownership, Control
<1>1. UNCHANGED <<frames, drawing, content, committed, closing>>
  BY DEF Flush, PresentGive, FlushCheck, FlushWait, FlushQuiesce, CloseGive,
         CloseJoin, Timeout, FlushTimeout, CloseTimeout, WorkerWait,
         WorkerLock, WorkerPick, WorkerBegin, WorkerStrip, WorkerFail,
         WorkerSignal, WorkerStop, Land, CopyStart, CopyEnd, Closed, vars,
         WorkerFrame
<1>2. CASE WorkerPick
  <2>1. InFlight' = InFlight
    BY <1>2 DEF WorkerPick
  <2> QED
    BY <1>1, <2>1, SameView
<1>3. CASE UNCHANGED state
  <2>1. InFlight' = InFlight
    BY <1>3
  <2> QED
    BY <1>1, <2>1, SameView
<1> QED
  BY <1>2, <1>3
     DEF Flush, PresentGive, FlushCheck, FlushWait, FlushQuiesce, CloseGive,
         CloseJoin, Timeout, FlushTimeout, CloseTimeout, WorkerWait,
         WorkerLock, WorkerBegin, WorkerStrip, WorkerFail,
         WorkerSignal, WorkerStop, Land, CopyStart, CopyEnd, Closed, vars,
         WorkerFrame

\* present consumes the frame it was given, whatever it answers.
LEMMA PresentRefines ==
  ASSUME Inductive, FrameOrder, NEW f \in Index, Present(f)
  PROVE  Contract!Next \/ UNCHANGED View
<1>1. CASE FreeDrawing /\ UNCHANGED pending
  <2>1. UNCHANGED <<pending, latest, closing, pixels>>
    BY <1>1 DEF Present
  <2> QED
    BY <1>1, <2>1, ConsumeRefines
<1>2. CASE gpc' = "give"
  <2>1. drawing # None /\ drawing' = None /\ ~closing
    BY <1>2 DEF Present, FreeDrawing, Inductive, Closing
  <2>2. UNCHANGED <<closing, pixels>>
    BY DEF Present
  <2>3. state' = [b \in Buffers |-> IF b = drawing THEN "PENDING"
                                    ELSE IF b = pending THEN "FREE"
                                    ELSE state[b]]
    BY <1>2 DEF Present
  <2> QED
    BY <2>1, <2>2, <2>3, AcceptRefines
<1> QED
  BY <1>1, <1>2 DEF Present

\* Every step of the backend is one of the contract, or invisible to it.
LEMMA StepRefines ==
  Inductive /\ FrameOrder /\ [Next]_vars => [Contract!Next]_View
<1> SUFFICES ASSUME Inductive, FrameOrder, [Next]_vars
             PROVE  Contract!Next \/ UNCHANGED View
  OBVIOUS
<1>1. CASE Acquire
  BY <1>1, AcquireRefines
<1>2. CASE \E f \in Index : Present(f)
  BY <1>2, PresentRefines
<1>3. CASE Discard
  <2>1. FreeDrawing /\ UNCHANGED <<pending, latest, closing, pixels>>
    BY <1>3 DEF Discard
  <2> QED
    BY <2>1, ConsumeRefines
<1>4. CASE CloseSet
  BY <1>4, CloseRefines
<1>5. CASE WorkerCommit
  BY <1>5, CommitRefines
<1>6. CASE WorkerFinish
  BY <1>6, FinishRefines
<1> HIDE DEF device, game, worker, reader, display, pixels
<1> QED
  BY <1>1, <1>2, <1>3, <1>4, <1>5, <1>6, OthersStutter
     DEF Next, GameCall, GameStep, Worker

\* What copy_latest, the panel and the caller of acquire and present see of
\* mosaico_video.c is a behaviour raylib_lite_video.h allows.
THEOREM ContractHolds == Spec => ImplementsContract
<1>1. [Contract!Next]_View = [Contract!Next]_(Contract!vars)
  BY DEF View, Contract!vars
<1>2. Inductive /\ FrameOrder /\ [Next]_vars => [Contract!Next]_(Contract!vars)
  BY StepRefines, <1>1
<1> QED
  BY <1>2, InitContract, InductiveHolds, FramesInOrder, PTL
     DEF Spec, ImplementsContract, Contract!Spec
-----------------------------------------------------------------------------
(* An error of the worker is reported by the call that forgets it.         *)

\* A disciplined caller holds no frame during a call; nothing is left to report
\* once a flush has found no error; and one frame at most is still to be worked on
\* while an error waits.
NothingUntold ==
  /\ ~Misuse /\ gpc # "idle" => drawing = None
  /\ closing \/ gpc \in {"quiesce", "closing", "wake", "join", "gone"}
       => workerError = EspOk
  /\ workerError # EspOk => pending = None \/ work = None

\* What a step does to an error that is not reported yet.
Tells ==
  workerError # EspOk
    => /\ InFlight' \subseteq InFlight
       /\ workerError' = EspOk => ret' = MapErr(workerError)
       /\ workerError' \notin {EspOk, workerError} => InFlight' = {}

\* It accepts no frame, and answers the error, or leaves it, or replaces it by
\* that of the last frame in flight.
LEMMA StepTells ==
  ASSUME Inductive, NothingUntold, [Next]_vars
  PROVE  NothingUntold' /\ (~Misuse => Tells)
<1> USE DEF NothingUntold, Tells
<1>1. frame = drawing /\ (work # None <=> wpc \in Holding)
      /\ (closing \/ gpc \in {"quiesce", "closing", "wake", "join", "gone"}
            => work = None)
  BY DEF Inductive, Control, Closing
<1>2. /\ state \in [Buffers -> FrameState] /\ Ownership
      /\ drawing \in Index /\ pending \in Index /\ work \in Index
  BY DEF Inductive, TypeOK, DeviceOK, WorkerOK
<1>3. CASE Acquire
  <2>1. UNCHANGED <<pending, work, workerError, gpc, closing>>
        /\ (gpc = "idle")
    BY <1>3 DEF Acquire
  <2>2. InFlight' = InFlight
    <3>1. CASE UNCHANGED state
      BY <3>1
    <3>2. CASE \E b \in Buffers : state[b] = "FREE"
                 /\ state' = [state EXCEPT ![b] = "DRAWING"]
      BY <1>2, <3>2
    <3> QED
      BY <1>3, <3>1, <3>2 DEF Acquire, LowestFree
  <2> QED
    BY <2>1, <2>2
<1>4. CASE \E f \in Index : Present(f)
  <2>1. /\ UNCHANGED <<work, closing>> /\ gpc = "idle" /\ drawing' = None
        /\ workerError' = workerError \/ workerError' = EspOk
        /\ workerError # EspOk => pending' = pending
        /\ pending' # pending => workerError' = EspOk
    BY <1>4 DEF Present, FreeDrawing
  <2>2. closing => gpc' = gpc
    BY <1>4 DEF Present
  <2>3. gpc' \in {"idle", "give"}
    BY <1>4, <2>1 DEF Present
  <2>4. workerError # EspOk /\ workerError' = EspOk => ret' = MapErr(workerError)
    BY <1>1, <1>4 DEF Present, Return
  <2>5. workerError # EspOk => InFlight' \subseteq InFlight
    <3>1. workerError # EspOk => FreeDrawing
      BY <1>4 DEF Present
    <3> QED
      BY <1>2, <3>1 DEF FreeDrawing
  <2>6. NothingUntold'
    BY <2>1, <2>2, <2>3
  <2> QED
    BY <2>1, <2>4, <2>5, <2>6
<1>5. CASE Discard
  <2>1. UNCHANGED <<pending, work, workerError, gpc, closing>> /\ drawing' = None
    BY <1>5 DEF Discard, FreeDrawing
  <2>2. InFlight' = InFlight
    BY <1>2, <1>5 DEF Discard, FreeDrawing, Ownership
  <2> QED
    BY <2>1, <2>2
<1>6. CASE \E c \in BOOLEAN : Flush(c)
  BY <1>1, <1>6 DEF Flush, device
<1>7. CASE FlushCheck
  BY <1>1, <1>7 DEF FlushCheck, FlushReturn, Return
<1>8. CASE PresentGive \/ FlushWait \/ FlushQuiesce \/ CloseSet \/ CloseGive
             \/ CloseJoin \/ Timeout
  BY <1>8 DEF PresentGive, FlushWait, FlushQuiesce, CloseSet, CloseGive,
              CloseJoin, Timeout, FlushTimeout, CloseTimeout, FlushReturn,
              Return, device
<1>9. CASE WorkerFinish
  <2>1. /\ UNCHANGED <<pending, drawing, closing, gpc, ret>>
        /\ work # None /\ work' = None
        /\ workerError' = workerError \/ workerError' = err
        /\ workerError' = EspOk => workerError = EspOk
    BY <1>1, <1>9 DEF WorkerFinish, Publish, Fail, WorkerFrame, game, Holding
  <2>2. InFlight' = InFlight \ {work}
    BY <1>2, <1>9, <2>1 DEF WorkerFinish, Publish, Fail, Ownership
  <2>3. InFlight \subseteq {pending, work}
    BY <1>2 DEF Ownership
  <2>4. workerError # EspOk => InFlight' = {}
    BY <2>1, <2>2, <2>3
  <2>5. NothingUntold'
    BY <1>1, <2>1
  <2> QED
    BY <2>1, <2>2, <2>4, <2>5
<1>10. CASE WorkerPick
  <2>1. UNCHANGED <<drawing, closing, gpc, ret, workerError>>
        /\ (pending' = None \/ UNCHANGED <<pending, work>>)
    BY <1>10 DEF WorkerPick, WorkerFrame, game
  <2>2. InFlight' = InFlight
    BY <1>2, <1>10 DEF WorkerPick, Ownership
  <2> QED
    BY <2>1, <2>2
<1>11. CASE WorkerWait \/ WorkerLock \/ WorkerBegin \/ WorkerStrip
              \/ WorkerCommit \/ WorkerFail \/ WorkerSignal \/ WorkerStop
  BY <1>11 DEF WorkerWait, WorkerLock, WorkerBegin, WorkerStrip, WorkerCommit,
               WorkerFail, WorkerSignal, WorkerStop, WorkerFrame, device, game
<1>12. CASE Land \/ CopyStart \/ CopyEnd \/ UNCHANGED vars
  BY <1>12 DEF Land, CopyStart, CopyEnd, vars, device, game, worker
<1> QED
  BY <1>3, <1>4, <1>5, <1>6, <1>7, <1>8, <1>9, <1>10, <1>11, <1>12
     DEF Next, GameCall, GameStep, Worker, Closed

\* With a caller that keeps the port's discipline the present, flush or close
\* that clears a display error answers its code.  No frame is accepted before,
\* so one code at most takes the place of another, and nothing is in flight then.
THEOREM ErrorsAreTold == ~Misuse => (Spec => ErrorsReported)
<1> SUFFICES ASSUME ~Misuse PROVE Spec => ErrorsReported
  OBVIOUS
<1>1. Init => NothingUntold
  BY DEF Init, NothingUntold
<1>2. Inductive /\ NothingUntold /\ [Next]_vars => NothingUntold'
  BY StepTells
<1>3. Inductive /\ NothingUntold /\ [Next]_vars
        => [workerError # EspOk =>
              /\ InFlight' \subseteq InFlight
              /\ workerError' = EspOk => ret' = MapErr(workerError)
              /\ workerError' \notin {EspOk, workerError} => InFlight' = {}]_vars
  BY StepTells DEF Tells
<1> QED
  BY <1>1, <1>2, <1>3, InductiveHolds, PTL DEF Spec, ErrorsReported
==============================================================================
