----------------------------- MODULE GameAppProofs -----------------------------
(***************************************************************************)
(* Proofs about GameApp: the inductive invariant, the safety of a run and  *)
(* the contract kept towards the backend, for any number of runs, frames   *)
(* and updates and whatever the backend's calls answer.                    *)
(***************************************************************************)
EXTENDS GameApp, TLAPS

\* The frames are numbered as they are lent; nobody tears the backend down.
Numbered ==
  /\ open
  /\ leased <= issued /\ shown <= issued /\ base <= issued
  /\ flight \subseteq 1 .. issued

\* Where the lease is: with the caller of acquire, then with the port.
Lease ==
  /\ pc = "inspect" => leased # 0 /\ initialized /\ ~acquired /\ ~pixels
  /\ pc # "inspect" => (acquired <=> leased # 0)
  /\ pc = "end" /\ pixels => acquired
  /\ pc \in {"entry", "start", "returned"} => ~acquired
  /\ leased # 0 => leased > base

\* Which hooks have run at each place of a run.
Hooks ==
  /\ entered <=> started
  /\ pc \notin {"entry", "close", "returned"} => stops = 0
  /\ pc \in {"close", "returned"} => stops = (IF entered THEN 1 ELSE 0)

\* A frame of this run was accepted: it is on its way, shown, or has failed.
Underway == shown > base \/ failed # "OK" \/ \E n \in flight : n > base

\* Until its first frame is judged, a run has an answer to present only from
\* that frame.
FirstFrame ==
  /\ pc \in {"pass", "work"} => ~first
  /\ first /\ pc \in {"start", "begin", "inspect", "end"} => lastPresent # "OK"
  /\ first /\ pc = "judge" /\ lastPresent = "OK" => Underway
  /\ pc = "flush" => Underway
  /\ pc = "healthy" => shown > base
  /\ healthy => shown > base

Inductive == TypeOK /\ Numbered /\ Lease /\ Hooks /\ FirstFrame

USE AppAssumption
USE DEF frames, calls, run, app, port, drawing, schedule

\* Before the first run nothing is lent.
LEMMA InitInductive == Init => Inductive
<1> SUFFICES ASSUME Init PROVE Inductive
  OBVIOUS
<1> USE DEF Inductive, Init, Contract!Init
<1>1. TypeOK
  <2>1. NumberType
    BY DEF TypeOK, NumberType
  <2>2. FlagType
    BY DEF TypeOK, FlagType
  <2>3. AnswerType
    BY DEF TypeOK, AnswerType, Results
  <2>4. PlaceType
    BY DEF TypeOK, PlaceType
  <2> QED
    BY <2>1, <2>2, <2>3, <2>4 DEF TypeOK
<1>2. Numbered
  BY DEF Numbered
<1>3. Lease
  BY DEF Lease
<1>4. Hooks
  BY DEF Hooks
<1>5. FirstFrame
  BY DEF FirstFrame
<1> QED
  BY <1>1, <1>2, <1>3, <1>4, <1>5

\* Step Show: what is on the panel only gets newer.
LEMMA ShowInductive == Inductive /\ Show => Inductive'
<1> SUFFICES ASSUME Inductive, Show PROVE Inductive'
  OBVIOUS
<1> USE DEF Inductive, Show
<1>1. TypeOK'
  <2>1. NumberType'
    BY DEF TypeOK, NumberType
  <2>2. FlagType'
    BY DEF TypeOK, FlagType
  <2>3. AnswerType'
    BY DEF TypeOK, AnswerType, Results
  <2>4. PlaceType'
    BY DEF TypeOK, PlaceType
  <2> QED
    BY <2>1, <2>2, <2>3, <2>4 DEF TypeOK
<1>2. Numbered'
  BY DEF Numbered, TypeOK, NumberType
<1>3. Lease'
  BY DEF Lease
<1>4. Hooks'
  BY DEF Hooks
<1>5. FirstFrame'
  BY DEF FirstFrame, Underway, Numbered, TypeOK, NumberType
<1> QED
  BY <1>1, <1>2, <1>3, <1>4, <1>5

\* Step Release: a frame leaves after it was shown, or as a failure.
LEMMA ReleaseInductive == Inductive /\ Release => Inductive'
<1> SUFFICES ASSUME Inductive, Release PROVE Inductive'
  OBVIOUS
<1> USE DEF Inductive, Release
<1>1. TypeOK'
  <2>1. NumberType'
    BY DEF TypeOK, NumberType
  <2>2. FlagType'
    BY DEF TypeOK, FlagType
  <2>3. AnswerType'
    BY DEF TypeOK, AnswerType
  <2>4. PlaceType'
    BY DEF TypeOK, PlaceType
  <2> QED
    BY <2>1, <2>2, <2>3, <2>4 DEF TypeOK
<1>2. Numbered'
  BY DEF Numbered, TypeOK, NumberType
<1>3. Lease'
  BY DEF Lease
<1>4. Hooks'
  BY DEF Hooks
<1>5. FirstFrame'
  BY DEF FirstFrame, Underway, TypeOK, NumberType
<1> QED
  BY <1>1, <1>2, <1>3, <1>4, <1>5

\* Step Start: the port is set up with no frame.
LEMMA StartInductive == Inductive /\ Start => Inductive'
<1> SUFFICES ASSUME Inductive, Start PROVE Inductive'
  OBVIOUS
<1> USE DEF Inductive, Start
<1>1. TypeOK'
  <2>1. NumberType'
    BY DEF TypeOK, NumberType
  <2>2. FlagType'
    BY DEF TypeOK, FlagType
  <2>3. AnswerType'
    BY DEF TypeOK, AnswerType, Results
  <2>4. PlaceType'
    BY DEF TypeOK, PlaceType
  <2> QED
    BY <2>1, <2>2, <2>3, <2>4 DEF TypeOK
<1>2. Numbered'
  BY DEF Numbered, TypeOK, NumberType
<1>3. Lease'
  BY DEF Lease, TypeOK, NumberType
<1>4. Hooks'
  BY DEF Hooks
<1>5. FirstFrame'
  BY DEF FirstFrame
<1> QED
  BY <1>1, <1>2, <1>3, <1>4, <1>5

\* Step OnStart: the hook is entered, or the game has none.
LEMMA OnStartInductive == Inductive /\ OnStart => Inductive'
<1> SUFFICES ASSUME Inductive, OnStart PROVE Inductive'
  OBVIOUS
<1> USE DEF Inductive, OnStart
<1>1. TypeOK'
  <2>1. NumberType'
    BY DEF TypeOK, NumberType
  <2>2. FlagType'
    BY DEF TypeOK, FlagType
  <2>3. AnswerType'
    <3>1. result' \in Results
      BY DEF TypeOK, AnswerType, Results
    <3> QED
      BY <3>1 DEF TypeOK, AnswerType
  <2>4. PlaceType'
    BY DEF TypeOK, PlaceType
  <2> QED
    BY <2>1, <2>2, <2>3, <2>4 DEF TypeOK
<1>2. Numbered'
  BY DEF Numbered
<1>3. Lease'
  BY DEF Lease
<1>4. Hooks'
  <2>1. entered' <=> started'
    <3>1. \/ entered' = TRUE /\ started' = TRUE
          \/ entered' = entered /\ started' = started
      OBVIOUS
    <3>2. entered <=> started
      BY DEF Hooks
    <3>3. CASE entered' = TRUE /\ started' = TRUE
      BY <3>3
    <3>4. CASE entered' = entered /\ started' = started
      BY <3>2, <3>4
    <3> QED
      BY <3>1, <3>3, <3>4
  <2>2. UNCHANGED stops /\ pc' \in {"begin", "stop"}
    OBVIOUS
  <2> QED
    BY <2>1, <2>2 DEF Hooks
<1>5. FirstFrame'
  BY DEF FirstFrame
<1> QED
  BY <1>1, <1>2, <1>3, <1>4, <1>5

\* Step FlushFirst: an empty flush means that the frame under way was shown.
LEMMA FlushFirstInductive == Inductive /\ FlushFirst => Inductive'
<1> SUFFICES ASSUME Inductive, FlushFirst PROVE Inductive'
  OBVIOUS
<1> USE DEF Inductive, FlushFirst, Drain
<1>1. TypeOK'
  <2>1. NumberType'
    BY DEF TypeOK, NumberType
  <2>2. FlagType'
    BY DEF TypeOK, FlagType
  <2>3. AnswerType'
    BY DEF TypeOK, AnswerType, Results
  <2>4. PlaceType'
    BY DEF TypeOK, PlaceType
  <2> QED
    BY <2>1, <2>2, <2>3, <2>4 DEF TypeOK
<1>2. Numbered'
  BY DEF Numbered, TypeOK, NumberType
<1>3. Lease'
  BY DEF Lease
<1>4. Hooks'
  BY DEF Hooks
<1>5. FirstFrame'
  BY DEF FirstFrame, Underway
<1> QED
  BY <1>1, <1>2, <1>3, <1>4, <1>5

\* Step OnFirstPresent: only after a flush that answered OK.
LEMMA OnFirstPresentInductive == Inductive /\ OnFirstPresent => Inductive'
<1> SUFFICES ASSUME Inductive, OnFirstPresent PROVE Inductive'
  OBVIOUS
<1> USE DEF Inductive, OnFirstPresent
<1>1. TypeOK'
  <2>1. NumberType'
    BY DEF TypeOK, NumberType
  <2>2. FlagType'
    BY DEF TypeOK, FlagType
  <2>3. AnswerType'
    BY DEF TypeOK, AnswerType, Results
  <2>4. PlaceType'
    BY DEF TypeOK, PlaceType
  <2> QED
    BY <2>1, <2>2, <2>3, <2>4 DEF TypeOK
<1>2. Numbered'
  BY DEF Numbered
<1>3. Lease'
  BY DEF Lease
<1>4. Hooks'
  BY DEF Hooks
<1>5. FirstFrame'
  BY DEF FirstFrame
<1> QED
  BY <1>1, <1>2, <1>3, <1>4, <1>5

\* Step Begin: a second frame is not asked for.
LEMMA BeginInductive == Inductive /\ Begin => Inductive'
<1> SUFFICES ASSUME Inductive, Begin PROVE Inductive'
  OBVIOUS
<1> USE DEF Inductive, Begin, MayAsk, Lend
<1>b. /\ UNCHANGED <<flight, shown, open, failed, base, stops, due, runs>>
      /\ \/ pc' = "end" /\ UNCHANGED <<issued, leased>>
         \/ /\ initialized /\ ~acquired /\ pc' = "inspect"
            /\ issued < MaxFrames /\ issued' = issued + 1 /\ leased' = issued + 1
  OBVIOUS
<1>a. lastAcquire' \in {"INVALID_STATE", "BUSY"} \cup CallErrors \cup {lastAcquire}
  OBVIOUS
<1>1. TypeOK'
  <2>1. NumberType'
    BY <1>b DEF TypeOK, NumberType
  <2>2. FlagType'
    BY DEF TypeOK, FlagType
  <2>3. AnswerType'
    <3>1. lastAcquire' \in Results /\ lastPresent' \in Results
      BY <1>a DEF TypeOK, AnswerType, Results
    <3> QED
      BY <1>b, <3>1 DEF TypeOK, AnswerType
  <2>4. PlaceType'
    BY DEF TypeOK, PlaceType
  <2> QED
    BY <2>1, <2>2, <2>3, <2>4 DEF TypeOK
<1>2. Numbered'
  BY <1>b DEF Numbered, TypeOK, NumberType
<1>3. Lease'
  BY <1>b DEF Lease, Numbered, TypeOK, NumberType
<1>4. Hooks'
  BY DEF Hooks
<1>5. FirstFrame'
  BY DEF FirstFrame
<1> QED
  BY <1>1, <1>2, <1>3, <1>4, <1>5

\* Step Inspect: the frame goes to the port or back.
LEMMA InspectInductive == Inductive /\ Inspect => Inductive'
<1> SUFFICES ASSUME Inductive, Inspect PROVE Inductive'
  OBVIOUS
<1> USE DEF Inductive, Inspect
<1>1. TypeOK'
  <2>1. NumberType'
    BY DEF TypeOK, NumberType
  <2>2. FlagType'
    BY DEF TypeOK, FlagType
  <2>3. AnswerType'
    BY DEF TypeOK, AnswerType, Results
  <2>4. PlaceType'
    BY DEF TypeOK, PlaceType
  <2> QED
    BY <2>1, <2>2, <2>3, <2>4 DEF TypeOK
<1>2. Numbered'
  BY DEF Numbered, TypeOK, NumberType
<1>3. Lease'
  BY DEF Lease, TypeOK, NumberType
<1>4. Hooks'
  BY DEF Hooks
<1>5. FirstFrame'
  BY DEF FirstFrame
<1> QED
  BY <1>1, <1>2, <1>3, <1>4, <1>5

\* Step End: the port forgets the frame and the backend takes it.
LEMMA EndInductive == Inductive /\ End => Inductive'
<1> SUFFICES ASSUME Inductive, End PROVE Inductive'
  OBVIOUS
<1> USE DEF Inductive, End, Take, Forget
<1>b. /\ leased' \in {0, leased} /\ UNCHANGED <<issued, shown, open>>
      /\ flight' \subseteq (flight \cup {leased}) \ {0}
  <2>1. 0 \notin flight
    BY DEF TypeOK, NumberType
  <2>2. CASE ~pixels
    BY <2>1, <2>2
  <2>3. CASE pixels /\ acquired
    <3>1. leased # 0 /\ leased' = 0 /\ UNCHANGED <<issued, shown, open>>
      BY <2>3 DEF Lease
    <3>2. flight' \subseteq flight \cup {leased}
      BY <2>3
    <3> QED
      BY <2>1, <3>1, <3>2
  <2> QED
    BY <2>2, <2>3
<1>1. TypeOK'
  <2>1. NumberType'
    BY <1>b DEF TypeOK, NumberType
  <2>2. FlagType'
    BY DEF TypeOK, FlagType
  <2>3. AnswerType'
    BY DEF TypeOK, AnswerType, Results
  <2>4. PlaceType'
    BY DEF TypeOK, PlaceType
  <2> QED
    BY <2>1, <2>2, <2>3, <2>4 DEF TypeOK
<1>2. Numbered'
  BY <1>b DEF Numbered, TypeOK, NumberType
<1>3. Lease'
  BY DEF Lease, TypeOK, NumberType
<1>4. Hooks'
  BY DEF Hooks
<1>5. FirstFrame'
  BY DEF FirstFrame, Underway, Lease, TypeOK, NumberType
<1> QED
  BY <1>1, <1>2, <1>3, <1>4, <1>5

\* Step Abandon: the frame stays with the port.
LEMMA AbandonInductive == Inductive /\ Abandon => Inductive'
<1> SUFFICES ASSUME Inductive, Abandon PROVE Inductive'
  OBVIOUS
<1> USE DEF Inductive, Abandon
<1>1. TypeOK'
  <2>1. NumberType'
    BY DEF TypeOK, NumberType
  <2>2. FlagType'
    BY DEF TypeOK, FlagType
  <2>3. AnswerType'
    BY DEF TypeOK, AnswerType, Results
  <2>4. PlaceType'
    BY DEF TypeOK, PlaceType
  <2> QED
    BY <2>1, <2>2, <2>3, <2>4 DEF TypeOK
<1>2. Numbered'
  BY DEF Numbered
<1>3. Lease'
  BY DEF Lease
<1>4. Hooks'
  BY DEF Hooks
<1>5. FirstFrame'
  BY DEF FirstFrame
<1> QED
  BY <1>1, <1>2, <1>3, <1>4, <1>5

\* Step Judge: a first frame goes on only when it was accepted.
LEMMA JudgeInductive == Inductive /\ Judge => Inductive'
<1> SUFFICES ASSUME Inductive, Judge PROVE Inductive'
  OBVIOUS
<1> USE DEF Inductive, Judge, FrameResult, Fatal
<1>1. TypeOK'
  <2>1. NumberType'
    BY DEF TypeOK, NumberType
  <2>2. FlagType'
    BY DEF TypeOK, FlagType
  <2>3. AnswerType'
    BY DEF TypeOK, AnswerType, Results
  <2>4. PlaceType'
    BY DEF TypeOK, PlaceType
  <2> QED
    BY <2>1, <2>2, <2>3, <2>4 DEF TypeOK
<1>2. Numbered'
  BY DEF Numbered
<1>3. Lease'
  BY DEF Lease
<1>4. Hooks'
  BY DEF Hooks
<1>5. FirstFrame'
  BY DEF FirstFrame, Underway
<1> QED
  BY <1>1, <1>2, <1>3, <1>4, <1>5

\* Step Pass: the run ends or earns its updates.
LEMMA PassInductive == Inductive /\ Pass => Inductive'
<1> SUFFICES ASSUME Inductive, Pass PROVE Inductive'
  OBVIOUS
<1> USE DEF Inductive, Pass, ShouldClose, RunResult
<1>1. TypeOK'
  <2>1. NumberType'
    BY DEF TypeOK, NumberType
  <2>2. FlagType'
    BY DEF TypeOK, FlagType
  <2>3. AnswerType'
    BY DEF TypeOK, AnswerType, Results
  <2>4. PlaceType'
    BY DEF TypeOK, PlaceType
  <2> QED
    BY <2>1, <2>2, <2>3, <2>4 DEF TypeOK
<1>2. Numbered'
  BY DEF Numbered
<1>3. Lease'
  BY DEF Lease
<1>4. Hooks'
  BY DEF Hooks
<1>5. FirstFrame'
  BY DEF FirstFrame
<1> QED
  BY <1>1, <1>2, <1>3, <1>4, <1>5

\* Step Update: one update less is due.
LEMMA UpdateInductive == Inductive /\ Update => Inductive'
<1> SUFFICES ASSUME Inductive, Update PROVE Inductive'
  OBVIOUS
<1> USE DEF Inductive, Update
<1>1. TypeOK'
  <2>1. NumberType'
    BY DEF TypeOK, NumberType
  <2>2. FlagType'
    BY DEF TypeOK, FlagType
  <2>3. AnswerType'
    BY DEF TypeOK, AnswerType, Results
  <2>4. PlaceType'
    BY DEF TypeOK, PlaceType
  <2> QED
    BY <2>1, <2>2, <2>3, <2>4 DEF TypeOK
<1>2. Numbered'
  BY DEF Numbered
<1>3. Lease'
  BY DEF Lease
<1>4. Hooks'
  BY DEF Hooks
<1>5. FirstFrame'
  BY DEF FirstFrame
<1> QED
  BY <1>1, <1>2, <1>3, <1>4, <1>5

\* Step Render: drawing, or the next pass.
LEMMA RenderInductive == Inductive /\ Render => Inductive'
<1> SUFFICES ASSUME Inductive, Render PROVE Inductive'
  OBVIOUS
<1> USE DEF Inductive, Render
<1>1. TypeOK'
  <2>1. NumberType'
    BY DEF TypeOK, NumberType
  <2>2. FlagType'
    BY DEF TypeOK, FlagType
  <2>3. AnswerType'
    BY DEF TypeOK, AnswerType, Results
  <2>4. PlaceType'
    BY DEF TypeOK, PlaceType
  <2> QED
    BY <2>1, <2>2, <2>3, <2>4 DEF TypeOK
<1>2. Numbered'
  BY DEF Numbered
<1>3. Lease'
  BY DEF Lease
<1>4. Hooks'
  BY DEF Hooks
<1>5. FirstFrame'
  BY DEF FirstFrame
<1> QED
  BY <1>1, <1>2, <1>3, <1>4, <1>5

\* Step Stop: on_stop runs if on_start did.
LEMMA StopInductive == Inductive /\ Stop => Inductive'
<1> SUFFICES ASSUME Inductive, Stop PROVE Inductive'
  OBVIOUS
<1> USE DEF Inductive, Stop
<1>1. TypeOK'
  <2>1. NumberType'
    BY DEF TypeOK, NumberType, Hooks
  <2>2. FlagType'
    BY DEF TypeOK, FlagType
  <2>3. AnswerType'
    BY DEF TypeOK, AnswerType, Results
  <2>4. PlaceType'
    BY DEF TypeOK, PlaceType
  <2> QED
    BY <2>1, <2>2, <2>3, <2>4 DEF TypeOK
<1>2. Numbered'
  BY DEF Numbered
<1>3. Lease'
  BY DEF Lease
<1>4. Hooks'
  BY DEF Hooks
<1>5. FirstFrame'
  BY DEF FirstFrame
<1> QED
  BY <1>1, <1>2, <1>3, <1>4, <1>5

\* Step Close: a frame the port still holds is given back.
LEMMA CloseInductive == Inductive /\ Close => Inductive'
<1> SUFFICES ASSUME Inductive, Close PROVE Inductive'
  OBVIOUS
<1> USE DEF Inductive, Close, GiveBack
<1>1. TypeOK'
  <2>1. NumberType'
    BY DEF TypeOK, NumberType
  <2>2. FlagType'
    BY DEF TypeOK, FlagType
  <2>3. AnswerType'
    BY DEF TypeOK, AnswerType, Results
  <2>4. PlaceType'
    BY DEF TypeOK, PlaceType
  <2> QED
    BY <2>1, <2>2, <2>3, <2>4 DEF TypeOK
<1>2. Numbered'
  BY DEF Numbered, TypeOK, NumberType
<1>3. Lease'
  BY DEF Lease, TypeOK, NumberType
<1>4. Hooks'
  BY DEF Hooks
<1>5. FirstFrame'
  BY DEF FirstFrame
<1> QED
  BY <1>1, <1>2, <1>3, <1>4, <1>5

\* Step Again: nothing of the run that ended is left with the port.
LEMMA AgainInductive == Inductive /\ Again => Inductive'
<1> SUFFICES ASSUME Inductive, Again PROVE Inductive'
  OBVIOUS
<1> USE DEF Inductive, Again
<1>1. TypeOK'
  <2>1. NumberType'
    BY DEF TypeOK, NumberType
  <2>2. FlagType'
    BY DEF TypeOK, FlagType
  <2>3. AnswerType'
    BY DEF TypeOK, AnswerType, Results
  <2>4. PlaceType'
    BY DEF TypeOK, PlaceType
  <2> QED
    BY <2>1, <2>2, <2>3, <2>4 DEF TypeOK
<1>2. Numbered'
  BY DEF Numbered
<1>3. Lease'
  BY DEF Lease
<1>4. Hooks'
  BY DEF Hooks
<1>5. FirstFrame'
  BY DEF FirstFrame
<1> QED
  BY <1>1, <1>2, <1>3, <1>4, <1>5

\* Every step keeps the invariant.
LEMMA StepInductive == Inductive /\ [Next]_vars => Inductive'
<1> SUFFICES ASSUME Inductive, [Next]_vars PROVE Inductive'
  OBVIOUS
<1>1. CASE Game
  BY <1>1, StartInductive, OnStartInductive, FlushFirstInductive, OnFirstPresentInductive,
     BeginInductive, InspectInductive, EndInductive, AbandonInductive, JudgeInductive,
     PassInductive, UpdateInductive, RenderInductive, StopInductive, CloseInductive,
     AgainInductive, Zenon DEF Game
<1>2. CASE Backend
  BY <1>2, ShowInductive, ReleaseInductive, Zenon DEF Backend
<1>3. CASE UNCHANGED vars
  BY <1>3 DEF vars, Inductive, TypeOK, NumberType, FlagType, AnswerType, PlaceType,
     Numbered, Lease, Hooks, FirstFrame, Underway
<1> QED
  BY <1>1, <1>2, <1>3 DEF Next

\* The inductive invariant holds, for any number of runs, frames and updates,
\* whatever the hooks and the backend's calls answer.
THEOREM InductiveHolds == Spec => []Inductive
<1>1. Init => Inductive
  BY InitInductive
<1>2. Inductive /\ [Next]_vars => Inductive'
  BY StepInductive
<1> QED
  BY <1>1, <1>2, PTL DEF Spec

\* Every variable keeps its type.
THEOREM TypeCorrect == Spec => []TypeOK
<1>1. Inductive => TypeOK
  BY DEF Inductive
<1> QED
  BY <1>1, InductiveHolds, PTL

\* The port holds exactly the frame that is lent, and none between two runs.
THEOREM LeaseIsHeld == Spec => []PortHoldsLease
<1>1. Inductive => PortHoldsLease
  BY DEF Inductive, Lease, PortHoldsLease
<1> QED
  BY <1>1, InductiveHolds, PTL

\* on_stop runs once if on_start was entered, on every way out, and else never.
THEOREM StopsOnce == Spec => []OnStopOnce
<1>1. Inductive => OnStopOnce
  BY DEF Inductive, Hooks, OnStopOnce
<1> QED
  BY <1>1, InductiveHolds, PTL

\* A run counts as healthy only after a frame of its own was on the panel.
THEOREM HealthIsEarned == Spec => []HealthyWasShown
<1>1. Inductive => HealthyWasShown
  BY DEF Inductive, FirstFrame, HealthyWasShown
<1> QED
  BY <1>1, InductiveHolds, PTL

\* The lease, the hooks and the health of a run are right at once.
THEOREM SafetyHolds == Spec => []Safety
BY TypeCorrect, LeaseIsHeld, StopsOnce, HealthIsEarned, PTL DEF Safety

------------------------------------------------------------------------------
(* The game thread and the backend under it keep the video contract.       *)

\* What a present or a flush does to the frames, the contract allows.
LEMMA EndKeepsContract == Inductive /\ End => Contract!Next \/ UNCHANGED Contract!vars
<1> SUFFICES ASSUME Inductive, End PROVE Contract!Next \/ UNCHANGED Contract!vars
  OBVIOUS
<1> USE DEF Inductive, End
<1>1. CASE UNCHANGED frames
  BY <1>1 DEF Contract!vars
<1>2. ASSUME NEW answer \in Results, acquired, Take(answer)
      PROVE  Contract!Consume \/ Contract!Accept
  <2>1. leased # 0 /\ open
    BY <1>2 DEF Lease, Numbered
  <2>2. CASE UNCHANGED flight
    BY <1>2, <2>1, <2>2 DEF Take, Contract!Consume
  <2>3. CASE \E superseded \in flight \cup {0} : flight' = (flight \ {superseded}) \cup {leased}
    BY <1>2, <2>1, <2>3 DEF Take, Contract!Accept
  <2> QED
    BY <1>2, <2>2, <2>3 DEF Take
<1> QED
  BY <1>1, <1>2 DEF Contract!Next

\* Every step is a step of the contract or leaves its frames alone.
LEMMA StepKeepsContract == Inductive /\ [Next]_vars => [Contract!Next]_(Contract!vars)
<1> SUFFICES ASSUME Inductive, [Next]_vars PROVE Contract!Next \/ UNCHANGED Contract!vars
  OBVIOUS
<1> USE DEF Contract!vars
<1>1. CASE Show
  BY <1>1 DEF Show, Contract!Next, Contract!Show
<1>2. CASE Release
  BY <1>2 DEF Release, Contract!Next, Contract!Release
<1>3. CASE Begin
  BY <1>3 DEF Begin, Lend, MayAsk, Inductive, Lease, Numbered, Contract!Next, Contract!Lease
<1>4. CASE Inspect
  BY <1>4 DEF Inspect, Inductive, Lease, Contract!Next, Contract!Consume
<1>5. CASE End
  BY <1>5, EndKeepsContract
<1>6. CASE Close
  BY <1>6 DEF Close, GiveBack, Inductive, Lease, Contract!Next, Contract!Consume
<1>7. CASE FlushFirst
  BY <1>7 DEF FlushFirst, Drain
<1>8. CASE Start \/ OnStart \/ OnFirstPresent \/ Abandon \/ Judge \/ Pass \/ Update \/ Render \/ Stop \/ Again
  BY <1>8 DEF Start, OnStart, OnFirstPresent, Abandon, Judge, Pass, Update, Render, Stop, Again
<1>9. CASE UNCHANGED vars
  BY <1>9 DEF vars
<1> QED
  BY <1>1, <1>2, <1>3, <1>4, <1>5, <1>6, <1>7, <1>8, <1>9 DEF Next, Game, Backend

\* The engine asks for one frame at a time and gives each back exactly once:
\* every behaviour of the game thread over any backend keeps the contract.
THEOREM ContractIsKept == Spec => KeepsContract
<1>1. Init => Contract!Init
  BY DEF Init
<1>2. Inductive /\ [Next]_vars => [Contract!Next]_(Contract!vars)
  BY StepKeepsContract
<1> QED
  BY <1>1, <1>2, InductiveHolds, PTL DEF Spec, KeepsContract, Contract!Spec
================================================================================
