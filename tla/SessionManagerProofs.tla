------------------------ MODULE SessionManagerProofs ------------------------
(***************************************************************************)
(* Proofs about SessionManager, for every finite set of callers.           *)
(***************************************************************************)
EXTENDS SessionManager, FiniteSetTheorems, TLAPS

(* Every step of a caller is one of its fourteen actions. *)
LEMMA NextCases ==
  ASSUME Next
  PROVE  \/ \E x \in Callers :
              \/ StartInit(x) \/ InitLoad(x) \/ InitFastAdd(x) \/ InitRecheck(x)
              \/ InitOpen(x) \/ InitCount(x) \/ StartTerm(x) \/ TermCheck(x)
              \/ TermSub(x) \/ TermZero(x) \/ TermClose(x) \/ Read(x)
         \/ UNCHANGED vars
  BY DEF Next, Step, Resting

(* The variables keep their types: Spec => []TypeOK rests on these steps.  *)
LEMMA TypeOKStep ==
  ASSUME TypeOK, RefCountExact, PhaseInv, [Next]_vars
  PROVE  TypeOK'
<1> USE DEF TypeOK, Goto, Return, InitPcs, TermPcs, NullSession, Nullopt
<1>1. ASSUME NEW x \in Callers, StartInit(x) PROVE TypeOK'
  BY <1>1 DEF StartInit, CallInit
<1>2. ASSUME NEW x \in Callers, InitLoad(x) PROVE TypeOK'
  BY <1>2 DEF InitLoad
<1>3. ASSUME NEW x \in Callers, InitFastAdd(x) PROVE TypeOK'
  BY <1>3 DEF InitFastAdd, CountIn
<1>4. ASSUME NEW x \in Callers, InitRecheck(x) PROVE TypeOK'
  BY <1>4 DEF InitRecheck
<1>5. ASSUME NEW x \in Callers, InitOpen(x) PROVE TypeOK'
  <2>1. CASE opens' = opens + 1 /\ session' = opens' /\ open' = open \cup {opens'}
    <3>1. opens' \in Nat /\ session' \in 0..opens' /\ open' \in SUBSET (1..opens')
      BY <2>1
    <3>2. copy' \in [Callers -> {Nullopt} \cup 0..opens']
      BY <1>5, <2>1 DEF InitOpen
    <3>3. pc' \in [Callers -> {"idle"} \cup InitPcs \cup TermPcs]
      BY <1>5 DEF InitOpen
    <3>4. result' \in [Callers -> {"none", "OK", "INTERNAL"}]
      BY <1>5 DEF InitOpen
    <3>5. mutex' \in Callers \cup {NoCaller} /\ UNCHANGED <<refCount, holds>>
      BY <1>5 DEF InitOpen
    <3>6. QED
      BY <3>1, <3>2, <3>3, <3>4, <3>5
  <2>2. CASE opens' = opens /\ session' \in {session, NullSession} /\ open' = open
    BY <1>5, <2>2 DEF InitOpen
  <2>3. QED
    BY <1>5, <2>1, <2>2 DEF InitOpen
<1>6. ASSUME NEW x \in Callers, InitCount(x) PROVE TypeOK'
  BY <1>6 DEF InitCount, CountIn
<1>7. ASSUME NEW x \in Callers, StartTerm(x) PROVE TypeOK'
  BY <1>7 DEF StartTerm, CallTerm
<1>8. ASSUME NEW x \in Callers, TermCheck(x) PROVE TypeOK'
  BY <1>8 DEF TermCheck
<1>9. ASSUME NEW x \in Callers, TermSub(x) PROVE TypeOK'
  <2>1. x \in Holders
    BY <1>9 DEF TermSub, PhaseInv, Holders
  <2>2. IsFiniteSet(Holders)
    BY CallersFinite, FS_Subset DEF Holders
  <2>3. refCount # 0
    BY <2>1, <2>2, FS_EmptySet DEF RefCountExact
  <2>4. QED
    BY <1>9, <2>3 DEF TermSub
<1>10. ASSUME NEW x \in Callers, TermZero(x) PROVE TypeOK'
  BY <1>10 DEF TermZero
<1>11. ASSUME NEW x \in Callers, TermClose(x) PROVE TypeOK'
  BY <1>11 DEF TermClose
<1>12. ASSUME NEW x \in Callers, Read(x) PROVE TypeOK'
  BY <1>12 DEF Read, GetSession
<1>13. CASE UNCHANGED vars
  BY <1>13 DEF vars
<1>14. QED
  BY <1>1, <1>2, <1>3, <1>4, <1>5, <1>6, <1>7, <1>8, <1>9, <1>10, <1>11, <1>12,
     <1>13, NextCases

(* Only the caller that acts moves, and what it may do to mutex_ follows   *)
(* from where it is: mutex_ and the phases of the calls stay in step.      *)
LEMMA ControlStep ==
  ASSUME TypeOK, MutexInv, PhaseInv, [Next]_vars
  PROVE  MutexInv' /\ PhaseInv'
<1> USE NoCallerApart DEF TypeOK, MutexInv, PhaseInv, LockedPcs, InitPcs, TermPcs, Goto, Return
<1>1. ASSUME NEW x \in Callers, StartInit(x) PROVE MutexInv' /\ PhaseInv'
  BY <1>1 DEF StartInit, CallInit
<1>2. ASSUME NEW x \in Callers, InitLoad(x) PROVE MutexInv' /\ PhaseInv'
  BY <1>2 DEF InitLoad
<1>3. ASSUME NEW x \in Callers, InitFastAdd(x) PROVE MutexInv' /\ PhaseInv'
  BY <1>3 DEF InitFastAdd, CountIn
<1>4. ASSUME NEW x \in Callers, InitRecheck(x) PROVE MutexInv' /\ PhaseInv'
  BY <1>4 DEF InitRecheck
<1>5. ASSUME NEW x \in Callers, InitOpen(x) PROVE MutexInv' /\ PhaseInv'
  BY <1>5 DEF InitOpen
<1>6. ASSUME NEW x \in Callers, InitCount(x) PROVE MutexInv' /\ PhaseInv'
  BY <1>6 DEF InitCount, CountIn
<1>7. ASSUME NEW x \in Callers, StartTerm(x) PROVE MutexInv' /\ PhaseInv'
  BY <1>7 DEF StartTerm, CallTerm
<1>8. ASSUME NEW x \in Callers, TermCheck(x) PROVE MutexInv' /\ PhaseInv'
  BY <1>8 DEF TermCheck
<1>9. ASSUME NEW x \in Callers, TermSub(x) PROVE MutexInv' /\ PhaseInv'
  BY <1>9 DEF TermSub
<1>10. ASSUME NEW x \in Callers, TermZero(x) PROVE MutexInv' /\ PhaseInv'
  BY <1>10 DEF TermZero
<1>11. ASSUME NEW x \in Callers, TermClose(x) PROVE MutexInv' /\ PhaseInv'
  BY <1>11 DEF TermClose
<1>12. ASSUME NEW x \in Callers, Read(x) PROVE MutexInv' /\ PhaseInv'
  BY <1>12 DEF Read, GetSession
<1>13. CASE UNCHANGED vars
  BY <1>13 DEF vars
<1>14. QED
  BY <1>1, <1>2, <1>3, <1>4, <1>5, <1>6, <1>7, <1>8, <1>9, <1>10, <1>11, <1>12,
     <1>13, NextCases

(* Counting in adds one new holder, counting out removes one: refCount_    *)
(* moves with the number of holders.                                       *)
LEMMA RefCountStep ==
  ASSUME TypeOK, PhaseInv, RefCountExact, [Next]_vars
  PROVE  RefCountExact'
<1>1. IsFiniteSet(Holders)
  BY CallersFinite, FS_Subset DEF Holders
<1>2. ASSUME NEW x \in Callers, ~holds[x], CountIn(x) PROVE RefCountExact'
  <2>1. Holders' = Holders \cup {x} /\ x \notin Holders
    BY <1>2 DEF CountIn, Holders, TypeOK
  <2>2. Cardinality(Holders') = Cardinality(Holders) + 1
    BY <1>1, <2>1, FS_AddElement
  <2>3. QED
    BY <1>2, <2>2 DEF CountIn, RefCountExact
<1>3. ASSUME NEW x \in Callers, TermSub(x) PROVE RefCountExact'
  <2>1. Holders' = Holders \ {x} /\ x \in Holders
    BY <1>3 DEF TermSub, PhaseInv, Holders, TypeOK
  <2>2. Cardinality(Holders') = Cardinality(Holders) - 1
    BY <1>1, <2>1, FS_RemoveElement
  <2>3. QED
    BY <1>3, <2>2 DEF TermSub, RefCountExact
<1>4. ASSUME NEW x \in Callers, InitFastAdd(x) \/ InitCount(x) PROVE RefCountExact'
  BY <1>2, <1>4 DEF InitFastAdd, InitCount, PhaseInv, InitPcs
<1>5. ASSUME UNCHANGED <<refCount, holds>> PROVE RefCountExact'
  BY <1>5 DEF RefCountExact, Holders
<1>6. ASSUME NEW x \in Callers,
             \/ StartInit(x) \/ InitLoad(x) \/ InitRecheck(x) \/ InitOpen(x) \/ StartTerm(x)
             \/ TermCheck(x) \/ TermZero(x) \/ TermClose(x) \/ Read(x)
      PROVE  UNCHANGED <<refCount, holds>>
  BY <1>6 DEF StartInit, CallInit, InitLoad, InitRecheck, InitOpen, StartTerm, CallTerm,
              TermCheck, TermZero, TermClose, Read, GetSession
<1>7. QED
  BY <1>3, <1>4, <1>5, <1>6, NextCases DEF vars

(* Only the owner of mutex_ opens and closes, and it opens only when none  *)
(* is open: at most the session of session_ is open, and only in use.      *)
LEMMA SessionStep ==
  ASSUME TypeOK, MutexInv, NoSessionLeak, UsedInv, OpeningInv, [Next]_vars
  PROVE  NoSessionLeak' /\ UsedInv' /\ OpeningInv'
<1> DEFINE Goal == NoSessionLeak' /\ UsedInv' /\ OpeningInv'
<1> USE DEF TypeOK, NoSessionLeak, UsedInv, OpeningInv, Goto, Return, NullSession
<1>1. ASSUME NEW x \in Callers, StartInit(x) PROVE Goal
  BY <1>1 DEF StartInit, CallInit
<1>2. ASSUME NEW x \in Callers, InitLoad(x) PROVE Goal
  BY <1>2 DEF InitLoad
<1>3. ASSUME NEW x \in Callers, InitFastAdd(x) PROVE Goal
  BY <1>3 DEF InitFastAdd, CountIn
<1>4. ASSUME NEW x \in Callers, InitRecheck(x) PROVE Goal
  <2>1. \A y \in Callers : pc[y] \notin LockedPcs
    BY <1>4, NoCallerApart DEF InitRecheck, MutexInv
  <2>2. open = {} \/ refCount > 0
    BY <2>1 DEF LockedPcs
  <2>3. QED
    BY <1>4, <2>2 DEF InitRecheck
<1>5. ASSUME NEW x \in Callers, InitOpen(x) PROVE Goal
  <2>1. open = {} /\ \A y \in Callers : pc[y] = "initOpen" => y = x
    BY <1>5 DEF InitOpen, MutexInv, LockedPcs
  <2>2. pc'[x] # "initOpen" /\ \A y \in Callers : y # x => pc'[y] = pc[y]
    BY <1>5 DEF InitOpen
  <2>3. OpeningInv'
    BY <2>1, <2>2
  <2>4. CASE session' = opens' /\ open' = open \cup {opens'} /\ pc'[x] = "initCount"
    BY <2>1, <2>3, <2>4
  <2>5. CASE open' = open
    BY <2>1, <2>3, <2>5
  <2>6. QED
    BY <1>5, <2>4, <2>5 DEF InitOpen
<1>6. ASSUME NEW x \in Callers, InitCount(x) PROVE Goal
  BY <1>6 DEF InitCount, CountIn
<1>7. ASSUME NEW x \in Callers, StartTerm(x) PROVE Goal
  BY <1>7 DEF StartTerm, CallTerm
<1>8. ASSUME NEW x \in Callers, TermCheck(x) PROVE Goal
  BY <1>8 DEF TermCheck
<1>9. ASSUME NEW x \in Callers, TermSub(x) PROVE Goal
  BY <1>9 DEF TermSub
<1>10. ASSUME NEW x \in Callers, TermZero(x) PROVE Goal
  BY <1>10 DEF TermZero
<1>11. ASSUME NEW x \in Callers, TermClose(x) PROVE Goal
  BY <1>11 DEF TermClose
<1>12. ASSUME NEW x \in Callers, Read(x) PROVE Goal
  BY <1>12 DEF Read, GetSession
<1>13. CASE UNCHANGED vars
  BY <1>13 DEF vars
<1>14. QED
  BY <1>1, <1>2, <1>3, <1>4, <1>5, <1>6, <1>7, <1>8, <1>9, <1>10, <1>11, <1>12,
     <1>13, NextCases

LEMMA IInvInit == Init => IInv
<1> SUFFICES ASSUME Init PROVE IInv
  OBVIOUS
<1>1. TypeOK /\ MutexInv /\ PhaseInv
  BY NoCallerApart DEF Init, TypeOK, MutexInv, PhaseInv, LockedPcs, InitPcs, NullSession, Nullopt
<1>2. Holders = {}
  BY DEF Init, Holders
<1>3. RefCountExact
  BY <1>2, FS_EmptySet DEF Init, RefCountExact
<1>4. NoSessionLeak /\ UsedInv /\ OpeningInv
  BY DEF Init, NoSessionLeak, UsedInv, OpeningInv
<1>5. QED
  BY <1>1, <1>3, <1>4 DEF IInv

LEMMA IInvStep == IInv /\ [Next]_vars => IInv'
  BY TypeOKStep, ControlStep, RefCountStep, SessionStep DEF IInv

(* The inductive invariant of every behaviour, with or without overlap.    *)
LEMMA Inductive == Spec => []IInv
  BY IInvInit, IInvStep, PTL DEF Spec

(* Type correctness; the fetch_sub never takes refCount_ below zero.       *)
THEOREM TypeCorrect == Spec => []TypeOK
<1>1. IInv => TypeOK
  BY DEF IInv
<1>2. QED
  BY Inductive, <1>1, PTL

(* refCount_ counts the callers between init() and term(), however their   *)
(* calls interleave.                                                       *)
THEOREM CountIsExact == Spec => []RefCountExact
<1>1. IInv => RefCountExact
  BY DEF IInv
<1>2. QED
  BY Inductive, <1>1, PTL

(* No session is ever lost from session_ while zenoh holds it open.        *)
THEOREM NoLeak == Spec => []NoSessionLeak
<1>1. IInv => NoSessionLeak
  BY DEF IInv
<1>2. QED
  BY Inductive, <1>1, PTL

(* The last term() leaves no session open behind it.                       *)
THEOREM LastCloses == Spec => []ClosedWhenUnused
<1>1. IInv => ClosedWhenUnused
  <2> SUFFICES ASSUME IInv, refCount = 0, mutex = NoCaller PROVE open = {}
    BY DEF ClosedWhenUnused
  <2>1. \A x \in Callers : pc[x] \notin LockedPcs
    BY NoCallerApart DEF IInv, MutexInv
  <2>2. QED
    BY <2>1 DEF IInv, UsedInv, LockedPcs
<1>2. QED
  BY Inductive, <1>1, PTL

-----------------------------------------------------------------------------
(* When no init() overlaps a term() *)

LEMMA NoOverlapStep ==
  ASSUME ~OverlapAllowed, TypeOK, ~(InitInProgress /\ TermInProgress), [Next]_vars
  PROVE  ~(InitInProgress /\ TermInProgress)'
<1> DEFINE Goal == ~(InitInProgress /\ TermInProgress)'
<1> USE DEF TypeOK, InitInProgress, TermInProgress, InitPcs, TermPcs, Goto, Return
<1>1. ASSUME NEW x \in Callers, StartInit(x) PROVE Goal
  BY <1>1 DEF StartInit, CallInit
<1>2. ASSUME NEW x \in Callers, InitLoad(x) \/ InitFastAdd(x) PROVE Goal
  BY <1>2 DEF InitLoad, InitFastAdd, CountIn
<1>3. ASSUME NEW x \in Callers, InitRecheck(x) \/ InitOpen(x) \/ InitCount(x) PROVE Goal
  BY <1>3 DEF InitRecheck, InitOpen, InitCount, CountIn
<1>4. ASSUME NEW x \in Callers, StartTerm(x) PROVE Goal
  BY <1>4 DEF StartTerm, CallTerm
<1>5. ASSUME NEW x \in Callers, TermCheck(x) \/ TermSub(x) PROVE Goal
  BY <1>5 DEF TermCheck, TermSub
<1>6. ASSUME NEW x \in Callers, TermZero(x) \/ TermClose(x) PROVE Goal
  BY <1>6 DEF TermZero, TermClose
<1>7. ASSUME NEW x \in Callers, Read(x) PROVE Goal
  BY <1>7 DEF Read, GetSession
<1>8. CASE UNCHANGED vars
  BY <1>8 DEF vars
<1>9. QED
  BY <1>1, <1>2, <1>3, <1>4, <1>5, <1>6, <1>7, <1>8, NextCases

(* A counted session stays open: the unlocked fetch_add cannot meet the    *)
(* close, and z_open only ever runs at zero.                               *)
LEMMA SerialStep ==
  ASSUME ~OverlapAllowed, IInv, SerialInv, [Next]_vars
  PROVE  SerialInv'
<1> DEFINE Goal ==
      /\ (refCount > 0 => session \in open)'
      /\ (\A x \in Callers : pc[x] = "initAdd" => refCount > 0)'
      /\ (\A x \in Callers : pc[x] = "initCount" => session \in open)'
      /\ (\A x \in Callers : pc[x] = "termClose" => refCount = 0)'
<1>0. ~(InitInProgress /\ TermInProgress)'
  BY NoOverlapStep DEF IInv, SerialInv
<1>a. \A x, y \in Callers : ~(pc[x] \in InitPcs /\ pc[y] \in TermPcs)
  BY DEF SerialInv, InitInProgress, TermInProgress
<1> USE DEF SerialInv, TypeOK, IInv, Goto, Return
<1>1. ASSUME NEW x \in Callers, StartInit(x) PROVE Goal
  BY <1>1 DEF StartInit, CallInit
<1>2. ASSUME NEW x \in Callers, InitLoad(x) PROVE Goal
  BY <1>2 DEF InitLoad
<1>3. ASSUME NEW x \in Callers, InitFastAdd(x) PROVE Goal
  BY <1>3, <1>a DEF InitFastAdd, CountIn, InitPcs, TermPcs
<1>4. ASSUME NEW x \in Callers, InitRecheck(x) PROVE Goal
  BY <1>4 DEF InitRecheck
<1>5. ASSUME NEW x \in Callers, InitOpen(x) PROVE Goal
  <2>1. refCount = 0 /\ open = {}
    BY <1>5 DEF InitOpen, OpeningInv
  <2>2. \A y \in Callers : y # x => pc'[y] = pc[y] /\ pc[y] # "initCount"
    BY <1>5 DEF InitOpen, MutexInv, LockedPcs
  <2>3. pc'[x] \in {"initCount", "idle"} /\ (pc'[x] = "initCount" => session' \in open')
    BY <1>5 DEF InitOpen
  <2>4. refCount' = 0
    BY <1>5, <2>1 DEF InitOpen
  <2>5. QED
    BY <2>1, <2>2, <2>3, <2>4
<1>6. ASSUME NEW x \in Callers, InitCount(x) PROVE Goal
  BY <1>6, <1>a DEF InitCount, CountIn, InitPcs, TermPcs
<1>7. ASSUME NEW x \in Callers, StartTerm(x) PROVE Goal
  BY <1>7 DEF StartTerm, CallTerm
<1>8. ASSUME NEW x \in Callers, TermCheck(x) PROVE Goal
  BY <1>8 DEF TermCheck
<1>9. ASSUME NEW x \in Callers, TermSub(x) PROVE Goal
  BY <1>9, <1>a DEF TermSub, MutexInv, LockedPcs, InitPcs, TermPcs
<1>10. ASSUME NEW x \in Callers, TermZero(x) PROVE Goal
  BY <1>10 DEF TermZero
<1>11. ASSUME NEW x \in Callers, TermClose(x) PROVE Goal
  BY <1>11, <1>a DEF TermClose, InitPcs, TermPcs
<1>12. ASSUME NEW x \in Callers, Read(x) PROVE Goal
  BY <1>12 DEF Read, GetSession
<1>13. ASSUME UNCHANGED vars PROVE Goal
  BY <1>13 DEF vars
<1>14. Goal
  BY <1>1, <1>2, <1>3, <1>4, <1>5, <1>6, <1>7, <1>8, <1>9, <1>10, <1>11, <1>12,
     <1>13, NextCases
<1>15. QED
  BY <1>0, <1>14 DEF Goal, SerialInv

LEMMA SerialInductive ==
  ASSUME ~OverlapAllowed
  PROVE  Spec => [](IInv /\ SerialInv)
<1>1. Init => SerialInv
  BY DEF Init, SerialInv, InitInProgress, InitPcs
<1>2. IInv /\ SerialInv /\ [Next]_vars => SerialInv'
  BY SerialStep
<1>3. QED
  BY IInvInit, IInvStep, <1>1, <1>2, PTL DEF Spec

(* A caller whose init() returned OK has an open session until its term(), *)
(* provided no init() of one caller overlaps a term() of another.          *)
THEOREM HolderIsServed ==
  ASSUME ~OverlapAllowed
  PROVE  Spec => []HolderHasOpenSession
<1>1. IInv /\ SerialInv => HolderHasOpenSession
  <2> SUFFICES ASSUME IInv, SerialInv, Holders # {} PROVE session \in open
    BY DEF HolderHasOpenSession
  <2>1. IsFiniteSet(Holders)
    BY CallersFinite, FS_Subset DEF Holders
  <2>2. refCount # 0
    BY <2>1, FS_EmptySet DEF IInv, RefCountExact
  <2>3. QED
    BY <2>2 DEF IInv, TypeOK, SerialInv
<1>2. QED
  BY SerialInductive, <1>1, PTL

(* Somebody counted in means that the session is open, and conversely that *)
(* refCount_ is above zero.                                                *)
LEMMA HoldersCounted ==
  ASSUME IInv
  PROVE  /\ Holders # {} <=> refCount > 0
         /\ \A x \in Callers : holds[x] => refCount > 0
<1>1. IsFiniteSet(Holders)
  BY CallersFinite, FS_Subset DEF Holders
<1>2. refCount = 0 <=> Holders = {}
  BY <1>1, FS_EmptySet DEF IInv, RefCountExact
<1>3. refCount \in Nat
  BY DEF IInv, TypeOK
<1>4. Holders # {} <=> refCount > 0
  BY <1>2, <1>3
<1>5. QED
  BY <1>4 DEF Holders

(* Every step keeps the copies of the holders up to date.                  *)
LEMMA CopyStep ==
  ASSUME IInv, SerialInv, CopyInv, [Next]_vars
  PROVE  CopyInv'
<1> DEFINE Goal == CopyInv'
<1> USE DEF CopyInv, IInv, TypeOK, Goto, Return, InitPcs, TermPcs
<1>1. ASSUME NEW x \in Callers, StartInit(x) PROVE Goal
  BY <1>1 DEF StartInit, CallInit
<1>2. ASSUME NEW x \in Callers, InitLoad(x) \/ InitRecheck(x) PROVE Goal
  BY <1>2 DEF InitLoad, InitRecheck
<1>3. ASSUME NEW x \in Callers, InitFastAdd(x) \/ InitCount(x) PROVE Goal
  BY <1>3 DEF InitFastAdd, InitCount, CountIn
<1>4. ASSUME NEW x \in Callers, InitOpen(x) PROVE Goal
  <2>1. \A y \in Callers : ~holds[y]
    <3>1. refCount = 0
      BY <1>4 DEF InitOpen, OpeningInv, SerialInv
    <3>2. QED
      BY <3>1, HoldersCounted
  <2>2. UNCHANGED <<copy, holds>> /\ \A y \in Callers : pc'[y] \in InitPcs => pc[y] \in InitPcs
    BY <1>4 DEF InitOpen
  <2>3. QED
    BY <2>1, <2>2
<1>5. ASSUME NEW x \in Callers, StartTerm(x) \/ TermCheck(x) PROVE Goal
  BY <1>5 DEF StartTerm, CallTerm, TermCheck
<1>6. ASSUME NEW x \in Callers, TermSub(x) \/ TermZero(x) PROVE Goal
  BY <1>6 DEF TermSub, TermZero
<1>7. ASSUME NEW x \in Callers, TermClose(x) PROVE Goal
  <2>1. \A y \in Callers : ~holds[y]
    BY <1>7, HoldersCounted DEF TermClose, SerialInv
  <2>2. QED
    BY <1>7, <2>1 DEF TermClose
<1>8. ASSUME NEW x \in Callers, Read(x) PROVE Goal
  BY <1>8, HoldersCounted DEF Read, GetSession
<1>9. CASE UNCHANGED vars
  BY <1>9 DEF vars
<1>10. QED
  BY <1>1, <1>2, <1>3, <1>4, <1>5, <1>6, <1>7, <1>8, <1>9, NextCases

(* The handle a holder has copied out is the open session, provided no     *)
(* init() of one caller overlaps a term() of another.                      *)
THEOREM CopyIsCurrent ==
  ASSUME ~OverlapAllowed
  PROVE  Spec => []CopyNotStale
<1>1. Init => CopyInv
  BY DEF Init, CopyInv, InitPcs
<1>2. IInv /\ SerialInv /\ CopyInv /\ [Next]_vars => CopyInv'
  BY CopyStep
<1>3. IInv /\ SerialInv /\ CopyInv => CopyNotStale
  BY HoldersCounted DEF CopyInv, SerialInv, CopyNotStale
<1>4. QED
  BY SerialInductive, <1>1, <1>2, <1>3, PTL DEF Spec

-----------------------------------------------------------------------------
(* The refinement of SharedSession *)

(* While somebody is counted in, SharedSession's current session is the    *)
(* one session_ names, and no session is open but that one.                *)
LEMMA CurrentSession ==
  ASSUME IInv, SerialInv
  PROVE  /\ refCount > 0 => session \in open /\ session # NullSession
         /\ session \notin open => open = {}
<1>1. session \in open => session # NullSession
  BY DEF IInv, TypeOK, NullSession
<1>2. QED
  BY <1>1 DEF IInv, NoSessionLeak, SerialInv

(* Opening is SharedSession's Open, counting in its Acquire, counting out  *)
(* its Release, closing its Close; everything else it does not see.        *)
LEMMA RefinementStep ==
  ASSUME IInv, SerialInv, [Next]_vars
  PROVE  [Shared!Next]_(Shared!vars)
<1> DEFINE current == IF session \in open THEN session ELSE NullSession
           Goal    == [Shared!Next]_(Shared!vars)
<1> USE DEF IInv, TypeOK, Goto, Return, Holders
<1>1. ASSUME UNCHANGED <<holds, session, open, opens>> PROVE Goal
  BY <1>1 DEF Shared!vars
<1>2. ASSUME NEW x \in Callers, InitFastAdd(x) \/ InitCount(x) PROVE Goal
  <2>1. Holders' = Holders \cup {x}
    BY <1>2 DEF InitFastAdd, InitCount, CountIn
  <2>2. session \in open /\ session # 0
    BY <1>2, CurrentSession DEF InitFastAdd, InitCount, SerialInv, NullSession
  <2>3. UNCHANGED <<session, open, opens>>
    BY <1>2 DEF InitFastAdd, InitCount
  <2>4. Shared!Acquire(x)
    BY <2>1, <2>2, <2>3 DEF Shared!Acquire
  <2>5. QED
    BY <2>4 DEF Shared!Next
<1>3. ASSUME NEW x \in Callers, InitOpen(x) PROVE Goal
  <2>1. open = {} /\ refCount = 0
    BY <1>3 DEF InitOpen, OpeningInv, SerialInv
  <2>2. Holders = {} /\ UNCHANGED Holders
    BY <1>3, <2>1, HoldersCounted DEF InitOpen
  <2>3. CASE opens' = opens + 1 /\ session' = opens' /\ open' = open \cup {opens'}
    BY <2>1, <2>2, <2>3 DEF Shared!Next, Shared!Open, NullSession
  <2>4. CASE UNCHANGED <<open, opens>>
    BY <2>1, <2>2, <2>4 DEF Shared!vars
  <2>5. QED
    BY <1>3, <2>3, <2>4 DEF InitOpen
<1>4. ASSUME NEW x \in Callers, TermSub(x) PROVE Goal
  <2>1. x \in Holders /\ Holders' = Holders \ {x}
    BY <1>4 DEF TermSub, PhaseInv
  <2>2. UNCHANGED <<session, open, opens>>
    BY <1>4 DEF TermSub
  <2>3. Shared!Release(x)
    BY <2>1, <2>2 DEF Shared!Release
  <2>4. QED
    BY <2>3 DEF Shared!Next
<1>5. ASSUME NEW x \in Callers, TermClose(x) PROVE Goal
  <2>1. Holders = {} /\ UNCHANGED <<Holders, opens>>
    BY <1>5, HoldersCounted DEF TermClose, SerialInv
  <2>2. open' = {}
    BY <1>5 DEF TermClose, NoSessionLeak
  <2>3. Shared!Close
    BY <2>1, <2>2 DEF Shared!Close, NullSession
  <2>4. QED
    BY <2>3 DEF Shared!Next
<1>6. ASSUME NEW x \in Callers, InitLoad(x) \/ InitRecheck(x) \/ TermCheck(x) \/ TermZero(x)
      PROVE  UNCHANGED <<holds, session, open, opens>>
  BY <1>6 DEF InitLoad, InitRecheck, TermCheck, TermZero
<1>7. ASSUME NEW x \in Callers, StartInit(x) \/ StartTerm(x) \/ Read(x)
      PROVE  UNCHANGED <<holds, session, open, opens>>
  BY <1>7 DEF StartInit, CallInit, StartTerm, CallTerm, Read, GetSession
<1>8. CASE UNCHANGED vars
  BY <1>8, <1>1 DEF vars
<1>9. QED
  BY <1>1, <1>2, <1>3, <1>4, <1>5, <1>6, <1>7, <1>8, NextCases

(* The session manager implements SharedSession, provided no init() of one *)
(* caller overlaps a term() of another.                                    *)
THEOREM Implements ==
  ASSUME ~OverlapAllowed
  PROVE  Spec => SharesOneSession
<1>1. Init => Shared!Init
  BY DEF Init, Shared!Init, Holders, NullSession
<1>2. IInv /\ SerialInv /\ [Next]_vars => [Shared!Next]_(Shared!vars)
  BY RefinementStep
<1>3. QED
  BY SerialInductive, <1>1, <1>2, PTL DEF Spec, SharesOneSession, Shared!Spec
=============================================================================
