--------------------------- MODULE SessionManager ---------------------------
(***************************************************************************)
(* ZenohSessionManager: the one zenoh session of the process, shared by    *)
(* every component that called init() and not yet term(), and counted by   *)
(* the atomic refCount_.  One action per access to the shared state: an    *)
(* atomic load or fetch_add of refCount_, or a stretch of code that runs   *)
(* under mutex_.  Taking mutex_ is part of the first action that runs      *)
(* under it, releasing it (lock_guard, on every return) part of the last.  *)
(***************************************************************************)
EXTENDS Integers, FiniteSets

CONSTANTS
  Callers,         (* the components that use the manager                  *)
  NoCaller,        (* the owner of a free mutex_                           *)
  OpenOutcomes,    (* what opening a session may do here                   *)
  OverlapAllowed,  (* may a caller be in init() while another is in term() *)
  MaxOpens         (* bounds the sessions opened in a behaviour            *)

AllOpenOutcomes == {"ok", "configError", "openError"}

ASSUME CallersFinite  == IsFiniteSet(Callers)
ASSUME NoCallerApart  == NoCaller \notin Callers
ASSUME OutcomesKnown  == OpenOutcomes \subseteq AllOpenOutcomes
ASSUME OverlapBoolean == OverlapAllowed \in BOOLEAN
ASSUME MaxOpensNat    == MaxOpens \in Nat

VARIABLES
  refCount,  (* refCount_                                                  *)
  mutex,     (* who holds mutex_                                           *)
  session,   (* session_: the number of a session, or NullSession          *)
  open,      (* external: the sessions zenoh holds open                    *)
  opens,     (* external: how many sessions z_open has made                *)
  pc,        (* where each caller is                                       *)
  holds,     (* history: has counted itself in and not yet out             *)
  result,    (* what the caller's last init() returned                     *)
  copy       (* what the caller's last getSession() returned               *)

vars == <<refCount, mutex, session, open, opens, pc, holds, result, copy>>

NullSession == 0    (* a z_owned_session_t that z_check refuses            *)
Nullopt     == -1   (* std::nullopt, and a member nothing was copied into  *)

InitPcs   == {"initLoad", "initAdd", "initLock", "initOpen", "initCount"}
TermPcs   == {"termLock", "termSub", "termZero", "termClose"}
LockedPcs == {"initOpen", "initCount", "termSub", "termZero", "termClose"}

Holders        == {x \in Callers : holds[x]}
InitInProgress == \E x \in Callers : pc[x] \in InitPcs
TermInProgress == \E x \in Callers : pc[x] \in TermPcs

TypeOK ==
  /\ refCount \in Nat
  /\ mutex \in Callers \cup {NoCaller}
  /\ opens \in Nat
  /\ session \in 0..opens
  /\ open \in SUBSET (1..opens)
  /\ pc \in [Callers -> {"idle"} \cup InitPcs \cup TermPcs]
  /\ holds \in [Callers -> BOOLEAN]
  /\ result \in [Callers -> {"none", "OK", "INTERNAL"}]
  /\ copy \in [Callers -> {Nullopt} \cup 0..opens]

Init ==
  /\ refCount = 0
  /\ mutex = NoCaller
  /\ session = NullSession
  /\ open = {}
  /\ opens = 0
  /\ pc = [x \in Callers |-> "idle"]
  /\ holds = [x \in Callers |-> FALSE]
  /\ result = [x \in Callers |-> "none"]
  /\ copy = [x \in Callers |-> Nullopt]

-----------------------------------------------------------------------------
(* init() *)

Goto(x, l)   == pc' = [pc EXCEPT ![x] = l]
Return(x, r) == Goto(x, "idle") /\ result' = [result EXCEPT ![x] = r]

(* A component calls init() first of all: its own handle is still unset. *)
CallInit(x) ==
  /\ pc[x] = "idle"
  /\ Goto(x, "initLoad")
  /\ copy' = [copy EXCEPT ![x] = Nullopt]
  /\ UNCHANGED <<refCount, mutex, session, open, opens, holds, result>>

(* The first, unlocked, look at refCount_. *)
InitLoad(x) ==
  /\ pc[x] = "initLoad"
  /\ Goto(x, IF refCount = 0 THEN "initLock" ELSE "initAdd")
  /\ UNCHANGED <<refCount, mutex, session, open, opens, holds, result, copy>>

CountIn(x) ==
  /\ refCount' = refCount + 1
  /\ holds' = [holds EXCEPT ![x] = TRUE]
  /\ Return(x, "OK")

(* The unlocked fetch_add of a caller that saw a session in use. *)
InitFastAdd(x) ==
  /\ pc[x] = "initAdd"
  /\ CountIn(x)
  /\ UNCHANGED <<mutex, session, open, opens, copy>>

(* Mutant: the second look at refCount_, under mutex_, is left out. *)
InitRecheckDropped(x) ==
  /\ pc[x] = "initLock"
  /\ mutex = NoCaller
  /\ mutex' = x
  /\ Goto(x, "initOpen")
  /\ UNCHANGED <<refCount, session, open, opens, holds, result, copy>>

InitRecheck(x) ==
  /\ pc[x] = "initLock"
  /\ mutex = NoCaller
  /\ mutex' = x
  /\ Goto(x, IF refCount = 0 THEN "initOpen" ELSE "initCount")
  /\ UNCHANGED <<refCount, session, open, opens, holds, result, copy>>

(* The session is opened, or init() returns early and counts nothing.  A   *)
(* rejected configuration returns before z_open assigns session_.          *)
InitOpen(x) ==
  /\ pc[x] = "initOpen"
  /\ \/ /\ "ok" \in OpenOutcomes
        /\ opens' = opens + 1
        /\ session' = opens'
        /\ open' = open \cup {opens'}
        /\ Goto(x, "initCount")
        /\ UNCHANGED <<mutex, result>>
     \/ /\ "configError" \in OpenOutcomes
        /\ mutex' = NoCaller
        /\ Return(x, "INTERNAL")
        /\ UNCHANGED <<session, open, opens>>
     \/ /\ "openError" \in OpenOutcomes
        /\ session' = NullSession
        /\ mutex' = NoCaller
        /\ Return(x, "INTERNAL")
        /\ UNCHANGED <<open, opens>>
  /\ UNCHANGED <<refCount, holds, copy>>

(* Mutant: the opener stores 1 instead of adding 1. *)
InitCountForOne(x) ==
  /\ pc[x] = "initCount"
  /\ refCount' = 1
  /\ holds' = [holds EXCEPT ![x] = TRUE]
  /\ mutex' = NoCaller
  /\ Return(x, "OK")
  /\ UNCHANGED <<session, open, opens, copy>>

InitCount(x) ==
  /\ pc[x] = "initCount"
  /\ CountIn(x)
  /\ mutex' = NoCaller
  /\ UNCHANGED <<session, open, opens, copy>>

-----------------------------------------------------------------------------
(* term() *)

CallTerm(x) ==
  /\ pc[x] = "idle"
  /\ Goto(x, "termLock")
  /\ UNCHANGED <<refCount, mutex, session, open, opens, holds, result, copy>>

(* A term() that finds no user left returns without touching anything. *)
TermCheck(x) ==
  /\ pc[x] = "termLock"
  /\ mutex = NoCaller
  /\ \/ refCount > 0 /\ mutex' = x /\ Goto(x, "termSub")
     \/ refCount = 0 /\ Goto(x, "idle") /\ UNCHANGED mutex
  /\ UNCHANGED <<refCount, session, open, opens, holds, result, copy>>

(* Mutant: one term() counts out both bases of the client. *)
TermSubBoth(x) ==
  /\ pc[x] = "termSub"
  /\ refCount' = refCount - 2
  /\ holds' = [holds EXCEPT ![x] = FALSE]
  /\ Goto(x, "termZero")
  /\ UNCHANGED <<mutex, session, open, opens, result, copy>>

TermSub(x) ==
  /\ pc[x] = "termSub"
  /\ refCount' = refCount - 1
  /\ holds' = [holds EXCEPT ![x] = FALSE]
  /\ Goto(x, "termZero")
  /\ UNCHANGED <<mutex, session, open, opens, result, copy>>

(* Mutant: the comparison uses the value before the fetch_sub. *)
TermZeroOld(x) ==
  /\ pc[x] = "termZero"
  /\ \/ refCount + 1 = 0 /\ Goto(x, "termClose") /\ UNCHANGED mutex
     \/ refCount + 1 > 0 /\ mutex' = NoCaller /\ Goto(x, "idle")
  /\ UNCHANGED <<refCount, session, open, opens, holds, result, copy>>

(* The load after the fetch_sub: an unlocked fetch_add may come between. *)
TermZero(x) ==
  /\ pc[x] = "termZero"
  /\ \/ refCount = 0 /\ Goto(x, "termClose") /\ UNCHANGED mutex
     \/ refCount > 0 /\ mutex' = NoCaller /\ Goto(x, "idle")
  /\ UNCHANGED <<refCount, session, open, opens, holds, result, copy>>

(* Mutant: the session is dropped without being closed. *)
TermForget(x) ==
  /\ pc[x] = "termClose"
  /\ session' = NullSession
  /\ mutex' = NoCaller
  /\ Goto(x, "idle")
  /\ UNCHANGED <<refCount, open, opens, holds, result, copy>>

TermClose(x) ==
  /\ pc[x] = "termClose"
  /\ open' = open \ {session}
  /\ session' = NullSession
  /\ mutex' = NoCaller
  /\ Goto(x, "idle")
  /\ UNCHANGED <<refCount, opens, holds, result, copy>>

-----------------------------------------------------------------------------
(* getSession(): the whole body runs under mutex_ and reads refCount_ once. *)

GetSession(x) ==
  /\ pc[x] = "idle"
  /\ mutex = NoCaller
  /\ copy' = [copy EXCEPT ![x] = IF refCount > 0 THEN session ELSE Nullopt]
  /\ UNCHANGED <<refCount, mutex, session, open, opens, pc, holds, result>>

-----------------------------------------------------------------------------
(* The steps inside a call of init() or term(). *)
Step(x) ==
  \/ InitLoad(x) \/ InitFastAdd(x) \/ InitRecheck(x) \/ InitOpen(x) \/ InitCount(x)
  \/ TermCheck(x) \/ TermSub(x) \/ TermZero(x) \/ TermClose(x)

(* Callers that keep to the header: term() and getSession() are for a      *)
(* caller whose init() returned OK.                                        *)
StartInit(x) ==
  /\ ~holds[x]
  /\ opens < MaxOpens
  /\ OverlapAllowed \/ ~TermInProgress
  /\ CallInit(x)

StartTerm(x) ==
  /\ holds[x]
  /\ OverlapAllowed \/ ~InitInProgress
  /\ CallTerm(x)

Read(x) == holds[x] /\ GetSession(x)

(* Nobody is inside a call, and nobody need call again. *)
Resting == (\A x \in Callers : pc[x] = "idle") /\ UNCHANGED vars

Next ==
  \/ \E x \in Callers : StartInit(x) \/ StartTerm(x) \/ Read(x) \/ Step(x)
  \/ Resting

Spec == Init /\ [][Next]_vars

-----------------------------------------------------------------------------
(* Properties *)

(* refCount_ is the number of callers whose init() has counted and whose   *)
(* term() has not: no interleaving of the unlocked fetch_add with the      *)
(* locked paths loses or repeats a count.                                  *)
RefCountExact == refCount = Cardinality(Holders)

(* The only session zenoh may hold open is the one session_ names: no      *)
(* z_open overwrites a live session, and no path drops one unclosed.       *)
NoSessionLeak == open \subseteq {session}

(* Once the last user is counted out and mutex_ is free, zenoh holds no    *)
(* session open: every way to reach zero ends in z_close.                  *)
ClosedWhenUnused ==
  (refCount = 0 /\ mutex = NoCaller) => open = {}

(* "Returns OK on SUCCESS" (zenohSessionManager.h:66): a caller counted in *)
(* by an init() that returned OK has an open session until its term().     *)
HolderHasOpenSession == Holders # {} => session \in open

(* The handle a holder copied out with getSession() stays the session in   *)
(* use until its term(): it is never a closed or an earlier session.       *)
CopyNotStale ==
  \A x \in Callers : holds[x] /\ copy[x] # Nullopt /\ pc[x] = "idle" => copy[x] \in open

Shared == INSTANCE SharedSession WITH
  holders <- Holders,
  current <- IF session \in open THEN session ELSE NullSession,
  last    <- opens

(* The manager implements SharedSession: a caller counted in by init()     *)
(* shares the open session, which changes and closes only between users.   *)
SharesOneSession == Shared!Spec

-----------------------------------------------------------------------------
(* The inductive invariants behind the properties *)

MutexInv == \A x \in Callers : pc[x] \in LockedPcs <=> mutex = x

PhaseInv ==
  \A x \in Callers :
    /\ pc[x] \in InitPcs \cup {"termZero", "termClose"} => ~holds[x]
    /\ pc[x] \in {"termLock", "termSub"} => holds[x]

(* A session is open only for those counted in, or for the owner of mutex_ *)
(* that has just opened it or is about to decide on closing it.            *)
UsedInv ==
  \/ open = {}
  \/ refCount > 0
  \/ \E x \in Callers : pc[x] \in {"initCount", "termZero", "termClose"}

OpeningInv == \A x \in Callers : pc[x] = "initOpen" => open = {}

IInv ==
  TypeOK /\ MutexInv /\ PhaseInv /\ RefCountExact /\ NoSessionLeak /\ UsedInv /\ OpeningInv

(* What holds besides when no init() overlaps a term(). *)
SerialInv ==
  /\ ~(InitInProgress /\ TermInProgress)
  /\ refCount > 0 => session \in open
  /\ \A x \in Callers : pc[x] = "initAdd" => refCount > 0
  /\ \A x \in Callers : pc[x] = "initCount" => session \in open
  /\ \A x \in Callers : pc[x] = "termClose" => refCount = 0

(* Then, too, the copy a holder has taken is the session in use. *)
CopyInv ==
  \A x \in Callers :
    /\ pc[x] \in InitPcs => copy[x] = Nullopt
    /\ holds[x] /\ copy[x] # Nullopt => copy[x] = session
=============================================================================
