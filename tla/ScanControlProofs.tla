------------------------- MODULE ScanControlProofs -------------------------
(***************************************************************************)
(* ScanControl, for any number of clients and roots: the wait inside       *)
(* scan_mtx is short, and no thread outlives the server object.            *)
(***************************************************************************)
EXTENDS ScanControl, TLAPS

(* scan_thread is waited for by one thread at a time: by a starter inside  *)
(* the mutex, or by stop().                                                *)
OneWaits ==
    /\ holder # NoOne => holder \in Starters /\ main # "joining" /\ ~active
    /\ main = "joining" => scan # "none"

(* Once stop() has joined the scheduler it stays ended, and once it has    *)
(* joined the listener no request is served.                               *)
NoneAsks ==
    /\ main \notin {"loop", "stopping", "dead"} => pc[Scheduler] = "ended"
    /\ last => pc[Scheduler] = "ended"
    /\ main \in {"stopped", "gone"} \/ last => listener = "ended"
    /\ listener = "ended" => \A c \in Clients : pc[c] = "out"

(* The destructor's stop() leaves no thread, as nobody can start one. *)
LastReap == main = "gone" \/ (last /\ main \in {"closing", "awaiting"}) => scan = "none"

GoneIsLast == main = "gone" => last

IInv ==
    /\ TypeOK
    /\ pc = [s \in Starters |-> pc[s]]
    /\ LockedWaitIsShort
    /\ OneWaits
    /\ NoneAsks
    /\ GoneIsLast
    /\ LastReap

USE DEF Starters

(* A fresh server: no scan, no request, a scheduler or none. *)
LEMMA FreshPcLemma ==
    ASSUME NEW p \in FreshPc
    PROVE  /\ p = [s \in Starters |-> p[s]]
           /\ \A c \in Clients : p[c] = "out"
           /\ p[Scheduler] \in {"sleeping", "ended"}
BY ScanControlAssumption DEF FreshPc

(* A program that starts has nothing running and nobody waiting. *)
LEMMA InitInv == Init => IInv
<1>. SUFFICES ASSUME Init PROVE IInv
  OBVIOUS
<1>1. /\ pc = [s \in Starters |-> pc[s]]
      /\ \A c \in Clients : pc[c] = "out"
      /\ pc[Scheduler] \in {"sleeping", "ended"}
  <2>1. pc \in FreshPc
    BY DEF Init
  <2>. QED
    BY <2>1, FreshPcLemma
<1>2. TypeOK
  <2>1. \A s \in Starters : holder # s /\ pc[s] # "joining"
    BY <1>1, ScanControlAssumption DEF Init
  <2>2. left \in 0..MaxRoots
    BY ScanControlAssumption DEF Init
  <2>. QED
    BY <1>1, <2>1, <2>2 DEF Init, TypeOK
<1>3. LockedWaitIsShort /\ OneWaits /\ NoneAsks /\ GoneIsLast /\ LastReap
  BY <1>1 DEF Init, LockedWaitIsShort, OneWaits, NoneAsks, GoneIsLast, LastReap
<1>. QED
  BY <1>1, <1>2, <1>3 DEF IInv

(* try_start_scan, in its four outcomes *)
LEMMA StartsInv ==
    ASSUME IInv, NEW s \in Starters, Refuse(s) \/ WaitsForThread(s) \/ JoinThrows(s) \/ Starts(s)
    PROVE  IInv'
<1>. USE ScanControlAssumption DEF control, Goto, Idle, Alive, Locked
<1>1. CASE Refuse(s) \/ JoinThrows(s)
  <2>1. /\ UNCHANGED <<active, cancel, holder, scan, left, listener, main, last>>
        /\ pc[s] = "asked" /\ holder = NoOne
        /\ pc' = [pc EXCEPT ![s] = IF s = Scheduler THEN "sleeping" ELSE "out"]
    BY <1>1 DEF Refuse, JoinThrows
  <2>2. \A t \in Starters : pc'[t] = IF t = s THEN (IF s = Scheduler THEN "sleeping" ELSE "out") ELSE pc[t]
    BY <2>1 DEF IInv
  <2>3. TypeOK' /\ pc' = [t \in Starters |-> pc'[t]]
    BY <2>1, <2>2 DEF IInv, TypeOK
  <2>4. LockedWaitIsShort' /\ OneWaits' /\ GoneIsLast' /\ LastReap'
    BY <2>1 DEF IInv, LockedWaitIsShort, OneWaits, GoneIsLast, LastReap
  <2>5. NoneAsks'
    BY <2>1, <2>2 DEF IInv, NoneAsks
  <2>. QED
    BY <2>3, <2>4, <2>5 DEF IInv
<1>2. CASE WaitsForThread(s)
  <2>1. /\ UNCHANGED <<active, cancel, scan, left, listener, main, last>>
        /\ pc[s] = "asked" /\ holder = NoOne /\ holder' = s
        /\ ~active /\ scan # "none" /\ main # "joining"
        /\ pc' = [pc EXCEPT ![s] = "joining"]
    BY <1>2 DEF WaitsForThread
  <2>2. \A t \in Starters : pc'[t] = IF t = s THEN "joining" ELSE pc[t]
    BY <2>1 DEF IInv
  <2>3. TypeOK' /\ pc' = [t \in Starters |-> pc'[t]]
    BY <2>1, <2>2 DEF IInv, TypeOK
  <2>4. LockedWaitIsShort' /\ OneWaits' /\ GoneIsLast' /\ LastReap'
    BY <2>1 DEF IInv, TypeOK, LockedWaitIsShort, OneWaits, GoneIsLast, LastReap
  <2>5. NoneAsks'
    BY <2>1, <2>2 DEF IInv, NoneAsks
  <2>. QED
    BY <2>3, <2>4, <2>5 DEF IInv
<1>3. CASE Starts(s)
  <2>1. /\ UNCHANGED <<listener, main, last>>
        /\ pc[s] \in {"asked", "joining"} /\ holder \in {s, NoOne} /\ holder' = NoOne
        /\ holder = NoOne => scan = "none" /\ pc[s] = "asked"
        /\ active' = TRUE /\ cancel' = FALSE /\ left' \in 0..MaxRoots
        /\ scan' \in {"running", "none"}
        /\ pc' = [pc EXCEPT ![s] = IF s = Scheduler THEN "sleeping" ELSE "out"]
    BY <1>3 DEF IInv, TypeOK, Starts, Reaped, Spawn, SpawnFails
  <2>2. \A t \in Starters : pc'[t] = IF t = s THEN (IF s = Scheduler THEN "sleeping" ELSE "out") ELSE pc[t]
    BY <2>1 DEF IInv
  <2>3. TypeOK' /\ pc' = [t \in Starters |-> pc'[t]]
    BY <2>1, <2>2 DEF IInv, TypeOK
  <2>4. LockedWaitIsShort' /\ OneWaits' /\ GoneIsLast'
    BY <2>1 DEF IInv, LockedWaitIsShort, OneWaits, GoneIsLast
  <2>5. NoneAsks' /\ LastReap'
    BY <2>1, <2>2 DEF IInv, NoneAsks, LastReap, GoneIsLast
  <2>. QED
    BY <2>3, <2>4, <2>5 DEF IInv
<1>. QED
  BY <1>1, <1>2, <1>3

-----------------------------------------------------------------------------
(* The scan thread ends only its own record. *)
LEMMA ScanThreadInv == ASSUME IInv, RootDone \/ ScanEnds \/ ThreadExits PROVE IInv'
<1>1. /\ UNCHANGED <<cancel, holder, pc, listener, main, last>>
      /\ left' \in 0..MaxRoots
      /\ \/ scan' = scan /\ active' = active
         \/ scan = "running" /\ scan' = "leaving" /\ active' = FALSE /\ holder = NoOne
         \/ scan = "leaving" /\ scan' = "exited" /\ active' = active
  BY ScanControlAssumption DEF IInv, TypeOK, RootDone, ScanEnds, Finishes, ThreadExits, control
<1>2. TypeOK'
  <2>1. CASE scan' = scan /\ active' = active
    BY <1>1, <2>1 DEF IInv, TypeOK
  <2>2. CASE scan' = "leaving" /\ active' = FALSE
    BY <1>1, <2>2 DEF IInv, TypeOK
  <2>3. CASE scan' = "exited" /\ active' = active
    BY <1>1, <2>3 DEF IInv, TypeOK
  <2>. QED
    BY <1>1, <2>1, <2>2, <2>3
<1>3. LockedWaitIsShort' /\ OneWaits' /\ NoneAsks' /\ GoneIsLast' /\ LastReap'
  <2>1. NoneAsks' /\ GoneIsLast'
    BY <1>1 DEF IInv, NoneAsks, GoneIsLast
  <2>2. LockedWaitIsShort' /\ LastReap'
    BY <1>1 DEF IInv, LockedWaitIsShort, LastReap
  <2>3. OneWaits'
    BY <1>1 DEF IInv, TypeOK, OneWaits
  <2>. QED
    BY <2>1, <2>2, <2>3
<1>. QED
  BY <1>1, <1>2, <1>3 DEF IInv

(* Requests come only while the listener runs, and the scheduler asks only *)
(* until stop() is called.                                                 *)
LEMMA AsksInv ==
    ASSUME IInv,
           \/ \E c \in Clients : Post(c)
           \/ SchedulerLooks \/ SchedulerAsks \/ SchedulerEnds
    PROVE  IInv'
<1>1. PICK s \in Starters, where \in {"asked", "looking", "sleeping", "ended"} :
         /\ pc' = [pc EXCEPT ![s] = where]
         /\ UNCHANGED <<active, cancel, holder, scan, left, listener, main, last>>
         /\ \/ s \in Clients /\ where = "asked" /\ listener = "serving" /\ pc[s] = "out"
            \/ s = Scheduler /\ pc[s] = "sleeping" /\ where \in {"looking", "ended"}
            \/ s = Scheduler /\ pc[s] = "looking" /\ where \in {"asked", "sleeping"}
  <2>1. CASE \E c \in Clients : Post(c)
    BY <2>1 DEF Post, Goto, control
  <2>2. CASE SchedulerLooks \/ SchedulerEnds
    BY <2>2 DEF SchedulerLooks, SchedulerEnds, Goto, control
  <2>3. CASE SchedulerAsks
    BY <2>3 DEF SchedulerAsks, Goto, control
  <2>. QED
    BY <2>1, <2>2, <2>3
<1>2. \A t \in Starters : pc'[t] = IF t = s THEN where ELSE pc[t]
  BY <1>1 DEF IInv
<1>3. TypeOK' /\ pc' = [t \in Starters |-> pc'[t]]
  BY <1>1, <1>2, ScanControlAssumption DEF IInv, TypeOK
<1>4. LockedWaitIsShort' /\ OneWaits' /\ GoneIsLast' /\ LastReap'
  BY <1>1 DEF IInv, LockedWaitIsShort, OneWaits, GoneIsLast, LastReap
<1>5. NoneAsks'
  BY <1>1, <1>2, ScanControlAssumption DEF IInv, NoneAsks
<1>. QED
  BY <1>3, <1>4, <1>5 DEF IInv

(* The listener ends when its handlers are done. *)
LEMMA ListenerInv == ASSUME IInv, ListenerServes \/ ListenerEnds PROVE IInv'
<1>1. /\ UNCHANGED <<active, cancel, holder, scan, left, pc, main, last>>
      /\ \/ listener = "bound" /\ listener' = "serving"
         \/ listener' = "ended" /\ \A c \in Clients : pc[c] = "out"
  BY DEF ListenerServes, ListenerEnds, control
<1>. QED
  BY <1>1 DEF IInv, TypeOK, LockedWaitIsShort, OneWaits, NoneAsks, GoneIsLast, LastReap

(* The statements of stop(), for the main loop and for the destructor *)
LEMMA StopInv ==
    ASSUME IInv,
           \/ StopAsked \/ SchedulerJoined \/ Cancels \/ ReapsScan \/ ScanJoined
           \/ ClosesServer \/ ListenerJoined \/ DestroysServer
    PROVE  IInv'
<1>. USE DEF IInv, TypeOK, LockedWaitIsShort, OneWaits, NoneAsks, GoneIsLast, LastReap, MainMoves
<1>1. CASE StopAsked \/ SchedulerJoined
  BY <1>1 DEF StopAsked, SchedulerJoined
<1>2. CASE Cancels
  BY <1>2 DEF Cancels
<1>3. CASE ReapsScan
  BY <1>3 DEF ReapsScan, Reaps
<1>4. CASE ScanJoined
  BY <1>4 DEF ScanJoined
<1>5. CASE ClosesServer
  BY <1>5 DEF ClosesServer
<1>6. CASE ListenerJoined
  BY <1>6 DEF ListenerJoined
<1>7. CASE DestroysServer
  BY <1>7 DEF DestroysServer, Destroys
<1>. QED
  BY <1>1, <1>2, <1>3, <1>4, <1>5, <1>6, <1>7

(* A new server begins as the first one did. *)
LEMMA RebindsInv == ASSUME Rebinds PROVE IInv'
<1>1. /\ pc' = [s \in Starters |-> pc'[s]]
      /\ \A c \in Clients : pc'[c] = "out"
      /\ pc'[Scheduler] \in {"sleeping", "ended"}
  <2>1. pc' \in FreshPc
    BY DEF Rebinds
  <2>. QED
    BY <2>1, FreshPcLemma
<1>2. TypeOK'
  <2>1. \A s \in Starters : holder' # s /\ pc'[s] # "joining"
    BY <1>1, ScanControlAssumption DEF Rebinds
  <2>2. left' \in 0..MaxRoots
    BY ScanControlAssumption DEF Rebinds
  <2>. QED
    BY <1>1, <2>1, <2>2 DEF Rebinds, TypeOK
<1>3. LockedWaitIsShort' /\ OneWaits' /\ NoneAsks' /\ GoneIsLast' /\ LastReap'
  BY <1>1 DEF Rebinds, LockedWaitIsShort, OneWaits, NoneAsks, GoneIsLast, LastReap
<1>. QED
  BY <1>1, <1>2, <1>3 DEF IInv

-----------------------------------------------------------------------------
(* IInv holds initially and in every step of every thread. *)
THEOREM ControlInvariant == Spec => []IInv
<1>1. IInv /\ [Next]_vars => IInv'
  <2>. SUFFICES ASSUME IInv, [Next]_vars PROVE IInv'
    OBVIOUS
  <2>1. CASE UNCHANGED vars
    BY <2>1 DEF vars, control, IInv, TypeOK, LockedWaitIsShort, OneWaits, NoneAsks, GoneIsLast, LastReap
  <2>. QED
    BY <2>1, StartsInv, ScanThreadInv, AsksInv, ListenerInv, StopInv, RebindsInv DEF Next
<1>. QED
  BY InitInv, <1>1, PTL DEF Spec

(* The threads of the server are where their types say. *)
THEOREM ControlTypes == Spec => []TypeOK
<1>1. IInv => TypeOK
  BY DEF IInv
<1>. QED
  BY <1>1, ControlInvariant, PTL

(* try_start_scan waits under the mutex only for a thread that is done     *)
(* with the mutex.                                                         *)
THEOREM JoinUnderLockIsShort == Spec => []LockedWaitIsShort
<1>1. IInv => LockedWaitIsShort
  BY DEF IInv
<1>. QED
  BY <1>1, ControlInvariant, PTL

(* ~HttpServer leaves no scan, no scheduler and no handler behind.         *)
THEOREM ServerLeavesNothing == Spec => []NothingOutlivesServer
<1>1. IInv => NothingOutlivesServer
  BY DEF IInv, NoneAsks, GoneIsLast, LastReap, NothingOutlivesServer
<1>. QED
  BY <1>1, ControlInvariant, PTL
=============================================================================
