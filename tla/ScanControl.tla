---------------------------- MODULE ScanControl ----------------------------
(***************************************************************************)
(* The daemon's one background scan: who starts it, who waits for it, and  *)
(* how the server goes down (src/api/http_server.cpp, try_start_scan,      *)
(* scheduler_loop, POST /scan, start and stop; src/daemon/main.cpp).       *)
(*                                                                         *)
(* A critical section of scan_mtx is one action, except the one that waits *)
(* for the finished thread while it holds the mutex.  stop() reads and     *)
(* joins scan_thread without the mutex.  Of two joins of one thread the    *)
(* later throws: in a handler or the scheduler this is caught, in stop()   *)
(* it ends the process.                                                    *)
(***************************************************************************)
EXTENDS Naturals

CONSTANTS Clients,     \* HTTP threads that serve POST /scan
          Scheduler,   \* the interval scheduler's thread
          NoOne,       \* the mutex is free
          MaxRoots     \* bound: roots per scan

ASSUME ScanControlAssumption ==
    /\ Scheduler \notin Clients
    /\ NoOne \notin Clients \cup {Scheduler}
    /\ MaxRoots \in Nat \ {0}

Starters == Clients \cup {Scheduler}

VARIABLES active,   \* scan_state.active
          cancel,   \* scan_cancel
          holder,   \* who waits for the thread inside scan_mtx
          scan,     \* scan_thread: none (not joinable), running, leaving, exited
          left,     \* roots the scan has before it
          pc,       \* where each starter is
          listener, \* bound, serving, closing, ended
          main,     \* where the daemon's main thread is; dead: std::terminate
          last      \* the stop() under way is the destructor's

vars == <<active, cancel, holder, scan, left, pc, listener, main, last>>
control == <<main, last>>

(* std::terminate leaves no thread to take a step. *)
Alive == main # "dead"

Idle(s) == IF s = Scheduler THEN "sleeping" ELSE "out"
Goto(s, where) == pc' = [pc EXCEPT ![s] = where]

(* A server just started, with its scheduler or (scan_scheduler = off) none *)
FreshPc == {[s \in Starters |-> IF s = Scheduler THEN at ELSE "out"] : at \in {"sleeping", "ended"}}

Init ==
    /\ active = FALSE /\ cancel = FALSE /\ last = FALSE
    /\ holder = NoOne
    /\ scan = "none" /\ left = 0
    /\ pc \in FreshPc
    /\ listener = "bound"
    /\ main = "loop"

-----------------------------------------------------------------------------
(* try_start_scan, by a request or by the scheduler *)

Locked(s) == Alive /\ pc[s] = "asked" /\ holder = NoOne

Refuse(s) ==
    /\ Locked(s)
    /\ active
    /\ Goto(s, Idle(s))
    /\ UNCHANGED <<active, cancel, holder, scan, left, listener, control>>

(* Mutant: the join is entered whatever the scan does *)
WaitsForAny(s) ==
    /\ Locked(s)
    /\ scan # "none"
    /\ main # "joining"
    /\ holder' = s
    /\ Goto(s, "joining")
    /\ UNCHANGED <<active, cancel, scan, left, listener, control>>

WaitsForThread(s) ==
    /\ Locked(s)
    /\ ~active
    /\ scan # "none"
    /\ main # "joining"
    /\ holder' = s
    /\ Goto(s, "joining")
    /\ UNCHANGED <<active, cancel, scan, left, listener, control>>

(* stop() is joining the thread already. *)
JoinThrows(s) ==
    /\ Locked(s)
    /\ ~active
    /\ scan # "none"
    /\ main = "joining"
    /\ Goto(s, Idle(s))
    /\ UNCHANGED <<active, cancel, holder, scan, left, listener, control>>

Reaped(s) == \/ Locked(s) /\ ~active /\ scan = "none"
             \/ Alive /\ holder = s /\ scan = "exited"

(* Mutant: the record is not marked active *)
SpawnQuietly(s) ==
    /\ scan' = "running"
    /\ left' \in 1..MaxRoots
    /\ UNCHANGED active

Spawn(s) ==
    /\ scan' = "running"
    /\ left' \in 1..MaxRoots
    /\ active' = TRUE

(* std::thread throws: the record stays active. *)
SpawnFails(s) ==
    /\ scan' = "none"
    /\ left' = 0
    /\ active' = TRUE

Starts(s) ==
    /\ Reaped(s)
    /\ Spawn(s) \/ SpawnFails(s)
    /\ cancel' = FALSE
    /\ holder' = NoOne
    /\ Goto(s, Idle(s))
    /\ UNCHANGED <<listener, control>>

TryStart(s) == Refuse(s) \/ WaitsForThread(s) \/ JoinThrows(s) \/ Starts(s)

-----------------------------------------------------------------------------
(* scan_thread *)

RootDone ==
    /\ Alive
    /\ scan = "running"
    /\ left > 0
    /\ holder = NoOne
    /\ left' = IF cancel THEN 0 ELSE left - 1
    /\ UNCHANGED <<active, cancel, holder, scan, pc, listener, control>>

(* Mutant: the record is closed before the last result is in it *)
FinishesEarly ==
    \/ /\ scan = "running"
       /\ left = 1
       /\ active
       /\ holder = NoOne
       /\ active' = FALSE
       /\ UNCHANGED scan
    \/ /\ scan = "running"
       /\ left = 0
       /\ holder = NoOne
       /\ active' = FALSE
       /\ scan' = "leaving"

Finishes ==
    /\ scan = "running"
    /\ left = 0
    /\ holder = NoOne
    /\ active' = FALSE
    /\ scan' = "leaving"

ScanEnds == Alive /\ Finishes /\ UNCHANGED <<cancel, holder, left, pc, listener, control>>

ThreadExits ==
    /\ Alive
    /\ scan = "leaving"
    /\ scan' = "exited"
    /\ UNCHANGED <<active, cancel, holder, left, pc, listener, control>>

ScanThread == RootDone \/ ScanEnds \/ ThreadExits

-----------------------------------------------------------------------------
(* Who asks for a scan *)

Post(c) ==
    /\ Alive
    /\ listener = "serving"
    /\ pc[c] = "out"
    /\ Goto(c, "asked")
    /\ UNCHANGED <<active, cancel, holder, scan, left, listener, control>>

Stopping == main # "loop"

SchedulerLooks ==
    /\ Alive
    /\ pc[Scheduler] = "sleeping"
    /\ ~Stopping
    /\ holder = NoOne
    /\ ~active
    /\ Goto(Scheduler, "looking")
    /\ UNCHANGED <<active, cancel, holder, scan, left, listener, control>>

(* Some roots are due, or none is, or the database fails. *)
SchedulerAsks ==
    /\ Alive
    /\ pc[Scheduler] = "looking"
    /\ \E where \in {"asked", "sleeping"} : Goto(Scheduler, where)
    /\ UNCHANGED <<active, cancel, holder, scan, left, listener, control>>

SchedulerEnds ==
    /\ Alive
    /\ pc[Scheduler] = "sleeping"
    /\ Stopping
    /\ Goto(Scheduler, "ended")
    /\ UNCHANGED <<active, cancel, holder, scan, left, listener, control>>

-----------------------------------------------------------------------------
(* The listener, and stop() as main and then the destructor call it *)

ListenerServes ==
    /\ Alive
    /\ listener = "bound"
    /\ listener' = "serving"
    /\ UNCHANGED <<active, cancel, holder, scan, left, pc, control>>

(* The socket is closed; the pool finishes the requests it has. *)
ListenerEnds ==
    /\ Alive
    /\ listener = "closing"
    /\ \A c \in Clients : pc[c] = "out"
    /\ listener' = "ended"
    /\ UNCHANGED <<active, cancel, holder, scan, left, pc, control>>

MainMoves(from, to) == main = from /\ main' = to

(* SIGTERM or SIGUSR1 *)
StopAsked ==
    /\ MainMoves("loop", "stopping")
    /\ UNCHANGED <<active, cancel, holder, scan, left, pc, listener, last>>

SchedulerJoined ==
    /\ pc[Scheduler] = "ended"
    /\ MainMoves("stopping", "cancelling")
    /\ UNCHANGED <<active, cancel, holder, scan, left, pc, listener, last>>

Cancels ==
    /\ cancel' = TRUE
    /\ MainMoves("cancelling", "reaping")
    /\ UNCHANGED <<active, holder, scan, left, pc, listener, last>>

(* Mutant: stop() takes scan_mtx for the join *)
ReapsLocked ==
    /\ holder = NoOne
    /\ IF scan = "none" THEN MainMoves("reaping", "closing") /\ UNCHANGED holder
                        ELSE MainMoves("reaping", "joining") /\ holder' = "main"

Reaps ==
    /\ UNCHANGED holder
    /\ \/ scan = "none" /\ MainMoves("reaping", "closing")
       \/ scan # "none" /\ holder = NoOne /\ MainMoves("reaping", "joining")
       \/ scan # "none" /\ holder # NoOne /\ MainMoves("reaping", "dead")

ReapsScan == Reaps /\ UNCHANGED <<active, cancel, scan, left, pc, listener, last>>

ScanJoined ==
    /\ scan = "exited"
    /\ scan' = "none"
    /\ MainMoves("joining", "closing")
    /\ UNCHANGED <<active, cancel, holder, left, pc, listener, last>>

(* httplib's stop() does nothing before the listener runs. *)
ClosesServer ==
    /\ MainMoves("closing", "awaiting")
    /\ listener' = IF listener = "serving" THEN "closing" ELSE listener
    /\ UNCHANGED <<active, cancel, holder, scan, left, pc, last>>

ListenerJoined ==
    /\ listener = "ended"
    /\ MainMoves("awaiting", IF last THEN "gone" ELSE "stopped")
    /\ UNCHANGED <<active, cancel, holder, scan, left, pc, listener, last>>

(* Mutant: ~HttpServer leaves it at the first stop() *)
DestroysAtOnce ==
    /\ MainMoves("stopped", "gone")
    /\ last' = TRUE

Destroys ==
    /\ MainMoves("stopped", "stopping")
    /\ last' = TRUE

DestroysServer == Destroys /\ UNCHANGED <<active, cancel, holder, scan, left, pc, listener>>

(* After SIGUSR1 the daemon starts a new server. *)
Rebinds ==
    /\ main = "gone"
    /\ active' = FALSE /\ cancel' = FALSE /\ last' = FALSE
    /\ holder' = NoOne
    /\ scan' = "none" /\ left' = 0
    /\ pc' \in FreshPc
    /\ listener' = "bound"
    /\ main' = "loop"

StopStep == SchedulerJoined \/ Cancels \/ ReapsScan \/ ScanJoined \/ ClosesServer
            \/ ListenerJoined \/ DestroysServer

-----------------------------------------------------------------------------
Next ==
    \/ \E s \in Starters : Refuse(s) \/ WaitsForThread(s) \/ JoinThrows(s) \/ Starts(s)
    \/ RootDone \/ ScanEnds \/ ThreadExits
    \/ \E c \in Clients : Post(c)
    \/ SchedulerLooks \/ SchedulerAsks \/ SchedulerEnds
    \/ ListenerServes \/ ListenerEnds
    \/ StopAsked \/ SchedulerJoined \/ Cancels \/ ReapsScan \/ ScanJoined
    \/ ClosesServer \/ ListenerJoined \/ DestroysServer \/ Rebinds

Spec == Init /\ [][Next]_vars

(* Threads run, sweeps of a root end, and a mutex that is free again and   *)
(* again is got; nobody has to ask for a scan or for a stop.               *)
FairSpec ==
    /\ Spec
    /\ \A s \in Starters : SF_vars(TryStart(s))
    /\ WF_vars(ScanThread)
    /\ WF_vars((SchedulerAsks \/ SchedulerEnds))
    /\ WF_vars((ListenerServes \/ ListenerEnds))
    /\ WF_vars(StopStep)

-----------------------------------------------------------------------------
(* Properties *)

(* Types; the record of the scan is open while a thread scans, and the     *)
(* mutex is kept by none but a starter that waits for the thread.          *)
TypeOK ==
    /\ active \in BOOLEAN /\ cancel \in BOOLEAN /\ last \in BOOLEAN
    /\ scan \in {"none", "running", "leaving", "exited"}
    /\ left \in 0..MaxRoots
    /\ scan = "running" => active
    /\ \A s \in Starters : holder = s <=> pc[s] = "joining"
    /\ \A c \in Clients : pc[c] \in {"out", "asked", "joining"}
    /\ pc[Scheduler] \in {"sleeping", "looking", "asked", "joining", "ended"}
    /\ listener \in {"bound", "serving", "closing", "ended"}
    /\ main \in {"loop", "stopping", "cancelling", "reaping", "joining", "closing", "awaiting",
                 "stopped", "gone", "dead"}

(* The wait inside scan_mtx is for a thread that needs the mutex no more   *)
(* (try_start_scan, "reap a finished run"): it cannot block the scan that  *)
(* would end it.                                                           *)
LockedWaitIsShort == holder # NoOne => scan \in {"leaving", "exited"}

(* Every POST /scan is answered, unless the process ends.                  *)
PostsAnswered == \A c \in Clients : pc[c] = "asked" ~> (pc[c] = "out" \/ main = "dead")

(* When the server object is gone no thread is left that could use it:     *)
(* what a request started during stop() is reaped by the stop() of the     *)
(* destructor.                                                             *)
NothingOutlivesServer ==
    main = "gone" => /\ scan = "none"
                     /\ pc[Scheduler] = "ended"
                     /\ \A c \in Clients : pc[c] = "out"

(* stop() comes to its end once the listener runs, whatever is scanned,    *)
(* asked or joined at the time.                                            *)
StopReturns == (main = "stopping" /\ listener = "serving") ~> main \in {"gone", "dead"}
=============================================================================
