----------------------------- MODULE GrpcServer -----------------------------
(***************************************************************************)
(* How PublishService and SubscribeService start and stop their gRPC       *)
(* server: start() on a thread of the service's own, which it keeps in     *)
(* Wait(), and stop() on the thread that stops the broker.  The two are    *)
(* line for line the same in publishService.cpp and subscribeService.cpp,  *)
(* and meet only in mKeepRunning, mServer and mServerStarted; both reset   *)
(* the count of RPCs (mPublisherCount, mSubscriberCount).                  *)
(***************************************************************************)
EXTENDS Integers

CONSTANT StopBeforeStart  \* stop() may overtake the thread that runs start() (BOOLEAN)

VARIABLES count,           \* mPublisherCount or mSubscriberCount
          mKeepRunning,
          server,          \* mServer, and whether it is being shut down
          mServerStarted,
          starter,         \* where start() is
          stopper          \* where stop() is

ServerInit ==
    /\ count = 0
    /\ mKeepRunning = TRUE
    /\ server = "none"
    /\ mServerStarted = FALSE
    /\ starter = "called"
    /\ stopper = "none"

ServerTypeOK ==
    /\ count \in Int
    /\ mKeepRunning \in BOOLEAN
    /\ server \in {"none", "serving", "shutting_down", "shut_down"}
    /\ mServerStarted \in BOOLEAN
    /\ starter \in {"called", "building", "built", "waiting", "returned"}
    /\ stopper \in {"none", "pausing", "draining", "resetting", "stopped"}

-----------------------------------------------------------------------------
BeginStart ==
    /\ starter = "called"
    /\ mKeepRunning' = TRUE
    /\ count' = 0
    /\ starter' = "building"
    /\ UNCHANGED <<server, mServerStarted, stopper>>

BuildAndStart ==
    /\ starter = "building"
    /\ server' = "serving"
    /\ starter' = "built"
    /\ UNCHANGED <<count, mKeepRunning, mServerStarted, stopper>>

MarkStarted ==
    /\ starter = "built"
    /\ mServerStarted' = TRUE
    /\ starter' = "waiting"
    /\ UNCHANGED <<count, mKeepRunning, server, stopper>>

WaitReturns ==
    /\ starter = "waiting"
    /\ server = "shut_down"
    /\ mServerStarted' = FALSE
    /\ starter' = "returned"
    /\ UNCHANGED <<count, mKeepRunning, server, stopper>>

Start == BeginStart \/ BuildAndStart \/ MarkStarted \/ WaitReturns

-----------------------------------------------------------------------------
BeginStop ==
    /\ stopper = "none"
    /\ StopBeforeStart \/ mServerStarted
    /\ mKeepRunning' = FALSE
    /\ stopper' = "pausing"
    /\ UNCHANGED <<count, server, mServerStarted, starter>>

Shutdown ==
    /\ stopper = "pausing"
    /\ server = "serving" /\ mServerStarted
    /\ server' = "shutting_down"
    /\ stopper' = "draining"
    /\ UNCHANGED <<count, mKeepRunning, mServerStarted, starter>>

NothingToShutDown ==
    /\ stopper = "pausing"
    /\ ~ (server = "serving" /\ mServerStarted)
    /\ stopper' = "resetting"
    /\ UNCHANGED <<count, mKeepRunning, server, mServerStarted, starter>>

\* Shutdown returns when no RPC is outstanding; mServer is reset.
ShutdownReturns(outstanding) ==
    /\ stopper = "draining"
    /\ outstanding = {}
    /\ server' = "shut_down"
    /\ mServerStarted' = FALSE
    /\ stopper' = "resetting"
    /\ UNCHANGED <<count, mKeepRunning, starter>>

ResetCount ==
    /\ stopper = "resetting"
    /\ count' = 0
    /\ stopper' = "stopped"
    /\ UNCHANGED <<mKeepRunning, server, mServerStarted, starter>>

Stop(outstanding) ==
    BeginStop \/ Shutdown \/ NothingToShutDown \/ ShutdownReturns(outstanding) \/ ResetCount
=============================================================================
