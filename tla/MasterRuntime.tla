---------------------------- MODULE MasterRuntime ----------------------------
(***************************************************************************)
(* The life of one master process: Master.Run with its two WireGuard        *)
(* listeners, the coordination adapter, the goroutines that run the         *)
(* control-plane daemon, registrations that reach the mesh listener, and    *)
(* the two ways to ask it to stop, a cancelled context and SIGTERM.         *)
(* Deadlines (3 s to start or stop, 5 s to drain) may fire at any time.     *)
(***************************************************************************)
EXTENDS Integers

CONSTANT MaxFailures    \* bound: failed system calls in one behaviour

VARIABLES
  rpc,        \* where Master.Run is
  ret,        \* what Run is going to return, or has returned
  coord,      \* m.coordination is set
  ctxDone,    \* the context was cancelled
  sig,        \* the daemon's signal channel holds a signal
  open,       \* the transports that exist in the kernel
  held,       \* DualListener holds both transports (l.started)
  links,      \* the overlay address is assigned and the links are up
  selfReg,    \* the master is in its own registry
  dpc,        \* where the daemon's goroutine is
  derr,       \* what Daemon.Run is going to return
  listener,   \* d.listener is set; nothing resets it
  bound,      \* the coordination socket is bound
  grpc,       \* "new", "serving" or "stopped"
  spawned,    \* the goroutine that is to call Serve has not done so yet
  chan,       \* the done channel: "none", "empty", "ok", "err" or "taken"
  cleared,    \* c.done and c.stopped are nil
  started,    \* c.started
  reg,        \* the registration whose observer is running
  failures    \* how many calls have failed

run == <<rpc, ret, coord, links, selfReg>>
asked == <<ctxDone, sig>>
device == <<open, held>>
daemon == <<dpc, derr, listener, bound, grpc, spawned>>
adapter == <<chan, cleared, started>>
mvars == <<run, asked, device, daemon, adapter, reg, failures>>

RunPcs == {"client", "mesh", "links", "self", "begin", "ready", "await", "serve",
           "stop", "stopwait", "close", "returned", "killed"}
DaemonPcs == {"idle", "listen", "grace", "serve", "shutdown", "flush", "setStopped", "send", "gone"}

MasterTypeOK ==
  /\ rpc \in RunPcs /\ ret \in {"none", "ok", "error"}
  /\ coord \in BOOLEAN /\ ctxDone \in BOOLEAN /\ sig \in BOOLEAN /\ held \in BOOLEAN
  /\ links \in BOOLEAN /\ selfReg \in BOOLEAN /\ listener \in BOOLEAN /\ bound \in BOOLEAN
  /\ cleared \in BOOLEAN /\ started \in BOOLEAN /\ spawned \in BOOLEAN
  /\ open \subseteq {"client", "mesh"}
  /\ dpc \in DaemonPcs /\ derr \in {"ok", "err"} /\ grpc \in {"new", "serving", "stopped"}
  /\ chan \in {"none", "empty", "ok", "err", "taken"}
  /\ reg \in {"idle", "adding", "routing", "refused"}
  /\ failures \in 0..MaxFailures

MasterInit ==
  /\ rpc = "client" /\ ret = "none" /\ coord \in BOOLEAN
  /\ ctxDone = FALSE /\ sig = FALSE
  /\ open = {} /\ held = FALSE /\ links = FALSE /\ selfReg = FALSE
  /\ dpc = "idle" /\ derr = "ok" /\ listener = FALSE /\ bound = FALSE /\ grpc = "new"
  /\ spawned = FALSE
  /\ chan = "none" /\ cleared = TRUE /\ started = FALSE
  /\ reg = "idle" /\ failures = 0

CallFails == failures < MaxFailures /\ failures' = failures + 1

Return(result) == rpc' = "returned" /\ ret' = result

(* DualListener.Start.  A transport that cannot be created or configured is
   closed again, and with it the one that was opened before it. *)
StartClient ==
  /\ rpc = "client"
  /\ \/ ctxDone /\ Return("error") /\ UNCHANGED <<open, failures>>
     \/ ~ctxDone /\ rpc' = "mesh" /\ open' = {"client"} /\ UNCHANGED <<ret, failures>>
     \/ ~ctxDone /\ CallFails /\ Return("error") /\ UNCHANGED open
  /\ UNCHANGED <<coord, links, selfReg, asked, held, daemon, adapter, reg>>

StartMesh ==
  /\ rpc = "mesh"
  /\ \/ rpc' = "links" /\ open' = {"client", "mesh"} /\ held' = TRUE /\ UNCHANGED <<ret, failures>>
     \/ CallFails /\ Return("error") /\ open' = {} /\ UNCHANGED held
  /\ UNCHANGED <<coord, links, selfReg, asked, daemon, adapter, reg>>

(* DualListener.Close on an error path of Run, before coordination runs. *)
CloseListener == open' = {} /\ held' = FALSE

configureLinks ==
  /\ rpc = "links"
  /\ \/ /\ links' = TRUE /\ rpc' = (IF coord THEN "self" ELSE "serve")
        /\ UNCHANGED <<ret, device, failures>>
     \/ CallFails /\ CloseListener /\ Return("error") /\ UNCHANGED links
  /\ UNCHANGED <<coord, selfReg, asked, daemon, adapter, reg>>

selfRegisterCoordination ==
  /\ rpc = "self"
  /\ \/ selfReg' = TRUE /\ rpc' = "begin" /\ UNCHANGED <<ret, device, failures>>
     \/ CallFails /\ CloseListener /\ Return("error") /\ UNCHANGED selfReg
  /\ UNCHANGED <<coord, links, asked, daemon, adapter, reg>>

begin ==
  /\ rpc = "begin"
  /\ rpc' = "ready" /\ dpc' = "listen" /\ chan' = "empty" /\ cleared' = FALSE
  /\ UNCHANGED <<ret, coord, links, selfReg, asked, device, derr, listener, bound, grpc,
                 spawned, started, reg, failures>>

(* MasterCoordination.waitUntilReady: look at the address, else block in the
   select until the daemon has ended, the context is cancelled, the deadline
   has passed or the ticker fires. *)
readyCheck ==
  /\ rpc = "ready"
  /\ IF listener THEN rpc' = "serve" /\ started' = TRUE
                 ELSE rpc' = "await" /\ UNCHANGED started
  /\ UNCHANGED <<ret, coord, links, selfReg, asked, device, daemon, chan, cleared, reg, failures>>

awaitDone ==
  /\ rpc = "await" /\ chan \in {"ok", "err"}
  /\ chan' = "taken" /\ cleared' = TRUE
  /\ CloseListener /\ Return("error")
  /\ UNCHANGED <<coord, links, selfReg, asked, daemon, started, reg, failures>>

awaitAborts ==
  /\ rpc = "await" /\ rpc' = "stop" /\ ret' = "error"
  /\ UNCHANGED <<coord, links, selfReg, asked, device, daemon, adapter, reg, failures>>

awaitTick ==
  /\ rpc = "await" /\ rpc' = "ready"
  /\ UNCHANGED <<ret, coord, links, selfReg, asked, device, daemon, adapter, reg, failures>>

(* Master.Close: coordination first, then the listeners. *)
Close_ListenerFirst == rpc' = (IF coord THEN "stop" ELSE "close") /\ open' = {} /\ held' = FALSE

Close == rpc' = (IF coord THEN "stop" ELSE "close") /\ UNCHANGED device

(* The select of Master.Run. *)
serveCancelled ==
  /\ rpc = "serve" /\ ctxDone
  /\ ret' = "ok" /\ Close
  /\ UNCHANGED <<coord, links, selfReg, asked, daemon, adapter, reg, failures>>

serveDone ==
  /\ rpc = "serve" /\ coord /\ chan \in {"ok", "err"}
  /\ chan' = "taken"
  /\ ret' = (IF chan = "ok" /\ ctxDone THEN "ok" ELSE "error") /\ Close
  /\ UNCHANGED <<coord, links, selfReg, asked, daemon, cleared, started, reg, failures>>

(* MasterCoordination.Stop: Daemon.Stop drains for at most five seconds, then
   the goroutine is awaited for at most three. *)
Stop ==
  /\ rpc = "stop" /\ rpc' = "stopwait"
  /\ grpc' = "stopped" /\ bound' = (bound /\ grpc # "serving")
  /\ UNCHANGED <<ret, coord, links, selfReg, asked, device, dpc, derr, listener, spawned, adapter,
                 reg, failures>>

StopReturns ==
  /\ rpc = "stopwait" /\ rpc' = "close"
  /\ started' = FALSE /\ cleared' = TRUE
  /\ UNCHANGED <<ret, coord, links, selfReg, asked, device, daemon, chan, reg, failures>>

CloseTransports ==
  /\ rpc = "close" /\ rpc' = "returned" /\ CloseListener
  /\ \/ UNCHANGED <<ret, failures>>
     \/ CallFails /\ ret' = "error"
  /\ UNCHANGED <<coord, links, selfReg, asked, daemon, adapter, reg>>

RunStep ==
  \/ StartClient \/ StartMesh \/ configureLinks \/ selfRegisterCoordination \/ begin
  \/ readyCheck \/ awaitDone \/ awaitAborts \/ awaitTick
  \/ serveCancelled \/ serveDone \/ Stop \/ StopReturns \/ CloseTransports

-----------------------------------------------------------------------------
(* The goroutine of begin: Daemon.Run, setStarted(false), done <- err; and the
   one Daemon.Run makes for Serve, which may come to run late. *)

others == <<run, asked, device, reg>>

Listen ==
  /\ dpc = "listen"
  /\ \/ listener' = TRUE /\ bound' = TRUE /\ dpc' = "grace" /\ UNCHANGED <<derr, failures>>
     \/ CallFails /\ derr' = "err" /\ dpc' = "setStopped" /\ UNCHANGED <<listener, bound>>
  /\ UNCHANGED <<others, grpc, spawned, adapter>>

(* The signals are trapped and the goroutine is made that calls Serve. *)
spawnServe ==
  /\ dpc = "grace" /\ dpc' = "serve" /\ spawned' = TRUE
  /\ UNCHANGED <<others, derr, listener, bound, grpc, adapter, failures>>

Serve_LeavesSocket ==
  /\ spawned /\ spawned' = FALSE
  /\ IF grpc = "new" THEN grpc' = "serving" ELSE UNCHANGED grpc
  /\ UNCHANGED <<others, dpc, bound, derr, listener, adapter, failures>>

(* Serve on a server that was stopped before closes the socket and returns. *)
Serve ==
  /\ spawned /\ spawned' = FALSE
  /\ IF grpc = "new" THEN grpc' = "serving" /\ UNCHANGED bound
                     ELSE bound' = FALSE /\ UNCHANGED grpc
  /\ UNCHANGED <<others, dpc, derr, listener, adapter, failures>>

DaemonSelect ==
  /\ dpc = "serve" /\ (ctxDone \/ sig \/ (grpc = "stopped" /\ ~spawned))
  /\ dpc' = "shutdown"
  /\ UNCHANGED <<others, derr, listener, bound, grpc, spawned, adapter, failures>>

ServeFails ==
  /\ dpc = "serve" /\ grpc = "serving" /\ CallFails
  /\ dpc' = "setStopped" /\ derr' = "err" /\ bound' = FALSE
  /\ UNCHANGED <<others, listener, grpc, spawned, adapter>>

shutdown ==
  /\ dpc = "shutdown" /\ dpc' = "flush"
  /\ grpc' = "stopped" /\ bound' = (bound /\ grpc # "serving")
  /\ UNCHANGED <<others, derr, listener, spawned, adapter, failures>>

flushAudit ==
  /\ dpc = "flush" /\ dpc' = "setStopped" /\ derr' = "ok"
  /\ UNCHANGED <<others, listener, bound, grpc, spawned, adapter, failures>>

setStopped ==
  /\ dpc = "setStopped" /\ dpc' = "send" /\ started' = FALSE
  /\ UNCHANGED <<others, derr, listener, bound, grpc, spawned, chan, cleared, failures>>

sendDone ==
  /\ dpc = "send" /\ dpc' = "gone" /\ chan' = derr
  /\ UNCHANGED <<others, derr, listener, bound, grpc, spawned, cleared, started, failures>>

DaemonStep ==
  \/ Listen \/ spawnServe \/ Serve \/ DaemonSelect \/ ServeFails \/ shutdown \/ flushAudit
  \/ setStopped \/ sendDone

-----------------------------------------------------------------------------
(* A RegisterNode whose observer applies the node to the mesh listener; the
   handler outlives a forced stop of the server. *)

hkeep == <<run, asked, device, daemon, adapter>>

RegisterNode ==
  /\ reg = "idle" /\ grpc = "serving" /\ bound
  /\ reg' = "adding" /\ UNCHANGED <<hkeep, failures>>

AddMeshPeer ==
  /\ reg = "adding"
  /\ \/ reg' = (IF held THEN "routing" ELSE "refused") /\ UNCHANGED failures
     \/ held /\ CallFails /\ reg' = "idle"
  /\ UNCHANGED hkeep

RouteReplaceLinkWithSrc ==
  /\ reg = "routing" /\ reg' = "idle"
  /\ UNCHANGED failures \/ CallFails
  /\ UNCHANGED hkeep

-----------------------------------------------------------------------------
(* Requests to stop.  Only Daemon.Run traps SIGTERM, and only from its
   select on; otherwise the signal ends the process. *)

Cancel ==
  /\ rpc \notin {"returned", "killed"} /\ ~ctxDone
  /\ ctxDone' = TRUE
  /\ UNCHANGED <<run, sig, device, daemon, adapter, reg, failures>>

Signal ==
  /\ rpc \notin {"returned", "killed"} /\ ~sig
  /\ IF dpc \in {"serve", "shutdown", "flush"}
     THEN sig' = TRUE /\ UNCHANGED <<rpc, device, dpc, bound, spawned, reg>>
     ELSE /\ rpc' = "killed" /\ CloseListener /\ dpc' = "gone" /\ bound' = FALSE /\ spawned' = FALSE
          /\ reg' = "idle" /\ UNCHANGED sig
  /\ UNCHANGED <<ret, coord, links, selfReg, ctxDone, derr, listener, grpc, adapter, failures>>

MasterNext ==
  \/ RunStep \/ DaemonStep
  \/ RegisterNode \/ AddMeshPeer \/ RouteReplaceLinkWithSrc
  \/ Cancel \/ Signal

MasterSpec == MasterInit /\ [][MasterNext]_mvars

(* Every goroutine that can run is run by the scheduler, and the timer of
   waitUntilReady, once it has fired, is chosen by some later select. *)
MasterFairSpec ==
  MasterSpec /\ WF_mvars(RunStep) /\ WF_mvars(DaemonStep) /\ SF_mvars(awaitAborts)

-----------------------------------------------------------------------------
(* However Run ends, both WireGuard devices are gone, nothing refers to them
   and the adapter does not report a running coordination server: every error
   path of DualListener.Start, Run and waitUntilReady cleans up. *)
ClosedWhenReturned == rpc = "returned" => open = {} /\ ~held /\ ~started

(* No registration is refused for want of the mesh listener while the server
   still accepts others: the listener starts before the server, Close stops the
   server first, and Run gives up the listener early only after Serve failed. *)
RefusedOnlyAfterStop == reg = "refused" => ~(grpc = "serving" /\ bound)

(* Nodes can register only with a master that is already in its own registry
   and whose links are up, so the first peer list names it as an owner. *)
ServesOnlyWhenReady == grpc = "serving" => selfReg /\ links

(* Run returns nil only for a cancelled context.  A master that SIGTERM stops
   through its coordination daemon ends with an error. *)
CleanExitMeansCancelled == rpc = "returned" /\ ret = "ok" => ctxDone

(* A master that was asked to stop ends, however its goroutines interleave. *)
StopEnds == (ctxDone \/ sig) ~> rpc \in {"returned", "killed"}

(* After Run has returned, the coordination socket is released, also when Run
   gave up before the daemon had bound it. *)
SocketReleased == [](rpc = "returned" => <>~bound)

(* What Master.Run promises at every moment of its start, service and end: *)
(* it serves only when ready, refuses nobody while it serves, and returns  *)
(* with everything closed, with nil only for a cancelled context.          *)
MasterSafe ==
  /\ MasterTypeOK
  /\ ClosedWhenReturned /\ RefusedOnlyAfterStop
  /\ ServesOnlyWhenReady /\ CleanExitMeansCancelled

(* A master that was asked to stop ends, and its socket is released        *)
(* (Master.Run, Daemon.Run).                                               *)
MasterStops == StopEnds /\ SocketReleased
=============================================================================
