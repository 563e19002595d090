--------------------------- MODULE ServiceRuntime ---------------------------
(***************************************************************************)
(* Run and Close of the ingress and of the balancer runtime.  Run starts     *)
(* the configured servers and the health prober and waits for its context    *)
(* or for the first server to return; Close shuts the servers down one after *)
(* the other and may also be called by somebody else, at any time.           *)
(***************************************************************************)
EXTENDS Naturals, Sequences, FiniteSets

CONSTANTS Kinds  \* the runtimes: a subset of {"ingress", "balancer"}

VARIABLES
  kind, enabled,  \* which runtime this is, and which of its servers it has
  srv,            \* server -> "none", "made", "serving", "closed" or "ended"
  runPc,          \* where Run is
  result,         \* what Run returned
  errCh,          \* the servers' results, in the order they were sent
  closer,         \* closer -> servers it has still to shut down, or Off
  closeErr,       \* the closers that met an error
  isStarted, ctx, runCtx,
  early           \* history: a Close was under way while Run made its servers

svars == <<kind, enabled, srv, runPc, result, errCh, closer, closeErr, isStarted, ctx, runCtx, early>>

Servers == {"http", "http3", "metrics"}
Order == <<"http", "http3", "metrics">>
Off == <<"off">>
Live == {"made", "serving"}

(* The servers each runtime may have: HTTP/3 needs TLS, metrics an address. *)
ingressServers == {{"http"} \cup x : x \in SUBSET {"http3", "metrics"}}
balancerServers == SUBSET {"metrics"}

ServiceTypeOK ==
  /\ kind \in Kinds /\ enabled \in SUBSET Servers
  /\ srv \in [Servers -> {"none", "made", "serving", "closed", "ended"}]
  /\ runPc \in {"new", "select", "closing", "returned"}
  /\ result \in {"none", "nil", "error"}
  /\ \A i \in DOMAIN errCh : errCh[i] \in {"nil", "error"}
  /\ Len(errCh) <= Cardinality(enabled)
  /\ DOMAIN closer = {"run", "other"} /\ closeErr \subseteq {"run", "other"}
  /\ isStarted \in BOOLEAN /\ early \in BOOLEAN /\ ctx \in BOOLEAN /\ runCtx \in {"none", "live", "cancelled"}

NewRuntime ==
  /\ kind \in Kinds
  /\ enabled \in IF kind = "ingress" THEN ingressServers ELSE balancerServers
  /\ srv = [s \in Servers |-> "none"] /\ runPc = "new" /\ result = "none" /\ errCh = <<>>
  /\ closer = [w \in {"run", "other"} |-> Off] /\ closeErr = {}
  /\ isStarted = FALSE /\ early = FALSE /\ ctx = FALSE /\ runCtx = "none"

(* Run up to its select. *)
startServers ==
  /\ runPc = "new" /\ runPc' = "select"
  /\ srv' = [s \in Servers |-> IF s \in enabled THEN "made" ELSE "none"]
  /\ isStarted' = TRUE /\ early' = (closer["other"] # Off)
  /\ runCtx' = IF ctx THEN "cancelled" ELSE "live"
  /\ UNCHANGED <<kind, enabled, result, errCh, closer, closeErr, ctx>>

ingressRun == kind = "ingress" /\ startServers
balancerRun == kind = "balancer" /\ startServers

(* serveHTTP / ListenAndServe: bind, or fail to; ErrServerClosed becomes nil
   for the HTTP servers and stays an error for HTTP/3. *)
serve(s) ==
  /\ srv[s] = "made" /\ srv' = [srv EXCEPT ![s] = "serving"]
  /\ UNCHANGED <<kind, enabled, runPc, result, errCh, closer, closeErr, isStarted, ctx, runCtx, early>>

serveFails(s) ==
  /\ srv[s] \in Live /\ srv' = [srv EXCEPT ![s] = "ended"]
  /\ errCh' = Append(errCh, "error")
  /\ UNCHANGED <<kind, enabled, runPc, result, closer, closeErr, isStarted, ctx, runCtx, early>>

serveHTTP(s) ==
  /\ srv[s] = "closed" /\ srv' = [srv EXCEPT ![s] = "ended"]
  /\ errCh' = Append(errCh, IF s = "http3" THEN "error" ELSE "nil")
  /\ UNCHANGED <<kind, enabled, runPc, result, closer, closeErr, isStarted, ctx, runCtx, early>>

(* Close: one server per step; a server that is not there is passed over and
   an error does not keep the later ones from being shut down. *)
CloseBegins(w) == closer' = [closer EXCEPT ![w] = Order]

AfterShutdown_ReturnsError(w, failed) == IF failed THEN <<>> ELSE Tail(closer[w])

AfterShutdown(w, failed) == Tail(closer[w])

Shutdown(w) ==
  /\ closer[w] \notin {Off, <<>>}
  /\ LET s == Head(closer[w])
     IN \E failed \in IF srv[s] = "serving" THEN BOOLEAN ELSE {FALSE} :
          /\ srv' = IF srv[s] \in Live THEN [srv EXCEPT ![s] = "closed"] ELSE srv
          /\ closer' = [closer EXCEPT ![w] = AfterShutdown(w, failed)]
          /\ closeErr' = IF failed THEN closeErr \cup {w} ELSE closeErr
  /\ UNCHANGED <<kind, enabled, runPc, result, errCh, isStarted, ctx, runCtx, early>>

(* Run's select: the context ... *)
runCancelled ==
  /\ runPc = "select" /\ ctx
  /\ runPc' = "closing" /\ result' = "nil" /\ CloseBegins("run")
  /\ UNCHANGED <<kind, enabled, srv, errCh, closeErr, isStarted, ctx, runCtx, early>>

(* ... or the first result.  On nil somebody else is closing: just return. *)
OnNil == runPc' = "returned" /\ result' = "nil" /\ runCtx' = "cancelled"

runServerEnds ==
  /\ runPc = "select" /\ errCh # <<>>
  /\ errCh' = Tail(errCh)
  /\ \/ /\ Head(errCh) = "error"
        /\ runPc' = "closing" /\ result' = "error" /\ runCtx' = "cancelled"
        /\ CloseBegins("run")
     \/ Head(errCh) = "nil" /\ OnNil /\ UNCHANGED closer
  /\ UNCHANGED <<kind, enabled, srv, closeErr, isStarted, ctx, early>>

CloseEnds(w) ==
  /\ closer[w] = <<>> /\ closer' = [closer EXCEPT ![w] = Off]
  /\ isStarted' = FALSE
  /\ IF w = "run"
     THEN /\ runPc' = "returned" /\ runCtx' = "cancelled"
          /\ result' = IF w \in closeErr THEN "error" ELSE result
     ELSE UNCHANGED <<runPc, result, runCtx>>
  /\ UNCHANGED <<kind, enabled, srv, errCh, closeErr, ctx, early>>

ingressClose(w) == kind = "ingress" /\ (Shutdown(w) \/ CloseEnds(w))
balancerClose(w) == kind = "balancer" /\ (Shutdown(w) \/ CloseEnds(w))

OtherClose ==
  /\ closer["other"] = Off /\ "other" \notin closeErr /\ CloseBegins("other")
  /\ UNCHANGED <<kind, enabled, srv, runPc, result, errCh, closeErr, isStarted, ctx, runCtx, early>>

CancelContext ==
  /\ ~ctx /\ ctx' = TRUE
  /\ runCtx' = IF runCtx = "live" THEN "cancelled" ELSE runCtx
  /\ UNCHANGED <<kind, enabled, srv, runPc, result, errCh, closer, closeErr, isStarted, early>>

runSteps == ingressRun \/ balancerRun \/ runCancelled \/ runServerEnds
serverSteps == \E s \in Servers : serve(s) \/ serveHTTP(s)
closeSteps(w) == ingressClose(w) \/ balancerClose(w)

ServiceNext ==
  \/ runSteps \/ serverSteps \/ \E s \in Servers : serveFails(s)
  \/ \E w \in {"run", "other"} : closeSteps(w)
  \/ OtherClose \/ CancelContext

ServiceSpec == NewRuntime /\ [][ServiceNext]_svars

(* Goroutines run; Shutdown is bounded by its five-second context. *)
ServiceFairSpec ==
  /\ ServiceSpec /\ WF_svars(runSteps) /\ WF_svars(serverSteps)
  /\ WF_svars(closeSteps("run")) /\ WF_svars(closeSteps("other"))

-----------------------------------------------------------------------------
(* When Run has returned and no Close is under way, no server is left
   listening and the prober's context is cancelled, also when shutting one of
   the servers down failed or another caller closed the runtime.  A Close that
   overlaps Run's start is excepted: it passes over servers that are not made
   yet, Run returns nil when a later one is shut down, and the earlier ones
   stay up. *)
NothingLeftRunning ==
  ~early /\ runPc = "returned" /\ closer = [w \in {"run", "other"} |-> Off] =>
    /\ \A s \in Servers : srv[s] \notin Live
    /\ runCtx = "cancelled" /\ ~isStarted

(* Run does not stay behind: once its context is cancelled, or another caller's
   Close has brought a server down, it returns. *)
RunReturns ==
  /\ (runPc = "select" /\ ctx) ~> runPc = "returned"
  /\ (runPc = "select" /\ \E s \in Servers : srv[s] = "closed") ~> runPc = "returned"

(* The end of a runtime: Run returns, and then nothing of it is left       *)
(* running (Runtime.Run, Runtime.Close).                                   *)
RuntimeEnds ==
  /\ [](ServiceTypeOK /\ NothingLeftRunning)
  /\ RunReturns
=============================================================================
