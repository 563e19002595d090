----------------------------- MODULE MCServices -----------------------------
(***************************************************************************)
(* The long-running services of a node: the master's run with its          *)
(* coordination server, the ingress proxy, the run of ingress and          *)
(* balancer, the DNS server and the control plane's audit log.             *)
(*                                                                         *)
(* They share no state. A behaviour runs one of them, named by part, and   *)
(* the others stay in an initial state, so that the state space is the sum *)
(* of theirs.                                                              *)
(***************************************************************************)
EXTENDS MasterRuntime, DnsServer, AuditLog, Ingress, TLC

VARIABLES
  part,
  kind, enabled, srv, runPc, result, errCh, closer, closeErr, isStarted,
  ctx, runCtx, early

Route(h, t, p) == [hostname |-> h, target |-> t, protocol |-> p]

(* Lists that move a host to another target or protocol, and one that names
   a host twice. *)
ThreeLists ==
  {<<Route("a", 1, "websocket"), Route("u", 1, "udp")>>,
   <<Route("u", 2, "udp"), Route("a", 1, "udp")>>,
   <<Route("a", 1, "http"), Route("a", 2, "websocket")>>}

(* Nodes whose names differ only in case or space, whose address is not IPv4,
   or that have no name. *)
ZoneMaps ==
  {("n1" :> "10.0.0.1") @@ ("n2" :> "10.0.0.2"),
   (" n1 " :> "10.0.0.2") @@ ("N1" :> "10.0.0.1"),
   ("n2" :> "10.0.0.1") @@ ("n3" :> "::1") @@ ("" :> "10.0.0.2")}

Service == INSTANCE ServiceRuntime WITH Kinds <- {"ingress", "balancer"}

svars == <<kind, enabled, srv, runPc, result, errCh, closer, closeErr,
           isStarted, ctx, runCtx, early>>
allVars == <<part, mvars, ivars, svars, dvars, avars>>

ServicesInit ==
  /\ part \in {"master", "ingress", "runtime", "dns", "audit"}
  /\ MasterInit /\ (part # "master" => coord)
  /\ IngressInit /\ (part # "ingress" => routes[1].hostname = "a")
  /\ Service!NewRuntime /\ (part # "runtime" => kind = "ingress" /\ enabled = {"http"})
  /\ DnsInit /\ (part # "dns" => DOMAIN aMap = {"n1", "n2"})
  /\ AuditInit

MasterStep ==
  part = "master" /\ MasterNext /\ UNCHANGED <<part, ivars, svars, dvars, avars>>
IngressStep ==
  part = "ingress" /\ IngressNext /\ UNCHANGED <<part, mvars, svars, dvars, avars>>
RuntimeStep ==
  part = "runtime" /\ Service!ServiceNext /\ UNCHANGED <<part, mvars, ivars, dvars, avars>>
DnsStep ==
  part = "dns" /\ DnsNext /\ UNCHANGED <<part, mvars, ivars, svars, avars>>
AuditStep ==
  part = "audit" /\ AuditNext /\ UNCHANGED <<part, mvars, ivars, svars, dvars>>

ServicesNext == MasterStep \/ IngressStep \/ RuntimeStep \/ DnsStep \/
  AuditStep

(* The fairness of each part's own specification. *)
Fairness ==
  /\ WF_mvars(part = "master" /\ RunStep)
  /\ WF_mvars(part = "master" /\ DaemonStep)
  /\ SF_mvars(part = "master" /\ awaitAborts)
  /\ \A c \in Conns : WF_ivars(part = "ingress" /\ handler(c))
  /\ WF_svars(part = "runtime" /\ Service!runSteps)
  /\ WF_svars(part = "runtime" /\ Service!serverSteps)
  /\ WF_svars(part = "runtime" /\ Service!closeSteps("run"))
  /\ WF_svars(part = "runtime" /\ Service!closeSteps("other"))

ServicesSpec == ServicesInit /\ [][ServicesNext]_allVars /\ Fairness

-----------------------------------------------------------------------------
(* The properties of the parts, under the names they have there; those of  *)
(* MasterRuntime, DnsServer, AuditLog and Ingress are inherited.           *)

(* The end of a runtime: Run returns, and then nothing of it is left       *)
(* running, unless a Close overlapped its start (Runtime.Run,              *)
(* Runtime.Close).                                                         *)
RuntimeEnds == Service!RuntimeEnds
=============================================================================
