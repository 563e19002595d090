--------------------------- MODULE MCControlPlane ---------------------------
(***************************************************************************)
(* Small deployments for module ControlPlane.                              *)
(***************************************************************************)
EXTENDS ControlPlane, TLC

CONSTANTS m1, m2, m3, c1, c2,  \* node names
          r1, r2,              \* regions
          k1, k2,              \* peer identities
          cert                 \* the certificate every node shows

Req(n, roles, region, key) ==
    [name |-> n, roles |-> roles, overlay |-> n, region |-> region,
     cert |-> cert, pubkey |-> key]

M1 == Req(m1, {"master"}, r1, k1)
M2 == Req(m2, {"master", "egress"}, r2, k1)
M3 == Req(m3, {"master"}, r2, Nil)
C1 == Req(c1, {"client"}, Nil, k1)
C2 == Req(c2, {"egress"}, Nil, Nil)

(* Two masters in two regions and a client. *)
TwoMasters == {M1, M2, C1}

(* Three masters, two of them in one region, and a client. *)
ThreeMasters == {M1, M2, M3, C1}

(* One master and two nodes to seed, one of them (c2) with an address that *)
(* may not be IPv4.  What a node sends may be wrong or collide with        *)
(* another node: a second name for an address, a second address for a      *)
(* name, a malformed role set, no certificate.                             *)
OneMaster ==
    {M1, C1, C2,
     [C1 EXCEPT !.overlay = m1],
     [C2 EXCEPT !.overlay = c1],
     [C2 EXCEPT !.roles = {"client", "egress"}],
     [M1 EXCEPT !.cert = Nil]}

(* The peers of an embedding master m1, which registers itself. *)
EmbeddedMaster ==
    {M2, C1, [C1 EXCEPT !.pubkey = k2], [C1 EXCEPT !.pubkey = Nil]}

HandlerSymmetry == Permutations(Handlers)
=============================================================================
