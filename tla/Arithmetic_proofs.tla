------------------------- MODULE Arithmetic_proofs --------------------------
(***************************************************************************)
(* Proofs about modules Balancer and TopologyFile: the two whose arguments *)
(* rest on arithmetic (sums of weights and positions modulo their total;   *)
(* blocks of addresses, powers of two in size, and masking).  Induction    *)
(* over numbers is by a least counterexample (NatMin).                     *)
(*                                                                         *)
(* For any egress lists, labels, requests, calls of Select and             *)
(* replacements of the registry; for any width of addresses, any commands  *)
(* and files to start from, and any number of editors.                     *)
(***************************************************************************)
EXTENDS Balancer, TopologyFile, FiniteSetTheorems, TLAPS

USE ZenonT(60)

(* f numbers the elements of S from 1 to n. *)
Numbers(f, n, S) ==
  /\ n \in Nat /\ f \in [1..n -> S]
  /\ \A a, b \in 1..n : f[a] = f[b] => a = b
  /\ \A s \in S : \E a \in 1..n : f[a] = s

(* A set numbered from 1 to n has n elements. *)
LEMMA Counted ==
  ASSUME NEW S, NEW n, NEW f, Numbers(f, n, S)
  PROVE  Cardinality(S) = n
<1>1. f \in Bijection(1..n, S)
  BY DEF Bijection, Injection, Surjection, IsInjective, Numbers
<1>2. n \in Nat /\ ExistsBijection(1..n, S)
  BY <1>1 DEF ExistsBijection, Numbers
<1> QED BY <1>2, FS_CountingElements

(* Some number is the least of any that there are. *)
LEMMA NatMin ==
  ASSUME NEW T, T \subseteq Nat, T # {}
  PROVE  \E x \in T : \A y \in T : x <= y
<1> DEFINE R == OpToRel(<, Nat)
<1>1. \E x \in T : \A y \in T : ~ (<<y, x>> \in R)
  <2>1. IsWellFoundedOn(R, Nat)
    BY NatLessThanWellFounded
  <2> HIDE DEF R
  <2> QED BY <2>1, WFMin
<1>2. \A x, y \in Nat : x < y => <<x, y>> \in R
  BY SMTT(30) DEF OpToRel
<1> HIDE DEF R
<1>3. PICK x \in T : \A y \in T : ~ (<<y, x>> \in R)
  BY <1>1
<1>4. \A y \in T : ~(y < x)
  BY <1>2, <1>3
<1> QED BY <1>4, SMTT(30)

(* f adds up the first numbers of w. *)
Sums(f, w, n) == f \in [0..n -> Int] /\ f[0] = 0 /\ \A i \in 1..n : f[i] = f[i - 1] + w[i]

(* The partial sums of any list exist. *)
LEMMA SumsExist ==
  ASSUME NEW n \in Nat, NEW w, \A i \in 1..n : w[i] \in Int
  PROVE  \E f : Sums(f, w, n)
<1> DEFINE T == {m \in 0..n : ~\E f : Sums(f, w, m)}
<1>1. CASE T = {}
  BY <1>1, SMTT(30)
<1>2. CASE T # {}
  <2>1. PICK x \in T : \A y \in T : x <= y
    <3>1. T \subseteq Nat
      BY SMTT(30)
    <3> HIDE DEF T
    <3> QED BY <1>2, <3>1, NatMin
  <2>2. CASE x = 0
    <3>1. Sums([i \in 0..0 |-> 0], w, 0)
      BY SMTT(30) DEF Sums
    <3> QED BY <3>1, <2>2
  <2>3. CASE x # 0
    <3>1. x - 1 \in 0..n /\ x - 1 \notin T /\ x \in 1..n
      BY <2>1, <2>3, SMTT(30)
    <3>2. PICK f : Sums(f, w, x - 1)
      BY <3>1
    <3> DEFINE g == [i \in 0..x |-> IF i = x THEN f[x - 1] + w[x] ELSE f[i]]
    <3>3. Sums(g, w, x)
      BY <3>1, <3>2, SMTT(30) DEF Sums
    <3> QED BY <3>3
  <2> QED BY <2>2, <2>3
<1> QED BY <1>1, <1>2

(* A list of egress records. *)
List(es) == es \in Seq(Egresses)

(* WeightUpTo is the sum it says. *)
LEMMA WeightSums ==
  ASSUME NEW es, List(es)
  PROVE  LET s == WeightUpTo(es) IN
         /\ s \in [0..Len(es) -> Int] /\ s[0] = 0
         /\ \A i \in 1..Len(es) : s[i] = s[i - 1] + es[i].weight
<1> DEFINE w == [i \in 1..Len(es) |-> es[i].weight]
           n == Len(es)
<1>1. n \in Nat /\ \A i \in 1..n : w[i] \in Int /\ w[i] = es[i].weight
  BY BalancerAssumption, SMTT(30) DEF List
<1>2. PICK f : Sums(f, w, n)
  <2> HIDE DEF w, n
  <2> QED BY <1>1, SumsExist
<1>3. f = [i \in 0..n |-> IF i = 0 THEN 0 ELSE f[i - 1] + es[i].weight]
  BY <1>1, <1>2, SMTT(30) DEF Sums
<1>4. WeightUpTo(es) = [i \in 0..n |-> IF i = 0 THEN 0 ELSE WeightUpTo(es)[i - 1] + es[i].weight]
  BY <1>3 DEF WeightUpTo
<1>5. n \in Nat /\ \A i \in 1..n : es[i].weight \in Int
  BY <1>1
<1> DEFINE s == WeightUpTo(es)
<1>6. s = [i \in 0..n |-> IF i = 0 THEN 0 ELSE s[i - 1] + es[i].weight]
  BY <1>4
<1> HIDE DEF s, n, w
<1> DEFINE T == {i \in 0..n : s[i] \notin Int}
<1>7. ASSUME T # {} PROVE FALSE
  <2>1. T \subseteq Nat
    BY <1>5, SMTT(30)
  <2>2. PICK x \in T : \A y \in T : x <= y
    <3> HIDE DEF T
    <3> QED BY <1>7, <2>1, NatMin
  <2>3. x \in 1..n /\ x - 1 \in 0..n
    BY <1>5, <1>6, <2>2, SMTT(30)
  <2>4. s[x - 1] \in Int
    BY <2>2, <2>3, SMTT(30)
  <2>5. s[x] = s[x - 1] + es[x].weight
    BY <1>5, <1>6, <2>3, SMTT(30)
  <2> QED BY <1>5, <2>2, <2>3, <2>4, <2>5, SMTT(30)
<1>8. s \in [0..n -> Int]
  BY <1>6, <1>7
<1>9. s[0] = 0 /\ \A i \in 1..n : s[i] = s[i - 1] + es[i].weight
  BY <1>5, <1>6, SMTT(30)
<1> QED BY <1>8, <1>9 DEF s, n

(* The sums only grow when no weight is negative. *)
LEMMA SumsGrow ==
  ASSUME NEW n \in Nat, NEW s \in [0..n -> Int], \A i \in 1..n : s[i] > s[i - 1]
  PROVE  \A i \in 0..n : \A j \in i..n : s[i] <= s[j]
<1> TAKE i \in 0..n
<1> DEFINE T == {j \in i..n : ~(s[i] <= s[j])}
<1>1. ASSUME T # {} PROVE FALSE
  <2>1. T \subseteq Nat
    BY SMTT(30)
  <2>2. PICK x \in T : \A y \in T : x <= y
    <3> HIDE DEF T
    <3> QED BY <1>1, <2>1, NatMin
  <2>3. x \in 1..n /\ x - 1 \in i..n
    BY <2>2, SMTT(30)
  <2>4. s[i] <= s[x - 1]
    BY <2>2, <2>3, SMTT(30)
  <2> QED BY <2>2, <2>3, <2>4, SMTT(30)
<1> QED BY <1>1

(* An accepted list has egresses with positive weights; their sums grow. *)
LEMMA WeightsGrow ==
  ASSUME NEW es, List(es), normalizeEgresses(es)
  PROVE  LET s == WeightUpTo(es) IN
         /\ Len(es) \in Nat /\ Len(es) > 0 /\ DOMAIN es = 1..Len(es)
         /\ s \in [0..Len(es) -> Int] /\ s[0] = 0
         /\ \A i \in 1..Len(es) : s[i] = s[i - 1] + es[i].weight /\ es[i].weight \in Int /\ es[i].weight > 0
         /\ \A i \in 0..Len(es) : \A j \in i..Len(es) : s[i] <= s[j]
<1> DEFINE s == WeightUpTo(es)
           n == Len(es)
<1>1. n \in Nat /\ DOMAIN es = 1..n /\ \A i \in 1..n : es[i].weight \in Int
  BY BalancerAssumption, SMTT(30) DEF List
<1>2. n > 0 /\ \A i \in 1..n : es[i].weight > 0
  BY <1>1, SMTT(30) DEF normalizeEgresses, List
<1>3. s \in [0..n -> Int] /\ s[0] = 0 /\ \A i \in 1..n : s[i] = s[i - 1] + es[i].weight
  BY WeightSums
<1> HIDE DEF s, n
<1>4. \A i \in 1..n : s[i] > s[i - 1]
  BY <1>1, <1>2, <1>3, SMTT(30)
<1>5. \A i \in 0..n : \A j \in i..n : s[i] <= s[j]
  BY <1>1, <1>3, <1>4, SumsGrow
<1> QED BY <1>1, <1>2, <1>3, <1>5 DEF s, n

(* Which part of the weighted list belongs to which egress (NewSnapshot): *)
(* the parts follow each other, as long as the weights, and cover it.      *)
LEMMA WeightedParts ==
  ASSUME NEW es, List(es), normalizeEgresses(es)
  PROVE  LET s == WeightUpTo(es)
             wl == Weighted(es) IN
         /\ Len(wl) \in Nat /\ Len(wl) > 0 /\ Len(wl) = s[Len(es)]
         /\ \A m \in 1..Len(wl) : \E i \in DOMAIN es : wl[m] = es[i] /\ s[i - 1] < m /\ m <= s[i]
         /\ \A i \in DOMAIN es : 0 <= s[i - 1] /\ s[i] <= Len(wl)
         /\ \A i \in DOMAIN es : \A m \in (s[i - 1] + 1)..s[i] : wl[m] = es[i]
<1> DEFINE s == WeightUpTo(es)
           n == Len(es)
           wl == Weighted(es)
           Pick(m) == CHOOSE i \in DOMAIN es : s[i - 1] < m /\ m <= s[i]
<1>1. /\ n \in Nat /\ n > 0 /\ DOMAIN es = 1..n
      /\ s \in [0..n -> Int] /\ s[0] = 0
      /\ \A i \in 1..n : s[i] = s[i - 1] + es[i].weight /\ es[i].weight \in Int /\ es[i].weight > 0
      /\ \A i \in 0..n : \A j \in i..n : s[i] <= s[j]
  BY WeightsGrow
<1>2. wl = [m \in 1..s[n] |-> es[Pick(m)]]
  BY DEF Weighted
<1> HIDE DEF s, n, wl, Pick
<1>3. s[n] \in Nat /\ s[n] > 0
  BY <1>1, SMTT(30)
<1>4. Len(wl) = s[n]
  BY <1>2, <1>3, SMTT(30)
<1>5. ASSUME NEW m \in 1..s[n] PROVE \E i \in 1..n : s[i - 1] < m /\ m <= s[i]
  <2> DEFINE T == {i \in 1..n : m <= s[i]}
  <2>1. T \subseteq Nat /\ n \in T
    BY <1>1, <1>3, SMTT(30)
  <2>2. PICK x \in T : \A y \in T : x <= y
    <3> HIDE DEF T
    <3> QED BY <2>1, NatMin
  <2>3. x - 1 \notin T
    BY <2>1, <2>2, SMTT(30)
  <2> QED BY <1>1, <1>3, <2>2, <2>3, SMTT(30)
<1>6. \A m \in 1..s[n] : Pick(m) \in 1..n /\ s[Pick(m) - 1] < m /\ m <= s[Pick(m)]
  BY <1>1, <1>5 DEF Pick
<1>7. \A i \in 1..n : 0 <= s[i - 1] /\ s[i] <= s[n] /\ i - 1 \in 0..n
  BY <1>1, SMTT(30)
<1>8. ASSUME NEW i \in 1..n, NEW m \in (s[i - 1] + 1)..s[i] PROVE wl[m] = es[i]
  <2>1. m \in 1..s[n] /\ s[i - 1] < m /\ m <= s[i]
    BY <1>1, <1>3, <1>7, SMTT(30)
  <2>2. PICK j \in 1..n : j = Pick(m) /\ s[j - 1] < m /\ m <= s[j]
    BY <1>6, <2>1
  <2>3. ~(i <= j - 1)
    <3>1. i <= j - 1 => s[i] <= s[j - 1]
      BY <1>1, SMTT(30)
    <3>2. s[i] \in Int /\ s[j] \in Int /\ s[i - 1] \in Int /\ s[j - 1] \in Int /\ m \in Int
      BY <1>1, <1>7, SMTT(30)
    <3> QED BY <2>1, <2>2, <3>1, <3>2, SMTT(30)
  <2>4. ~(j <= i - 1)
    <3>1. j <= i - 1 => s[j] <= s[i - 1]
      BY <1>1, SMTT(30)
    <3>2. s[i] \in Int /\ s[j] \in Int /\ s[i - 1] \in Int /\ s[j - 1] \in Int /\ m \in Int
      BY <1>1, <1>7, SMTT(30)
    <3> QED BY <2>1, <2>2, <3>1, <3>2, SMTT(30)
  <2>5. i = j
    BY <2>3, <2>4, <1>1, SMTT(30)
  <2> QED BY <1>2, <2>1, <2>2, <2>5
<1>9. \A m \in 1..s[n] : wl[m] = es[Pick(m)]
  BY <1>2
<1> QED BY <1>1, <1>3, <1>4, <1>6, <1>7, <1>8, <1>9 DEF s, n, wl

-----------------------------------------------------------------------------
(* The position in a weighted list of length t that the cursor points to,  *)
(* the one after position p and the one d places before it, around the end *)
(* of the list.                                                            *)
Pos(c, t) == (c % t) + 1
After(p, t) == IF p = t THEN 1 ELSE p + 1
Back(p, d, t) == IF p - d >= 1 THEN p - d ELSE p - d + t

(* What the call under way holds: a list the registry had when it began,   *)
(* whose egresses include all steady ones; its flow has no entry any more  *)
(* once the sticky target is given up.                                     *)
CallInv ==
  selPc # "idle" =>
    /\ sel.snapshot \in EgressLists /\ normalizeEgresses(sel.snapshot)
    /\ sel.now \in 0..MaxNow /\ sel.req \in Requests
    /\ steady \subseteq Targets(sel.snapshot) /\ \A e \in steady : IsHealthy(e)
    /\ Targets(sel.snapshot) \subseteq seen
    /\ selPc \in {"label", "dumb"} => sel.req.flow \notin DOMAIN flowEntries

(* The candidates tried so far are the last ones before the cursor, and    *)
(* none of them is steady.                                                 *)
TriedInv ==
  selPc = "dumb" =>
    \A d \in 1..tried : Weighted(sel.snapshot)[Back(Pos(cursor, Turns), d, Turns)] \notin steady

(* The choices since the last disturbance are those before the cursor.     *)
RecentInv ==
  /\ recent \in Seq(Ids) /\ Len(recent) <= Len(Weighted(current))
  /\ \A k \in 1..Len(recent) :
       recent[k] = Weighted(current)[Back(Pos(cursor, Len(Weighted(current))), Len(recent) + 1 - k,
                                          Len(Weighted(current)))].id

SelectInv ==
  /\ BalancerTypeOK
  /\ cursor \in Nat /\ probing \in Seq(Egresses) /\ (selPc # "dumb" => tried = 0)
  /\ CallInv /\ TriedInv /\ RecentInv
  /\ NoFalseOutage /\ DecisionWasCurrent /\ LabelHonoured

-----------------------------------------------------------------------------
(* Quotient and remainder are unique. *)
LEMMA DivUnique ==
  ASSUME NEW t \in Nat, t > 0, NEW p \in Int, NEW q \in Int, NEW r \in 0..(t - 1), NEW s \in 0..(t - 1),
         t * p + r = t * q + s
  PROVE  r = s
<1>1. p = q
  BY SMTT(30)
<1> QED BY <1>1, SMTT(30)

(* The cursor goes round the weighted list. *)
LEMMA PosNext ==
  ASSUME NEW c \in Nat, NEW t \in Nat, t > 0
  PROVE  /\ Pos(c, t) \in 1..t
         /\ Pos(c + 1, t) = After(Pos(c, t), t)
<1>1. c % t \in 0..(t - 1)
  BY SMTT(30)
<1>2. (c + 1) % t = IF c % t = t - 1 THEN 0 ELSE (c % t) + 1
  <2> DEFINE q == c \div t
             r == c % t
             q2 == (c + 1) \div t
             r2 == (c + 1) % t
  <2>1. q \in Int /\ c = t * q + r /\ r \in 0..(t - 1)
    BY SMTT(30)
  <2>2. q2 \in Int /\ c + 1 = t * q2 + r2 /\ r2 \in 0..(t - 1)
    BY SMTT(30)
  <2> HIDE DEF q, r, q2, r2
  <2>3. CASE r = t - 1
    <3>1. t * (q + 1) + 0 = t * q2 + r2 /\ q + 1 \in Int /\ 0 \in 0..(t - 1)
      BY <2>1, <2>2, <2>3, SMTT(30)
    <3>2. 0 = r2
      BY <2>2, <3>1, DivUnique
    <3> QED BY <2>3, <3>2 DEF r, r2
  <2>4. CASE r # t - 1
    <3>1. t * q + (r + 1) = t * q2 + r2 /\ r + 1 \in 0..(t - 1)
      BY <2>1, <2>2, <2>4, SMTT(30)
    <3>2. r + 1 = r2
      BY <2>1, <2>2, <3>1, DivUnique
    <3> QED BY <2>4, <3>2 DEF r, r2
  <2> QED BY <2>3, <2>4
<1> QED BY <1>1, <1>2, SMTT(30) DEF Pos, After

(* Going one place on, every earlier position is one place further back. *)
LEMMA BackNext ==
  ASSUME NEW t \in Nat, NEW p \in 1..t
  PROVE  /\ \A d \in 1..t : Back(p, d, t) \in 1..t
         /\ Back(After(p, t), 1, t) = p
         /\ \A d \in 1..(t - 1) : Back(After(p, t), d + 1, t) = Back(p, d, t)
  BY SMTT(30) DEF Back, After

(* One turn back from any position meets every position. *)
LEMMA TurnCovers ==
  ASSUME NEW t \in Nat, NEW p \in 1..t, NEW s \in 1..t
  PROVE  \E d \in 1..t : Back(p, d, t) = s
<1> DEFINE d == IF s < p THEN p - s ELSE p - s + t
<1>1. d \in 1..t /\ Back(p, d, t) = s
  BY SMTT(30) DEF Back
<1> QED BY <1>1

(* The choice of a full turn that took position m. *)
Turn(m, p, t) == IF m < p THEN m - p + t + 1 ELSE m - p + 1

(* Choices of a full turn and positions correspond. *)
LEMMA TurnMatches ==
  ASSUME NEW t \in Nat, NEW p \in 1..t
  PROVE  /\ \A m \in 1..t : Turn(m, p, t) \in 1..t /\ Back(p, t + 1 - Turn(m, p, t), t) = m
         /\ \A k \in 1..t : Back(p, t + 1 - k, t) \in 1..t /\ Turn(Back(p, t + 1 - k, t), p, t) = k
  BY SMTT(30) DEF Back, Turn

(* The choices before the cursor, a turn of them, are a fair share. *)
LEMMA RecentIsFair ==
  ASSUME BalancerTypeOK, cursor \in Nat, RecentInv
  PROVE  RoundRobinFair
<1> SUFFICES ASSUME Len(recent) = Len(Weighted(current)), NEW i \in DOMAIN current
             PROVE  Cardinality({k \in DOMAIN recent : recent[k] = current[i].id}) = current[i].weight
  BY SMTT(30) DEF RoundRobinFair
<1> DEFINE s == WeightUpTo(current)
           wl == Weighted(current)
           t == Len(wl)
           p == Pos(cursor, t)
           S == {k \in DOMAIN recent : recent[k] = current[i].id}
           w == current[i].weight
           a == s[i - 1]
           f == [j \in 1..w |-> Turn(a + j, p, t)]
<1>1. List(current) /\ normalizeEgresses(current)
  BY BalancerAssumption DEF BalancerTypeOK, List
<1>2. /\ t \in Nat /\ t > 0
      /\ \A m \in 1..t : \E j \in DOMAIN current : wl[m] = current[j] /\ s[j - 1] < m /\ m <= s[j]
      /\ 0 <= a /\ s[i] <= t
      /\ \A m \in (a + 1)..s[i] : wl[m] = current[i]
  BY <1>1, WeightedParts
<1>3. w \in Nat /\ a \in Int /\ s[i] = a + w
  <2>1. s[i] = a + w /\ w \in Int /\ w > 0 /\ s \in [0..Len(current) -> Int] /\ i \in 1..Len(current) /\ Len(current) \in Nat
    BY <1>1, WeightsGrow
  <2> HIDE DEF s
  <2> QED BY <2>1, SMTT(30)
<1>4. p \in 1..t
  BY <1>2, PosNext
<1>5. DOMAIN recent = 1..t /\ \A k \in 1..t : recent[k] = wl[Back(p, t + 1 - k, t)].id
  BY <1>2, SMTT(30) DEF RecentInv
<1> HIDE DEF s, wl, t, p, a, w
<1>6. /\ \A m \in 1..t : Turn(m, p, t) \in 1..t /\ Back(p, t + 1 - Turn(m, p, t), t) = m
      /\ \A k \in 1..t : Back(p, t + 1 - k, t) \in 1..t /\ Turn(Back(p, t + 1 - k, t), p, t) = k
  BY <1>2, <1>4, TurnMatches
<1>7. \A j \in 1..w : a + j \in 1..t /\ a + j \in (a + 1)..s[i]
  BY <1>2, <1>3, SMTT(30)
<1>8. f \in [1..w -> S]
  <2>1. ASSUME NEW j \in 1..w PROVE Turn(a + j, p, t) \in S
    <3>1. Turn(a + j, p, t) \in 1..t /\ Back(p, t + 1 - Turn(a + j, p, t), t) = a + j
      BY <1>6, <1>7
    <3>2. recent[Turn(a + j, p, t)] = wl[a + j].id
      BY <1>5, <3>1
    <3>3. wl[a + j] = current[i]
      BY <1>2, <1>7
    <3> QED BY <1>5, <3>1, <3>2, <3>3
  <2> QED BY <2>1
<1>9. ASSUME NEW b \in 1..w, NEW c \in 1..w, f[b] = f[c] PROVE b = c
  <2>1. a + b = a + c
    BY <1>6, <1>7, <1>9
  <2> QED BY <1>3, <2>1, SMTT(30)
<1>10. ASSUME NEW k \in S PROVE \E j \in 1..w : f[j] = k
  <2>1. k \in 1..t /\ recent[k] = current[i].id
    BY <1>5
  <2>2. PICK m \in 1..t : m = Back(p, t + 1 - k, t) /\ Turn(m, p, t) = k
    BY <1>6, <2>1
  <2>3. PICK j \in DOMAIN current : wl[m] = current[j] /\ s[j - 1] < m /\ m <= s[j]
    BY <1>2
  <2>4. current[j].id = current[i].id
    BY <1>5, <2>1, <2>2, <2>3
  <2>5. j = i
    BY <1>1, <2>4 DEF normalizeEgresses
  <2>6. a < m /\ m <= s[i]
    BY <2>3, <2>5 DEF a
  <2>7. m - a \in 1..w /\ a + (m - a) = m
    BY <1>2, <1>3, <2>6, SMTT(30)
  <2> QED BY <2>2, <2>7
<1> HIDE DEF f, S
<1>11. \A b, c \in 1..w : f[b] = f[c] => b = c
  BY <1>9
<1>12. \A k \in S : \E j \in 1..w : f[j] = k
  BY <1>10
<1>13. Numbers(f, w, S)
  BY <1>3, <1>8, <1>11, <1>12 DEF Numbers
<1>14. Cardinality(S) = w
  BY <1>13, Counted
<1> QED BY <1>14 DEF S, w

-----------------------------------------------------------------------------
(* The entries of the flow table are for flows, name egresses and expire.  *)
FlowsTyped ==
  /\ DOMAIN flowEntries \subseteq FlowKeys
  /\ \A f \in DOMAIN flowEntries :
       flowEntries[f].egressID \in Ids /\ flowEntries[f].expiresAt \in 0..(MaxNow + FlowIdle)

(* What BalancerTypeOK says beside that. *)
RestTyped ==
  /\ lbMode \in Modes /\ labelMap \in LabelMaps
  /\ current \in EgressLists /\ normalizeEgresses(current)
  /\ status \in [Ids -> {"unknown", "up", "down"}]
  /\ clock \in 0..MaxNow /\ selects \in 0..MaxSelects /\ replaces \in 0..MaxReplaces
  /\ cursor \in Nat /\ probing \in Seq(Egresses)

(* The program counter, the kind of the last decision, the candidates tried. *)
StepTyped ==
  /\ selPc \in {"idle", "sticky", "label", "dumb"}
  /\ decided \in {"none", "sticky", "label", "dumb", "error"}
  /\ selPc = "dumb" => tried \in 0..Len(Weighted(sel.snapshot))
  /\ selPc # "dumb" => tried = 0

(* SelectInv in these parts. *)
LEMMA SelectParts ==
  SelectInv <=>
    /\ FlowsTyped /\ RestTyped /\ StepTyped /\ CallInv /\ TriedInv /\ RecentInv
    /\ NoFalseOutage /\ DecisionWasCurrent /\ LabelHonoured
  BY DEF SelectInv, BalancerTypeOK, FlowsTyped, RestTyped, StepTyped

(* And after a step. *)
LEMMA SelectPartsAfter ==
  ASSUME FlowsTyped', RestTyped', StepTyped', CallInv', TriedInv', RecentInv',
         NoFalseOutage', DecisionWasCurrent', LabelHonoured'
  PROVE  SelectInv'
  BY DEF SelectInv, BalancerTypeOK, FlowsTyped, RestTyped, StepTyped

(* Egresses of a configured list have one of the ids. *)
LEMMA ListsHaveIds ==
  ASSUME NEW es \in EgressLists
  PROVE  /\ List(es) /\ Len(es) \in Nat /\ DOMAIN es = 1..Len(es)
         /\ \A e \in Targets(es) : e \in Egresses /\ e.id \in Ids
         /\ \A id : Found(es, id) \subseteq Targets(es) /\ \A e \in Found(es, id) : e.id = id
<1>1. List(es) /\ es \in Seq(Egresses)
  BY BalancerAssumption DEF List
<1>2. Len(es) \in Nat /\ DOMAIN es = 1..Len(es) /\ \A i \in DOMAIN es : es[i] \in Egresses
  BY <1>1, SMTT(30)
<1> QED BY <1>1, <1>2 DEF Targets, Found, Ids

(* A decision that was recorded: the call is over, the flow is bound to    *)
(* the target and no other flow is touched (recordDecisionLocked).         *)
LEMMA Recorded ==
  ASSUME SelectInv, selPc # "idle", NEW e \in Targets(sel.snapshot), NEW kind,
         recordDecisionLocked(e, kind)
  PROVE  /\ FlowsTyped' /\ selPc' = "idle" /\ tried' = 0 /\ decided' = kind /\ chosen' = e
         /\ \A f \in DOMAIN flowEntries :
              f \in DOMAIN flowEntries' /\ (f # sel.req.flow => flowEntries'[f] = flowEntries[f])
         /\ sel.req.flow \in DOMAIN flowEntries => flowEntries'[sel.req.flow].egressID = e.id
<1> DEFINE entry == [egressID |-> e.id, expiresAt |-> sel.now + FlowIdle]
           flow == sel.req.flow
<1>1. FlowsTyped /\ sel.snapshot \in EgressLists /\ sel.now \in 0..MaxNow /\ sel.req \in Requests
  BY SelectParts DEF CallInv
<1>2. e.id \in Ids
  BY <1>1, ListsHaveIds
<1>3. entry.egressID = e.id /\ entry.egressID \in Ids /\ entry.expiresAt \in 0..(MaxNow + FlowIdle)
  <2>1. entry.egressID = e.id /\ entry.expiresAt = sel.now + FlowIdle
    BY SMTT(30)
  <2> QED BY <1>1, <1>2, <2>1, BalancerAssumption, SMTT(30)
<1>4. /\ selPc' = "idle" /\ tried' = 0 /\ decided' = kind /\ chosen' = e
      /\ flowEntries' = IF flow = Empty THEN flowEntries
           ELSE [f \in DOMAIN flowEntries \cup {flow} |-> IF f = flow THEN entry ELSE flowEntries[f]]
  BY DEF recordDecisionLocked, Return
<1>5. flow # Empty => flow \in FlowKeys
  BY <1>1 DEF FlowKeys
<1>6. Empty \notin FlowKeys
  BY DEF FlowKeys
<1> HIDE DEF entry, flow
<1>7. CASE flow = Empty
  BY <1>1, <1>4, <1>6, <1>7 DEF FlowsTyped, flow
<1>8. CASE flow # Empty
  <2>1. DOMAIN flowEntries' = DOMAIN flowEntries \cup {flow}
    BY <1>4, <1>8
  <2>2. \A f \in DOMAIN flowEntries' : flowEntries'[f] = IF f = flow THEN entry ELSE flowEntries[f]
    BY <1>4, <1>8
  <2>3. FlowsTyped'
    BY <1>1, <1>3, <1>5, <1>8, <2>1, <2>2 DEF FlowsTyped
  <2> QED BY <1>3, <1>4, <2>1, <2>2, <2>3 DEF flow
<1> QED BY <1>7, <1>8

(* A recorded decision keeps the invariant, whichever step makes it.       *)
LEMMA DecisionKeeps ==
  ASSUME SelectInv, selPc # "idle", NEW e \in Targets(sel.snapshot),
         NEW kind \in {"sticky", "label", "dumb"}, recordDecisionLocked(e, kind),
         RestTyped', RecentInv', UNCHANGED <<steady, seen>>
  PROVE  SelectInv'
<1>1. FlowsTyped' /\ selPc' = "idle" /\ tried' = 0 /\ decided' = kind /\ chosen' = e
  BY Recorded
<1>2. StepTyped'
  BY <1>1 DEF StepTyped
<1>3. CallInv' /\ TriedInv' /\ LabelHonoured'
  BY <1>1 DEF CallInv, TriedInv, LabelHonoured
<1>4. NoFalseOutage'
  BY <1>1 DEF NoFalseOutage
<1>5. DecisionWasCurrent'
  BY <1>1, SelectParts DEF CallInv, DecisionWasCurrent
<1> QED BY <1>1, <1>2, <1>3, <1>4, <1>5, SelectPartsAfter

(* What is known of the choices stays known while the registry, the cursor *)
(* and the choices stay.                                                   *)
LEMMA RecentStays ==
  ASSUME RecentInv, UNCHANGED <<current, cursor, recent>>
  PROVE  RecentInv'
  BY DEF RecentInv

(* Nothing was chosen yet. *)
LEMMA RecentEmpty ==
  ASSUME RestTyped, recent = <<>>
  PROVE  RecentInv
<1>1. Len(Weighted(current)) \in Nat
  BY ListsHaveIds, WeightedParts DEF RestTyped
<1> QED BY <1>1, SMTT(30) DEF RecentInv

(* And after a step. *)
LEMMA RecentEmptyAfter ==
  ASSUME RestTyped', recent' = <<>>
  PROVE  RecentInv'
<1>1. Len(Weighted(current')) \in Nat
  BY ListsHaveIds, WeightedParts DEF RestTyped
<1> QED BY <1>1, SMTT(30) DEF RecentInv

(* Engine.Select begins: it takes a snapshot and expires flows.            *)
LEMMA SelectKeeps ==
  ASSUME SelectInv, NEW req \in Requests, Select(req)
  PROVE  SelectInv' /\ KeepsFlows
<1>1. /\ FlowsTyped /\ RestTyped /\ StepTyped /\ CallInv /\ TriedInv /\ RecentInv
      /\ NoFalseOutage /\ DecisionWasCurrent /\ LabelHonoured
  BY SelectParts
<1>2. /\ UNCHANGED <<lbMode, labelMap, current, status, probing, cursor, clock, replaces, recent, tried>>
      /\ selPc = "idle" /\ selPc' = "sticky" /\ decided' = "none"
      /\ steady' = {e \in Targets(current) : IsHealthy(e)} /\ seen' = Targets(current)
      /\ flowEntries' = [f \in expireFlowsLocked |-> flowEntries[f]]
  BY DEF Select, config
<1>3. sel'.req = req /\ sel'.snapshot = current /\ sel'.now = clock
  BY SMTT(30) DEF Select
<1>4. DOMAIN flowEntries' = expireFlowsLocked /\ \A f \in expireFlowsLocked : flowEntries'[f] = flowEntries[f]
  BY <1>2
<1>5. FlowsTyped'
  BY <1>1, <1>4 DEF FlowsTyped, expireFlowsLocked
<1>6. selects' \in 0..MaxSelects
  BY <1>1, BalancerAssumption, SMTT(30) DEF Select, RestTyped
<1>7. RestTyped'
  BY <1>1, <1>2, <1>6 DEF RestTyped
<1>8. StepTyped'
  BY <1>1, <1>2 DEF StepTyped
<1>9. CallInv'
  BY <1>1, <1>2, <1>3 DEF CallInv, RestTyped, IsHealthy
<1>10. TriedInv' /\ LabelHonoured' /\ NoFalseOutage' /\ DecisionWasCurrent'
  BY <1>2 DEF TriedInv, LabelHonoured, NoFalseOutage, DecisionWasCurrent
<1>11. RecentInv'
  BY <1>1, <1>2, RecentStays
<1>12. KeepsFlows
  <2>1. ASSUME NEW f \in DOMAIN flowEntries, f \notin expireFlowsLocked
        PROVE  clock >= flowEntries[f].expiresAt
    BY <1>1, <2>1, SMTT(30) DEF expireFlowsLocked, RestTyped, FlowsTyped
  <2> QED BY <1>4, <2>1 DEF KeepsFlows
<1> QED BY <1>5, <1>7, <1>8, <1>9, <1>10, <1>11, <1>12, SelectPartsAfter

(* The sticky target is taken when it is there and healthy; otherwise the  *)
(* flow's entry is dropped.                                                *)
LEMMA StickyKeeps ==
  ASSUME SelectInv, selectSticky
  PROVE  SelectInv' /\ KeepsFlows
<1>1. /\ FlowsTyped /\ RestTyped /\ StepTyped /\ CallInv /\ TriedInv /\ RecentInv
      /\ NoFalseOutage /\ DecisionWasCurrent /\ LabelHonoured
  BY SelectParts
<1>2. /\ UNCHANGED <<lbMode, labelMap, current, status, probing, cursor, clock, replaces, recent, selects, steady, seen>>
      /\ selPc = "sticky"
  BY DEF selectSticky, config, history
<1>3. RestTyped' /\ RecentInv'
  BY <1>1, <1>2, RecentStays DEF RestTyped
<1>4. sel.snapshot \in EgressLists /\ normalizeEgresses(sel.snapshot)
  BY <1>1, <1>2 DEF CallInv
<1>5. ASSUME NEW e \in StickyTarget, recordDecisionLocked(e, "sticky")
      PROVE  SelectInv' /\ KeepsFlows
  <2>1. sel.req.flow \in DOMAIN flowEntries /\ e \in Found(sel.snapshot, flowEntries[sel.req.flow].egressID)
    BY <1>5 DEF StickyTarget
  <2>2. e \in Targets(sel.snapshot) /\ e.id = flowEntries[sel.req.flow].egressID
    BY <1>4, <2>1, ListsHaveIds
  <2>3. SelectInv'
    BY <1>2, <1>3, <1>5, <2>2, DecisionKeeps
  <2>4. /\ \A f \in DOMAIN flowEntries :
              f \in DOMAIN flowEntries' /\ (f # sel.req.flow => flowEntries'[f] = flowEntries[f])
        /\ flowEntries'[sel.req.flow].egressID = e.id
    BY <1>2, <1>5, <2>1, <2>2, Recorded
  <2>5. KeepsFlows
    BY <2>2, <2>4 DEF KeepsFlows
  <2> QED BY <2>3, <2>5
<1>6. ASSUME \A e \in StickyTarget : ~IsHealthy(e), selPc' = "label",
             flowEntries' = [f \in DOMAIN flowEntries \ {sel.req.flow} |-> flowEntries[f]],
             UNCHANGED <<sel, tried, decided, chosen>>
      PROVE  SelectInv' /\ KeepsFlows
  <2>1. /\ DOMAIN flowEntries' = DOMAIN flowEntries \ {sel.req.flow}
        /\ \A f \in DOMAIN flowEntries' : flowEntries'[f] = flowEntries[f]
    BY <1>6
  <2>2. FlowsTyped'
    BY <1>1, <2>1 DEF FlowsTyped
  <2>3. StepTyped' /\ TriedInv' /\ LabelHonoured' /\ NoFalseOutage' /\ DecisionWasCurrent'
    BY <1>1, <1>2, <1>6 DEF StepTyped, TriedInv, LabelHonoured, NoFalseOutage, DecisionWasCurrent
  <2>4. CallInv'
    BY <1>1, <1>2, <1>6, <2>1 DEF CallInv, IsHealthy
  <2>5. ASSUME sel.req.flow \in DOMAIN flowEntries,
               NEW e \in Found(sel.snapshot, flowEntries[sel.req.flow].egressID)
        PROVE  status[flowEntries[sel.req.flow].egressID] = "down"
    <3>1. e \in StickyTarget /\ e.id = flowEntries[sel.req.flow].egressID
      BY <1>4, <2>5, ListsHaveIds DEF StickyTarget
    <3> QED BY <1>6, <3>1 DEF IsHealthy
  <2>6. KeepsFlows
    BY <1>2, <2>1, <2>5 DEF KeepsFlows
  <2> QED BY <1>3, <2>2, <2>3, <2>4, <2>6, SelectPartsAfter
<1> QED BY <1>5, <1>6 DEF selectSticky

(* In labelled mode the label's target is taken when it is healthy, so the *)
(* search goes on only when the label names no steady target.              *)
LEMMA LabelKeeps ==
  ASSUME SelectInv, selectLabel
  PROVE  SelectInv' /\ KeepsFlows
<1>1. /\ FlowsTyped /\ RestTyped /\ StepTyped /\ CallInv /\ TriedInv /\ RecentInv
      /\ NoFalseOutage /\ DecisionWasCurrent /\ LabelHonoured
  BY SelectParts
<1>2. /\ UNCHANGED <<lbMode, labelMap, current, status, probing, cursor, clock, replaces, recent, selects, steady, seen>>
      /\ selPc = "label"
  BY DEF selectLabel, config, history
<1>3. RestTyped' /\ RecentInv'
  BY <1>1, <1>2, RecentStays DEF RestTyped
<1>4. /\ sel.snapshot \in EgressLists /\ normalizeEgresses(sel.snapshot)
      /\ steady \subseteq Targets(sel.snapshot) /\ \A e \in steady : IsHealthy(e)
      /\ sel.req.flow \notin DOMAIN flowEntries
  BY <1>1, <1>2 DEF CallInv
<1>5. ASSUME NEW e \in LabelTarget, recordDecisionLocked(e, "label")
      PROVE  SelectInv' /\ KeepsFlows
  <2>1. e \in Targets(sel.snapshot)
    <3>1. PICK id : e \in Found(sel.snapshot, id)
      BY <1>5 DEF LabelTarget
    <3>2. Found(sel.snapshot, id) \subseteq Targets(sel.snapshot)
      BY DEF Found, Targets
    <3> QED BY <3>1, <3>2
  <2>2. SelectInv'
    BY <1>2, <1>3, <1>5, <2>1, DecisionKeeps
  <2>3. \A f \in DOMAIN flowEntries :
          f \in DOMAIN flowEntries' /\ (f # sel.req.flow => flowEntries'[f] = flowEntries[f])
    BY <1>2, <1>5, <2>1, Recorded
  <2> QED BY <1>4, <2>2, <2>3 DEF KeepsFlows
<1>6. ASSUME \A e \in LabelTarget : ~IsHealthy(e), selPc' = "dumb",
             UNCHANGED <<flowEntries, sel, tried, decided, chosen>>
      PROVE  SelectInv' /\ KeepsFlows
  <2>1. FlowsTyped' /\ NoFalseOutage' /\ DecisionWasCurrent' /\ KeepsFlows
    BY <1>1, <1>2, <1>6 DEF FlowsTyped, NoFalseOutage, DecisionWasCurrent, KeepsFlows
  <2>2. tried = 0 /\ tried' = 0
    BY <1>1, <1>2, <1>6 DEF StepTyped
  <2>3. Len(Weighted(sel.snapshot)) \in Nat
    BY <1>4, ListsHaveIds, WeightedParts
  <2>4. tried' \in 0..Len(Weighted(sel.snapshot))
    BY <2>2, <2>3, SMTT(30)
  <2>5. StepTyped'
    BY <1>1, <1>6, <2>4 DEF StepTyped
  <2>6. 1..tried' = {}
    BY <2>2, SMTT(30)
  <2>7. TriedInv'
    BY <2>6 DEF TriedInv
  <2>8. CallInv'
    BY <1>1, <1>2, <1>4, <1>6 DEF CallInv, IsHealthy
  <2>9. mappedEgress(sel.req)' = mappedEgress(sel.req)
    BY <1>2, <1>6 DEF mappedEgress
  <2>10. ASSUME NEW e \in steady, lbMode = "labeled", e.id \in mappedEgress(sel.req) PROVE FALSE
    <3>1. e \in Found(sel.snapshot, e.id)
      BY <1>4, <2>10 DEF Found, Targets
    <3>2. e \in LabelTarget
      BY <2>10, <3>1 DEF LabelTarget
    <3> QED BY <1>4, <1>6, <3>2
  <2>11. LabelHonoured'
    BY <1>2, <1>6, <2>9, <2>10 DEF LabelHonoured
  <2> QED BY <1>3, <2>1, <2>5, <2>7, <2>8, <2>11, SelectPartsAfter
<1> QED BY <1>5, <1>6 DEF selectLabel

(* The round-robin search: what it is at.                                  *)
LEMMA AtCandidate ==
  ASSUME SelectInv, selPc = "dumb"
  PROVE  /\ sel.snapshot \in EgressLists /\ normalizeEgresses(sel.snapshot)
         /\ Turns \in Nat /\ Turns > 0 /\ Pos(cursor, Turns) \in 1..Turns
         /\ Pos(cursor + 1, Turns) = After(Pos(cursor, Turns), Turns)
         /\ Candidate = Weighted(sel.snapshot)[Pos(cursor, Turns)]
         /\ Candidate \in Targets(sel.snapshot)
<1>1. sel.snapshot \in EgressLists /\ normalizeEgresses(sel.snapshot) /\ cursor \in Nat
  BY SelectParts DEF CallInv, RestTyped
<1>2. List(sel.snapshot)
  BY <1>1, ListsHaveIds
<1>3. /\ Turns \in Nat /\ Turns > 0
      /\ \A m \in 1..Turns : \E i \in DOMAIN sel.snapshot : Weighted(sel.snapshot)[m] = sel.snapshot[i]
  BY <1>1, <1>2, WeightedParts DEF Turns
<1>4. /\ Pos(cursor, Turns) \in 1..Turns
      /\ Pos(cursor + 1, Turns) = After(Pos(cursor, Turns), Turns)
  BY <1>1, <1>3, PosNext
<1>5. Candidate = Weighted(sel.snapshot)[Pos(cursor, Turns)]
  BY DEF Candidate, Pos, Turns
<1> QED BY <1>1, <1>3, <1>4, <1>5 DEF Targets

(* After a full turn without a healthy candidate no egress is steady.      *)
LEMMA TurnFindsSteady ==
  ASSUME SelectInv, selPc = "dumb", tried = Turns
  PROVE  steady = {}
<1> SUFFICES ASSUME NEW e \in steady PROVE FALSE
  OBVIOUS
<1> DEFINE es == sel.snapshot
           s == WeightUpTo(es)
<1>1. es \in EgressLists /\ normalizeEgresses(es) /\ Turns \in Nat /\ Pos(cursor, Turns) \in 1..Turns
  BY AtCandidate
<1>2. List(es)
  BY <1>1, ListsHaveIds
<1>3. PICK i \in DOMAIN es : e = es[i]
  BY SelectParts DEF CallInv, Targets
<1>4. /\ 0 <= s[i - 1] /\ s[i] <= Turns
      /\ \A m \in (s[i - 1] + 1)..s[i] : Weighted(es)[m] = es[i]
  BY <1>1, <1>2, WeightedParts DEF Turns
<1>5. /\ i \in 1..Len(es) /\ Len(es) \in Nat /\ s \in [0..Len(es) -> Int]
      /\ s[i] = s[i - 1] + es[i].weight /\ es[i].weight \in Int /\ es[i].weight > 0
  BY <1>1, <1>2, WeightsGrow
<1> HIDE DEF s, es
<1>6. s[i] \in (s[i - 1] + 1)..s[i] /\ s[i] \in 1..Turns
  BY <1>1, <1>4, <1>5, SMTT(30)
<1>7. Weighted(es)[s[i]] = e
  BY <1>3, <1>4, <1>6
<1>8. PICK d \in 1..Turns : Back(Pos(cursor, Turns), d, Turns) = s[i]
  BY <1>1, <1>6, TurnCovers
<1>9. Weighted(es)[Back(Pos(cursor, Turns), d, Turns)] \notin steady
  BY <1>8, SelectParts DEF TriedInv, es
<1> QED BY <1>7, <1>8, <1>9

(* A choice from the registry's own list goes on where the last one ended. *)
LEMMA ChoiceIsNext ==
  ASSUME SelectInv, selPc = "dumb", sel.snapshot = current, cursor' = cursor + 1,
         current' = current, recent' = LastTurn(Append(recent, Candidate.id))
  PROVE  RecentInv'
<1> DEFINE wl == Weighted(current)
           t == Len(wl)
           p == Pos(cursor, t)
           q == Pos(cursor + 1, t)
           n == Len(recent)
           x == wl[p].id
<1>1. /\ t \in Nat /\ t > 0 /\ p \in 1..t /\ q = After(p, t)
      /\ Candidate = wl[p] /\ Candidate \in Targets(current) /\ current \in EgressLists
  BY AtCandidate DEF Turns
<1>2. x \in Ids
  BY <1>1, ListsHaveIds
<1>3. /\ recent \in Seq(Ids) /\ n <= t
      /\ \A k \in 1..n : recent[k] = wl[Back(p, n + 1 - k, t)].id
  BY SelectParts DEF RecentInv
<1>4. recent' = IF Len(Append(recent, x)) > t THEN Tail(Append(recent, x)) ELSE Append(recent, x)
  BY <1>1 DEF LastTurn, Turns
<1> HIDE DEF wl, t, p, q, n, x
<1>5. /\ \A d \in 1..t : Back(p, d, t) \in 1..t
      /\ Back(q, 1, t) = p
      /\ \A d \in 1..(t - 1) : Back(q, d + 1, t) = Back(p, d, t)
  BY <1>1, BackNext
<1>6. n \in Nat /\ n <= t /\ recent \in Seq(Ids) /\ n = Len(recent)
  BY <1>3, SMTT(30) DEF n
<1>7. CASE n < t
  <2>1. recent' = Append(recent, x)
    BY <1>1, <1>4, <1>6, <1>7, SMTT(30)
  <2>2. recent' \in Seq(Ids) /\ Len(recent') = n + 1 /\ recent'[n + 1] = x
    BY <1>2, <1>6, <2>1, SMTT(30)
  <2>3. \A k \in 1..n : recent'[k] = recent[k]
    BY <1>2, <1>6, <2>1, SMTT(30)
  <2>4. ASSUME NEW k \in 1..(n + 1) PROVE recent'[k] = wl[Back(q, n + 2 - k, t)].id
    <3>1. CASE k = n + 1
      <4>1. n + 2 - k = 1
        BY <1>6, <3>1, SMTT(30)
      <4> QED BY <1>5, <2>2, <3>1, <4>1 DEF x
    <3>2. CASE k # n + 1
      <4>1. k \in 1..n /\ n + 1 - k \in 1..(t - 1) /\ (n + 1 - k) + 1 = n + 2 - k
        BY <1>1, <1>6, <1>7, <3>2, SMTT(30)
      <4>2. Back(q, n + 2 - k, t) = Back(p, n + 1 - k, t)
        BY <1>5, <4>1
      <4> QED BY <1>3, <2>3, <4>1, <4>2
    <3> QED BY <3>1, <3>2
  <2>5. Len(recent') <= t /\ Len(recent') + 1 = n + 2
    BY <1>1, <1>6, <1>7, <2>2, SMTT(30)
  <2>6. \A k \in 1..Len(recent') : recent'[k] = wl[Back(q, Len(recent') + 1 - k, t)].id
    <3> TAKE k \in 1..Len(recent')
    <3>1. k \in 1..(n + 1) /\ Len(recent') + 1 - k = n + 2 - k
      BY <1>6, <2>2, SMTT(30)
    <3> QED BY <2>4, <3>1
  <2> QED BY <2>2, <2>5, <2>6 DEF RecentInv, wl, t, q
<1>8. CASE n = t
  <2> DEFINE ap == Append(recent, x)
  <2>0. /\ ap \in Seq(Ids) /\ Len(ap) = n + 1 /\ ap[n + 1] = x
        /\ \A k \in 1..n : ap[k] = recent[k]
    BY <1>2, <1>6, SMTT(30)
  <2>a. recent' = IF Len(ap) > t THEN Tail(ap) ELSE ap
    BY <1>4
  <2> HIDE DEF ap
  <2>1. recent' = Tail(ap)
    BY <1>1, <1>6, <1>8, <2>0, <2>a, SMTT(30)
  <2>b. Tail(ap) \in Seq(Ids) /\ Len(Tail(ap)) = t /\ \A k \in 1..t : Tail(ap)[k] = ap[k + 1]
    BY <1>1, <1>6, <1>8, <2>0, SMTT(30)
  <2>2. recent' \in Seq(Ids) /\ Len(recent') = t /\ recent'[t] = x
    BY <1>1, <1>8, <2>0, <2>1, <2>b, SMTT(30)
  <2>3. \A k \in 1..(t - 1) : recent'[k] = recent[k + 1]
    BY <1>1, <1>8, <2>0, <2>1, <2>b, SMTT(30)
  <2>4. ASSUME NEW k \in 1..t PROVE recent'[k] = wl[Back(q, t + 1 - k, t)].id
    <3>1. CASE k = t
      <4>1. t + 1 - k = 1
        BY <1>1, <3>1, SMTT(30)
      <4> QED BY <1>5, <2>2, <3>1, <4>1 DEF x
    <3>2. CASE k # t
      <4>1. k \in 1..(t - 1) /\ k + 1 \in 1..n /\ t - k \in 1..(t - 1) /\ (t - k) + 1 = t + 1 - k
            /\ n + 1 - (k + 1) = t - k
        BY <1>1, <1>6, <1>8, <3>2, SMTT(30)
      <4>2. Back(q, t + 1 - k, t) = Back(p, t - k, t)
        BY <1>5, <4>1
      <4>3. recent[k + 1] = wl[Back(p, t - k, t)].id
        BY <1>3, <4>1
      <4> QED BY <2>3, <4>1, <4>2, <4>3
    <3> QED BY <3>1, <3>2
  <2>5. Len(recent') <= t
    BY <1>1, <2>2, SMTT(30)
  <2> QED BY <2>2, <2>4, <2>5 DEF RecentInv, wl, t, q
<1> QED BY <1>1, <1>6, <1>7, <1>8, SMTT(30)

(* One candidate of the round-robin search (nextHealthyDumb).              *)
LEMMA DumbKeeps ==
  ASSUME SelectInv, nextHealthyDumb
  PROVE  SelectInv' /\ KeepsFlows
<1>1. /\ FlowsTyped /\ RestTyped /\ StepTyped /\ CallInv /\ TriedInv /\ RecentInv
      /\ NoFalseOutage /\ DecisionWasCurrent /\ LabelHonoured
  BY SelectParts
<1>2. /\ UNCHANGED <<lbMode, labelMap, current, status, probing, clock, replaces, selects, steady, seen>>
      /\ selPc = "dumb"
  BY DEF nextHealthyDumb, config
<1>3. /\ sel.snapshot \in EgressLists /\ normalizeEgresses(sel.snapshot)
      /\ steady \subseteq Targets(sel.snapshot) /\ \A e \in steady : IsHealthy(e)
      /\ sel.req.flow \notin DOMAIN flowEntries
  BY <1>1, <1>2 DEF CallInv
<1>4. /\ Turns \in Nat /\ Turns > 0 /\ Pos(cursor, Turns) \in 1..Turns
      /\ Pos(cursor + 1, Turns) = After(Pos(cursor, Turns), Turns)
      /\ Candidate = Weighted(sel.snapshot)[Pos(cursor, Turns)]
      /\ Candidate \in Targets(sel.snapshot)
  BY <1>2, AtCandidate
<1>5. ASSUME tried = Turns, Return("error", Empty), UNCHANGED <<flowEntries, cursor, recent>>
      PROVE  SelectInv' /\ KeepsFlows
  <2>1. RestTyped' /\ RecentInv' /\ FlowsTyped' /\ KeepsFlows
    BY <1>1, <1>2, <1>5, RecentStays DEF RestTyped, FlowsTyped, KeepsFlows
  <2>2. selPc' = "idle" /\ tried' = 0 /\ decided' = "error"
    BY <1>5 DEF Return
  <2>3. StepTyped' /\ CallInv' /\ TriedInv' /\ LabelHonoured' /\ DecisionWasCurrent'
    BY <2>2 DEF StepTyped, CallInv, TriedInv, LabelHonoured, DecisionWasCurrent
  <2>4. NoFalseOutage'
    BY <1>2, <1>5, TurnFindsSteady DEF NoFalseOutage
  <2> QED BY <2>1, <2>3, <2>4, SelectPartsAfter
<1>6. ASSUME cursor' = cursor + 1, recordDecisionLocked(Candidate, "dumb"),
             recent' = IF sel.snapshot # current THEN <<>> ELSE LastTurn(Append(recent, Candidate.id))
      PROVE  SelectInv' /\ KeepsFlows
  <2>1. cursor' \in Nat
    BY <1>1, <1>6, SMTT(30) DEF RestTyped
  <2>2. RestTyped'
    BY <1>1, <1>2, <2>1 DEF RestTyped
  <2>3. RecentInv'
    <3>1. CASE sel.snapshot = current
      BY <1>2, <1>6, <3>1, ChoiceIsNext
    <3>2. CASE sel.snapshot # current
      <4>1. recent' = <<>>
        BY <1>6, <3>2
      <4> QED BY <2>2, <4>1, RecentEmptyAfter
    <3> QED BY <3>1, <3>2
  <2>4. SelectInv'
    BY <1>2, <1>4, <1>6, <2>2, <2>3, DecisionKeeps
  <2>5. \A f \in DOMAIN flowEntries :
          f \in DOMAIN flowEntries' /\ (f # sel.req.flow => flowEntries'[f] = flowEntries[f])
    BY <1>2, <1>4, <1>6, Recorded
  <2> QED BY <1>3, <2>4, <2>5 DEF KeepsFlows
<1>7. ASSUME tried # Turns, cursor' = cursor + 1, ~IsHealthy(Candidate), tried' = tried + 1, recent' = <<>>,
             UNCHANGED <<flowEntries, selPc, sel, decided, chosen>>
      PROVE  SelectInv' /\ KeepsFlows
  <2>1. cursor' \in Nat
    BY <1>1, <1>7, SMTT(30) DEF RestTyped
  <2>2. RestTyped'
    BY <1>1, <1>2, <2>1 DEF RestTyped
  <2>3. RecentInv'
    BY <1>7, <2>2, RecentEmptyAfter
  <2>4. tried \in 0..Turns /\ Turns = Len(Weighted(sel.snapshot))
    BY <1>1, <1>2 DEF StepTyped, Turns
  <2>5. tried' \in 0..Turns
    BY <1>4, <1>7, <2>4, SMTT(30)
  <2>6. StepTyped'
    BY <1>1, <1>2, <1>7, <2>4, <2>5 DEF StepTyped
  <2>7. FlowsTyped' /\ CallInv' /\ NoFalseOutage' /\ DecisionWasCurrent' /\ KeepsFlows
    BY <1>1, <1>2, <1>7 DEF FlowsTyped, CallInv, NoFalseOutage, DecisionWasCurrent, KeepsFlows, IsHealthy
  <2>8. mappedEgress(sel.req)' = mappedEgress(sel.req)
    BY <1>2, <1>7 DEF mappedEgress
  <2>9. LabelHonoured'
    BY <1>1, <1>2, <1>7, <2>8 DEF LabelHonoured
  <2>10. Candidate \notin steady
    BY <1>3, <1>7
  <2> DEFINE t == Turns
             p == Pos(cursor, t)
             q == Pos(cursor + 1, t)
             wl == Weighted(sel.snapshot)
  <2>11. \A d \in 1..tried : wl[Back(p, d, t)] \notin steady
    BY <1>1, <1>2 DEF TriedInv
  <2>12. /\ Back(q, 1, t) = p
         /\ \A d \in 1..(t - 1) : Back(q, d + 1, t) = Back(p, d, t)
    <3>1. q = After(p, t) /\ p \in 1..t /\ t \in Nat
      BY <1>4
    <3> HIDE DEF p, q, t
    <3> QED BY <3>1, BackNext
  <2>13. wl[p] \notin steady
    BY <1>4, <2>10
  <2>14. ASSUME NEW d \in 1..tried' PROVE wl[Back(q, d, t)] \notin steady
    <3> HIDE DEF t, p, q, wl
    <3>1. CASE d = 1
      BY <2>12, <2>13, <3>1
    <3>2. CASE d # 1
      <4>1. d - 1 \in 1..tried /\ d - 1 \in 1..(t - 1) /\ (d - 1) + 1 = d
        BY <1>4, <1>7, <2>4, <2>14, <3>2, SMTT(30) DEF t
      <4>2. Back(q, d, t) = Back(p, d - 1, t)
        BY <2>12, <4>1
      <4> QED BY <2>11, <4>1, <4>2
    <3> QED BY <3>1, <3>2
  <2>15. Turns' = Turns /\ Weighted(sel.snapshot)' = wl
    BY <1>7 DEF Turns
  <2>16. TriedInv'
    BY <1>2, <1>7, <2>14, <2>15 DEF TriedInv
  <2> QED BY <2>2, <2>3, <2>6, <2>7, <2>9, <2>16, SelectPartsAfter
<1> QED BY <1>5, <1>6, <1>7 DEF nextHealthyDumb

(* The prober, the registry and the clock beside a call: a target that is  *)
(* found down or removed is no longer steady.                              *)
LEMMA OutsideKeeps ==
  ASSUME SelectInv,
         ProbeOnce \/ (\E r \in {"up", "down"} : Set(r)) \/ (\E es \in EgressLists : Replace(es)) \/ Tick
  PROVE  SelectInv' /\ KeepsFlows
<1>1. /\ FlowsTyped /\ RestTyped /\ StepTyped /\ CallInv /\ TriedInv /\ RecentInv
      /\ NoFalseOutage /\ DecisionWasCurrent /\ LabelHonoured
  BY SelectParts
<1>2. UNCHANGED <<lbMode, labelMap, flowEntries, cursor, selPc, sel, tried, decided, chosen, selects>>
  BY DEF ProbeOnce, Set, Replace, Tick, config, engine
<1>3. steady' \subseteq steady /\ seen \subseteq seen'
  BY DEF ProbeOnce, Set, Replace, Tick, history
<1>4. FlowsTyped' /\ KeepsFlows
  BY <1>1, <1>2 DEF FlowsTyped, KeepsFlows
<1>5. StepTyped'
  BY <1>1, <1>2 DEF StepTyped
<1>6. Turns' = Turns
  BY <1>2 DEF Turns
<1>7. TriedInv' /\ NoFalseOutage' /\ DecisionWasCurrent'
  BY <1>1, <1>2, <1>3, <1>6 DEF TriedInv, NoFalseOutage, DecisionWasCurrent
<1>8. mappedEgress(sel.req)' = mappedEgress(sel.req)
  BY <1>2 DEF mappedEgress
<1>9. LabelHonoured'
  BY <1>1, <1>2, <1>3, <1>8 DEF LabelHonoured
<1>10. ASSUME \A e \in steady' : IsHealthy(e) => IsHealthy(e)'
       PROVE  CallInv'
  BY <1>1, <1>2, <1>3, <1>10 DEF CallInv
<1>11. CASE ProbeOnce
  <2>1. UNCHANGED <<current, status, clock, replaces, recent, steady>> /\ probing' = current
    BY <1>11 DEF ProbeOnce, history
  <2>2. current \in Seq(Egresses)
    BY <1>1, ListsHaveIds DEF RestTyped, List
  <2>3. RestTyped' /\ RecentInv'
    BY <1>1, <1>2, <2>1, <2>2, RecentStays DEF RestTyped
  <2>4. CallInv'
    BY <1>10, <2>1 DEF IsHealthy
  <2> QED BY <1>4, <1>5, <1>7, <1>9, <2>3, <2>4, SelectPartsAfter
<1>12. ASSUME NEW r \in {"up", "down"}, Set(r) PROVE SelectInv'
  <2> DEFINE h == Head(probing).id
  <2>1. /\ UNCHANGED <<current, clock, replaces, recent>> /\ probing # <<>> /\ probing' = Tail(probing)
        /\ status' = [status EXCEPT ![h] = r]
        /\ steady' = {e \in steady : ~(e.id = h /\ r = "down")}
    BY <1>12 DEF Set
  <2>2. Tail(probing) \in Seq(Egresses)
    BY <1>1, <2>1, SMTT(30) DEF RestTyped
  <2> HIDE DEF h
  <2>3. status' \in [Ids -> {"unknown", "up", "down"}]
    BY <1>1, <2>1 DEF RestTyped
  <2>4. RestTyped' /\ RecentInv'
    BY <1>1, <1>2, <2>1, <2>2, <2>3, RecentStays DEF RestTyped
  <2>5. \A i \in Ids : status'[i] = status[i] \/ (i = h /\ status'[i] = r)
    BY <1>1, <2>1 DEF RestTyped
  <2>6. ASSUME selPc # "idle", NEW e \in steady' PROVE IsHealthy(e)'
    <3>1. e \in steady /\ e.id \in Ids /\ IsHealthy(e)
      BY <1>1, <2>1, <2>6, ListsHaveIds DEF CallInv
    <3>2. e.id = h => r # "down"
      BY <2>1, <2>6
    <3> QED BY <2>5, <3>1, <3>2 DEF IsHealthy
  <2>7. CallInv'
    BY <1>1, <1>2, <1>3, <2>6 DEF CallInv
  <2> QED BY <1>4, <1>5, <1>7, <1>9, <2>4, <2>7, SelectPartsAfter
<1>13. ASSUME NEW es \in EgressLists, Replace(es) PROVE SelectInv'
  <2>1. UNCHANGED <<status, probing, clock>> /\ replaces' = replaces + 1 /\ replaces < MaxReplaces
    BY <1>13 DEF Replace
  <2>2. replaces' \in 0..MaxReplaces
    BY <1>1, <2>1, BalancerAssumption, SMTT(30) DEF RestTyped
  <2>3. CallInv'
    BY <1>10, <2>1 DEF IsHealthy
  <2>4. CASE normalizeEgresses(es)
    <3>1. current' = es /\ recent' = <<>>
      BY <1>13, <2>4 DEF Replace
    <3>2. RestTyped'
      BY <1>1, <1>2, <2>1, <2>2, <2>4, <3>1 DEF RestTyped
    <3> QED BY <1>4, <1>5, <1>7, <1>9, <2>3, <3>1, <3>2, RecentEmptyAfter, SelectPartsAfter
  <2>5. CASE ~normalizeEgresses(es)
    <3>1. UNCHANGED <<current, recent>>
      BY <1>13, <2>5 DEF Replace, history
    <3>2. RestTyped' /\ RecentInv'
      BY <1>1, <1>2, <2>1, <2>2, <3>1, RecentStays DEF RestTyped
    <3> QED BY <1>4, <1>5, <1>7, <1>9, <2>3, <3>2, SelectPartsAfter
  <2> QED BY <2>4, <2>5
<1>14. CASE Tick
  <2>1. UNCHANGED <<current, status, probing, replaces, recent, steady>> /\ clock' = clock + 1 /\ clock < MaxNow
    BY <1>14 DEF Tick, history
  <2>2. clock' \in 0..MaxNow
    BY <1>1, <2>1, BalancerAssumption, SMTT(30) DEF RestTyped
  <2>3. RestTyped' /\ RecentInv'
    BY <1>1, <1>2, <2>1, <2>2, RecentStays DEF RestTyped
  <2>4. CallInv'
    BY <1>10, <2>1 DEF IsHealthy
  <2> QED BY <1>4, <1>5, <1>7, <1>9, <2>3, <2>4, SelectPartsAfter
<1> QED BY <1>4, <1>11, <1>12, <1>13, <1>14

(* A new engine has decided nothing. *)
LEMMA NewEngineInv ==
  ASSUME NewEngine
  PROVE  SelectInv
<1>1. current \in EgressLists /\ normalizeEgresses(current)
  BY DEF NewEngine
<1>2. labelMap \in LabelMaps /\ lbMode \in Modes
  BY DEF NewEngine
<1>3. status \in [Ids -> {"unknown", "up", "down"}]
  BY DEF NewEngine
<1>4. /\ probing \in Seq(Egresses) /\ cursor \in Nat
      /\ clock \in 0..MaxNow /\ selects \in 0..MaxSelects /\ replaces \in 0..MaxReplaces
  BY BalancerAssumption, SMTT(30) DEF NewEngine
<1>5. DOMAIN flowEntries = {}
  BY SMTT(30) DEF NewEngine
<1>6. RestTyped /\ FlowsTyped
  BY <1>1, <1>2, <1>3, <1>4, <1>5 DEF RestTyped, FlowsTyped
<1>7. RecentInv
  BY <1>6, RecentEmpty DEF NewEngine
<1>8. StepTyped /\ CallInv /\ TriedInv /\ NoFalseOutage /\ DecisionWasCurrent /\ LabelHonoured
  BY DEF NewEngine, StepTyped, CallInv, TriedInv, NoFalseOutage, DecisionWasCurrent, LabelHonoured
<1> QED BY <1>6, <1>7, <1>8, SelectParts

(* Every step of the balancer keeps the invariant and the flows.           *)
LEMMA BalancerSteps ==
  ASSUME SelectInv, [BalancerNext]_lbvars
  PROVE  SelectInv' /\ [KeepsFlows]_lbvars
<1>1. CASE BalancerNext
  BY <1>1, SelectKeeps, StickyKeeps, LabelKeeps, DumbKeeps, OutsideKeeps DEF BalancerNext
<1>2. CASE UNCHANGED lbvars
  <2>1. UNCHANGED <<lbMode, labelMap, current, status, probing, flowEntries, cursor, selPc, sel, tried, decided,
                    chosen, selects, clock, replaces, steady, seen, recent>>
    BY <1>2 DEF lbvars, config, engine, history
  <2>2. FlowsTyped' /\ RestTyped' /\ StepTyped' /\ CallInv' /\ TriedInv' /\ RecentInv'
    BY <2>1, SelectParts, RecentStays
       DEF FlowsTyped, RestTyped, StepTyped, CallInv, TriedInv, IsHealthy, Turns
  <2>3. mappedEgress(sel.req)' = mappedEgress(sel.req)
    BY <2>1 DEF mappedEgress
  <2>4. NoFalseOutage' /\ DecisionWasCurrent' /\ LabelHonoured'
    BY <2>1, <2>3, SelectParts DEF NoFalseOutage, DecisionWasCurrent, LabelHonoured
  <2> QED BY <1>2, <2>2, <2>4, SelectPartsAfter
<1> QED BY <1>1, <1>2

(* Whatever the prober finds and however the registry is replaced while    *)
(* Engine.Select looks for a target: it reports an outage only when no     *)
(* target stayed there and healthy, it names a target the registry held,   *)
(* it honours a label whose target is steady, it gives every egress its    *)
(* exact share of each turn, and a flow keeps its target.                  *)
THEOREM SelectionStaysSafe == BalancerSpec => SelectionSafe
<1>1. SelectInv => BalancerTypeOK /\ NoFalseOutage /\ DecisionWasCurrent /\ RoundRobinFair /\ LabelHonoured
  BY RecentIsFair DEF SelectInv
<1> QED BY NewEngineInv, BalancerSteps, <1>1, PTL DEF BalancerSpec, SelectionSafe, FlowsStick

-----------------------------------------------------------------------------
(* f doubles from 1 on. *)
Doubles(f, n) == f \in [0..n -> Nat] /\ f[0] = 1 /\ \A i \in 1..n : f[i] = 2 * f[i - 1]

(* Such a function exists. *)
LEMMA DoublesExist ==
  ASSUME NEW n \in Nat
  PROVE  \E f : Doubles(f, n)
<1> DEFINE T == {m \in 0..n : ~\E f : Doubles(f, m)}
<1>1. CASE T = {}
  BY <1>1, SMTT(30)
<1>2. CASE T # {}
  <2>1. PICK x \in T : \A y \in T : x <= y
    <3>1. T \subseteq Nat
      BY SMTT(30)
    <3> HIDE DEF T
    <3> QED BY <1>2, <3>1, NatMin
  <2>2. CASE x = 0
    <3>1. Doubles([i \in 0..0 |-> 1], 0)
      BY SMTT(30) DEF Doubles
    <3> QED BY <3>1, <2>2
  <2>3. CASE x # 0
    <3>1. x - 1 \in 0..n /\ x - 1 \notin T /\ x \in 1..n
      BY <2>1, <2>3, SMTT(30)
    <3>2. PICK f : Doubles(f, x - 1)
      BY <3>1
    <3> DEFINE g == [i \in 0..x |-> IF i = x THEN 2 * f[x - 1] ELSE f[i]]
    <3>3. Doubles(g, x)
      BY <3>1, <3>2, SMTT(30) DEF Doubles
    <3> QED BY <3>3
  <2> QED BY <2>2, <2>3
<1> QED BY <1>1, <1>2

(* Blocks of addresses have a positive size. *)
LEMMA Pow2Positive ==
  \A k \in 0..W : Pow2[k] \in Nat /\ Pow2[k] > 0
<1>1. W \in Nat
  BY TopologyAssumption
<1>2. PICK f : Doubles(f, W)
  BY <1>1, DoublesExist
<1>3. f = [k \in 0..W |-> IF k = 0 THEN 1 ELSE 2 * f[k - 1]]
  BY <1>1, <1>2, SMTT(30) DEF Doubles
<1>4. Pow2 = [k \in 0..W |-> IF k = 0 THEN 1 ELSE 2 * Pow2[k - 1]]
  BY <1>3 DEF Pow2
<1> DEFINE T == {k \in 0..W : ~(Pow2[k] \in Nat /\ Pow2[k] > 0)}
<1>5. ASSUME T # {} PROVE FALSE
  <2>1. T \subseteq Nat
    BY <1>1, SMTT(30)
  <2>2. PICK x \in T : \A y \in T : x <= y
    <3> HIDE DEF T
    <3> QED BY <1>5, <2>1, NatMin
  <2>3. x \in 1..W /\ x - 1 \in 0..W
    BY <1>1, <1>4, <2>2, SMTT(30)
  <2>4. Pow2[x - 1] \in Nat /\ Pow2[x - 1] > 0
    BY <2>2, <2>3, SMTT(30)
  <2>5. Pow2[x] = 2 * Pow2[x - 1]
    BY <1>1, <1>4, <2>3, SMTT(30)
  <2> QED BY <2>2, <2>3, <2>4, <2>5, SMTT(30)
<1> QED BY <1>5

(* A prefix: its network address is in its block, and masking it again     *)
(* changes nothing.                                                        *)
LEMMA PrefixIs ==
  ASSUME NEW p \in CIDRs
  PROVE  /\ Size(p) \in Nat /\ Size(p) > 0 /\ Network(p) \in Int
         /\ Size(Masked(p)) = Size(p) /\ Network(Masked(p)) = Network(p)
         /\ \A v : PrefixContains(Masked(p), v) <=> PrefixContains(p, v)
<1> DEFINE a == p.addr
           s == Size(p)
           r == a % s
           q == a \div s
           m == a - r
<1>1. p.addr \in Space /\ p.bits \in 0..W
  BY SMTT(30) DEF CIDRs
<1>2. a \in Nat
  BY <1>1, SMTT(30) DEF Space
<1>3. W - p.bits \in 0..W
  BY <1>1, TopologyAssumption, SMTT(30)
<1>4. s \in Nat /\ s > 0
  BY <1>3, Pow2Positive DEF Size
<1>5. Masked(p).addr = Network(p) /\ Masked(p).bits = p.bits
  BY SMTT(30) DEF Masked
<1>6. Size(Masked(p)) = s
  BY <1>5 DEF Size
<1> HIDE DEF a, s
<1>7. q \in Int /\ a = s * q + r /\ r \in 0..(s - 1)
  BY <1>2, <1>4, SMTT(30)
<1>8. m \in Int /\ m \div s \in Int /\ m = s * (m \div s) + (m % s) /\ m % s \in 0..(s - 1)
  BY <1>2, <1>4, <1>7, SMTT(30)
<1>9. s * q + 0 = s * (m \div s) + (m % s) /\ 0 \in 0..(s - 1)
  BY <1>2, <1>4, <1>7, <1>8, SMTT(30)
<1>10. 0 = m % s
  <2> DEFINE d == m \div s
             e == m % s
  <2>1. s * q + 0 = s * d + e /\ 0 \in 0..(s - 1) /\ d \in Int /\ e \in 0..(s - 1)
    BY <1>8, <1>9
  <2> HIDE DEF d, e, q
  <2>2. q \in Int
    BY <1>7 DEF q
  <2>3. 0 = e
    BY <1>4, <2>1, <2>2, DivUnique
  <2> QED BY <2>3 DEF e
<1>11. Network(p) = m
  BY DEF Network, a, s
<1>12. Network(Masked(p)) = m - (m % s)
  BY <1>5, <1>6, <1>11 DEF Network
<1>13. Network(Masked(p)) = Network(p)
  BY <1>8, <1>10, <1>11, <1>12, SMTT(30)
<1> QED BY <1>4, <1>6, <1>8, <1>11, <1>13 DEF PrefixContains, prefixLastAddr, s

(* RangesOverlap compares only the first addresses; that is enough.        *)
LEMMA NoOverlap ==
  ASSUME NEW p \in CIDRs, NEW q \in CIDRs, ~RangesOverlap(Masked(p), Masked(q)), NEW v \in Space
  PROVE  ~(PrefixContains(p, v) /\ PrefixContains(q, v))
<1>1. /\ Size(p) \in Nat /\ Size(p) > 0 /\ Network(p) \in Int
      /\ Size(q) \in Nat /\ Size(q) > 0 /\ Network(q) \in Int
  BY PrefixIs
<1>2. ~PrefixContains(p, Network(q)) /\ ~PrefixContains(q, Network(p))
  BY PrefixIs DEF RangesOverlap
<1>3. v \in Int
  BY Pow2Positive, TopologyAssumption, SMTT(30) DEF Space
<1> QED BY <1>1, <1>2, <1>3, SMTT(30) DEF PrefixContains, prefixLastAddr

(* The network address of a prefix is an address of the prefix. *)
LEMMA NetworkInside ==
  ASSUME NEW p \in CIDRs
  PROVE  Network(p) \in Space /\ PrefixContains(p, Network(p))
<1> DEFINE s == Size(p)
           a == p.addr
<1>1. s \in Nat /\ s > 0
  BY PrefixIs
<1>2. a \in Space /\ Pow2[W] \in Nat
  BY Pow2Positive, TopologyAssumption, SMTT(30) DEF CIDRs
<1>3. a \in Nat /\ a <= Pow2[W] - 1
  BY <1>2, SMTT(30) DEF Space
<1>4. Network(p) = a - (a % s)
  BY DEF Network
<1> HIDE DEF s, a
<1>5. a % s \in 0 .. s - 1 /\ a = s * (a \div s) + (a % s) /\ a \div s \in Int
  BY <1>1, <1>3, SMTT(30)
<1>6. a \div s >= 0
  BY <1>1, <1>3, SMTT(30)
<1>7. a % s <= a
  <2> DEFINE q == a \div s
             r == a % s
  <2>1. q \in Int /\ q >= 0 /\ r \in 0 .. s - 1 /\ a = s * q + r
    BY <1>5, <1>6
  <2> HIDE DEF q, r
  <2>2. s * q >= 0
    BY <1>1, <2>1, SMTT(30)
  <2>3. r <= a
    BY <1>1, <1>3, <2>1, <2>2, SMTT(30)
  <2> QED BY <2>3 DEF r
<1>8. Network(p) \in 0 .. Pow2[W] - 1
  BY <1>1, <1>2, <1>3, <1>4, <1>5, <1>7, SMTT(30)
<1>9. Network(p) <= Network(p) + (Size(p) - 1) /\ Network(p) <= Network(p)
  BY <1>1, <1>2, <1>8, SMTT(30) DEF s
<1> QED BY <1>8, <1>9 DEF Space, PrefixContains, prefixLastAddr

(* RangesOverlap, which looks only at the first address of each range, is  *)
(* exact: it finds an overlap exactly if some address is in both prefixes, *)
(* masked or not, for every width of addresses (ranges.go).                *)
THEOREM OverlapIsExact ==
  ASSUME NEW p \in CIDRs, NEW q \in CIDRs
  PROVE  RangesOverlap(Masked(p), Masked(q)) <=>
           \E v \in Space : PrefixContains(p, v) /\ PrefixContains(q, v)
<1>1. ASSUME RangesOverlap(Masked(p), Masked(q))
      PROVE  \E v \in Space : PrefixContains(p, v) /\ PrefixContains(q, v)
  <2>1. PrefixContains(p, Network(q)) \/ PrefixContains(q, Network(p))
    BY <1>1, PrefixIs DEF RangesOverlap
  <2> QED BY <2>1, NetworkInside
<1>2. ASSUME ~RangesOverlap(Masked(p), Masked(q))
      PROVE  ~\E v \in Space : PrefixContains(p, v) /\ PrefixContains(q, v)
  BY <1>2, NoOverlap
<1> QED BY <1>1, <1>2

-----------------------------------------------------------------------------
(* The contents of a file that some command may have written. *)
SoundTopology(t) ==
    /\ t = Contents(t.kind, t.ranges, t.nodes) /\ t.kind \in Kinds
    /\ t.ranges \in Seq(RangeTexts) /\ SoundRanges(t.ranges)

(* What an editor holds between its read and its write. *)
CopyInv(o) ==
    /\ SoundTopology(mem[o]) /\ mem[o].kind = "v1"
    /\ tpc[o] # "idle" =>
         /\ cmd[o] \in Commands
         /\ mem[o].nodes = {} => blindRead
         /\ fresh[o] /\ topologyFile.kind = "v1" => mem[o] = topologyFile

TopologyInv ==
    /\ FileTypeOK /\ SoundTopology(topologyFile) /\ NodesKept
    /\ mem = [o \in Editors |-> mem[o]]
    /\ \A o \in Editors : CopyInv(o)

(* The ranges a command c does not name, and the addresses it may not      *)
(* uncover.                                                                *)
Kept(f, c) == {r \in Entries(f) : r.name \notin {c.name, c.newName}}
Uncovers(t, f) == \E ip \in t.nodes : Parses(ip) /\ ~ip.mapped /\ Covered(t, ip) /\ ~Covered(f, ip)

(* What a command c may make of the contents t. *)
Edits(t, c, f) ==
    /\ SoundTopology(f) /\ f.nodes = t.nodes
    /\ f.kind = "v1" => Kept(f, c) = Kept(t, c) /\ (Uncovers(t, f) => c.op = "resize")

(* Prefixes without a common address. *)
Disjoint(p, q) == \A v \in Space : ~(PrefixContains(p, v) /\ PrefixContains(q, v))

(* Sound ranges, with the pairs in either order. *)
Pairwise(rs) ==
    /\ \A i, j \in DOMAIN rs : i # j => rs[i].name # rs[j].name /\ Disjoint(rs[i].cidr, rs[j].cidr)
    /\ \A i \in DOMAIN rs : rs[i].bal # NoText => PrefixContains(rs[i].cidr, rs[i].bal.val)

(* The two ways of saying it agree on every list. *)
LEMMA SoundIsPairwise ==
  ASSUME NEW rs \in Seq(RangeTexts)
  PROVE  SoundRanges(rs) <=> Pairwise(rs)
<1>1. DOMAIN rs \subseteq Nat
  BY SMTT(30)
<1>2. \A i, j \in DOMAIN rs : i # j => i < j \/ j < i
  BY <1>1, SMTT(30)
<1>3. \A i, j \in DOMAIN rs : i < j => i # j
  BY <1>1, SMTT(30)
<1>4. DOMAIN NamesOf(rs) = DOMAIN rs /\ \A i \in DOMAIN rs : NamesOf(rs)[i] = rs[i].name
  BY DEF NamesOf
<1>5. \A i, j \in DOMAIN rs :
        ({v \in Space : PrefixContains(rs[i].cidr, v) /\ PrefixContains(rs[j].cidr, v)} = {})
          <=> Disjoint(rs[i].cidr, rs[j].cidr)
  BY DEF Disjoint
<1>6. ASSUME SoundRanges(rs), NEW i \in DOMAIN rs, NEW j \in DOMAIN rs, i # j
      PROVE  rs[i].name # rs[j].name /\ Disjoint(rs[i].cidr, rs[j].cidr)
  <2>1. \A a, b \in DOMAIN rs : a < b => rs[a].name # rs[b].name
    <3>1. ~Duplicate(NamesOf(rs))
      BY <1>6 DEF SoundRanges
    <3>2. \A a, b \in DOMAIN rs : a < b => NamesOf(rs)[a] # NamesOf(rs)[b]
      BY <1>4, <3>1 DEF Duplicate
    <3> QED BY <1>4, <3>2
  <2>2. \A a, b \in DOMAIN rs : a < b => Disjoint(rs[a].cidr, rs[b].cidr)
    BY <1>5, <1>6 DEF SoundRanges
  <2>3. CASE i < j
    BY <2>1, <2>2, <2>3
  <2>4. CASE j < i
    <3>1. rs[j].name # rs[i].name /\ Disjoint(rs[j].cidr, rs[i].cidr)
      BY <2>1, <2>2, <2>4
    <3> QED BY <3>1 DEF Disjoint
  <2> QED BY <1>2, <1>6, <2>3, <2>4
<1>7. SoundRanges(rs) => Pairwise(rs)
  BY <1>6 DEF Pairwise, SoundRanges
<1>8. ASSUME Pairwise(rs) PROVE SoundRanges(rs)
  <2>1. ~Duplicate(NamesOf(rs))
    BY <1>3, <1>4, <1>8 DEF Duplicate, Pairwise
  <2>2. \A i, j \in DOMAIN rs :
          i < j => {v \in Space : PrefixContains(rs[i].cidr, v) /\ PrefixContains(rs[j].cidr, v)} = {}
    BY <1>3, <1>5, <1>8 DEF Pairwise
  <2> QED BY <1>8, <2>1, <2>2 DEF SoundRanges, Pairwise
<1> QED BY <1>7, <1>8

(* The text of a range, and its fields. *)
LEMMA RangeTextIs ==
  ASSUME NEW n \in STRING, NEW c \in CIDRs, NEW b \in AddrTexts \cup {NoText}
  PROVE  RangeText(n, c, b) \in RangeTexts
BY DEF RangeText, RangeTexts

LEMMA RangesHaveFields ==
  ASSUME NEW r \in RangeTexts
  PROVE  r.name \in STRING /\ r.cidr \in CIDRs /\ r.bal \in AddrTexts \cup {NoText}
BY SMTT(30) DEF RangeTexts

(* The texts of a sound file all parse. *)
LEMMA RangesParse ==
  ASSUME NEW r \in RangeTexts
  PROVE  ParseRangeOk(r)
BY RangesHaveFields, TopologyAssumption DEF ParseRangeOk, Parses

(* Contents with other ranges are sound if those ranges are. *)
LEMMA SoundWith ==
  ASSUME NEW t, SoundTopology(t), NEW rs \in Seq(RangeTexts), Pairwise(rs)
  PROVE  /\ SoundTopology(WithRanges(t, rs))
         /\ WithRanges(t, rs).kind = t.kind /\ WithRanges(t, rs).nodes = t.nodes
         /\ WithRanges(t, rs).ranges = rs
<1>1. /\ WithRanges(t, rs).kind = t.kind /\ WithRanges(t, rs).nodes = t.nodes
      /\ WithRanges(t, rs).ranges = rs
  BY SMTT(30) DEF WithRanges, Contents
<1>2. WithRanges(t, rs) = Contents(WithRanges(t, rs).kind, WithRanges(t, rs).ranges, WithRanges(t, rs).nodes)
  BY <1>1 DEF WithRanges
<1>3. SoundRanges(rs)
  BY SoundIsPairwise
<1> QED BY <1>1, <1>2, <1>3 DEF SoundTopology

(* findRangeIndex finds a range of that name if there is one. *)
LEMMA FoundIndex ==
  ASSUME NEW t, NEW name, t.ranges \in Seq(RangeTexts)
  PROVE  LET idx == findRangeIndex(t, name)
         IN  /\ idx = 0 => \A i \in DOMAIN t.ranges : t.ranges[i].name # name
             /\ idx # 0 => idx \in DOMAIN t.ranges /\ t.ranges[idx].name = name
<1> DEFINE N == Named(t, name)
<1>1. N \subseteq DOMAIN t.ranges /\ \A i \in DOMAIN t.ranges : i \in N <=> t.ranges[i].name = name
  BY DEF Named
<1>2. DOMAIN t.ranges \subseteq Nat \ {0}
  BY SMTT(30)
<1>3. CASE N = {}
  BY <1>1, <1>3 DEF findRangeIndex
<1>4. CASE N # {}
  <2> HIDE DEF N
  <2>1. N \subseteq Nat
    BY <1>1, <1>2
  <2>2. \E i \in N : \A j \in N : i <= j
    BY <1>4, <2>1, NatMin
  <2>3. findRangeIndex(t, name) = CHOOSE i \in N : \A j \in N : i <= j
    BY <1>4 DEF findRangeIndex, N
  <2>4. findRangeIndex(t, name) \in N
    BY <2>2, <2>3
  <2> QED BY <1>1, <1>2, <2>4
<1> QED BY <1>3, <1>4

(* r may stand beside the ranges of rs other than the one at idx. *)
Fits(rs, idx, r) ==
    /\ r \in RangeTexts
    /\ \A i \in DOMAIN rs : i # idx => rs[i].name # r.name /\ Disjoint(rs[i].cidr, r.cidr)
    /\ r.bal # NoText => PrefixContains(r.cidr, r.bal.val)

(* The parts of sound contents. *)
LEMMA SoundParts ==
  ASSUME NEW t, SoundTopology(t)
  PROVE  /\ t.ranges \in Seq(RangeTexts) /\ Pairwise(t.ranges)
         /\ \A i \in DOMAIN t.ranges : t.ranges[i] \in RangeTexts
<1>1. t.ranges \in Seq(RangeTexts)
  BY DEF SoundTopology
<1>2. \A i \in DOMAIN t.ranges : t.ranges[i] \in RangeTexts
  <2> HIDE DEF RangeTexts
  <2> QED BY <1>1, SMTT(30)
<1> QED BY <1>1, <1>2, SoundIsPairwise DEF SoundTopology

(* Every overlap the command looks for is absent, so its block is disjoint *)
(* from the others.                                                        *)
LEMMA NoOtherOverlaps ==
  ASSUME NEW t, SoundTopology(t), NEW c \in CIDRs, NEW idx, ~OverlapsOther(t, Masked(c), idx)
  PROVE  \A i \in DOMAIN t.ranges : i # idx => Disjoint(t.ranges[i].cidr, c)
<1> SUFFICES ASSUME NEW i \in DOMAIN t.ranges, i # idx PROVE Disjoint(t.ranges[i].cidr, c)
  OBVIOUS
<1>1. t.ranges[i] \in RangeTexts
  BY SoundParts
<1>2. t.ranges[i].cidr \in CIDRs /\ ParseRangeOk(t.ranges[i])
  BY <1>1, RangesHaveFields, RangesParse
<1>3. ~RangesOverlap(Masked(c), Masked(t.ranges[i].cidr))
  BY <1>2 DEF OverlapsOther
<1> QED BY <1>2, <1>3, NoOverlap DEF Disjoint

(* A balancer that the command accepted is in the block. *)
LEMMA BalancerIsInside ==
  ASSUME NEW c \in CIDRs, NEW b, BalancerInside(Masked(c), b), b # NoText
  PROVE  PrefixContains(c, b.val)
BY PrefixIs DEF BalancerInside, RangeContains

(* f is t with the range at idx replaced by r. *)
Replaced(t, idx, r, f) ==
    /\ SoundTopology(f) /\ f.kind = t.kind /\ f.nodes = t.nodes
    /\ DOMAIN f.ranges = DOMAIN t.ranges /\ f.ranges[idx] = r
    /\ \A i \in DOMAIN t.ranges : i # idx => f.ranges[i] = t.ranges[i]

(* Replacing one range by one that fits. *)
LEMMA PutSound ==
  ASSUME NEW t, SoundTopology(t), NEW idx \in DOMAIN t.ranges, NEW r, Fits(t.ranges, idx, r)
  PROVE  Replaced(t, idx, r, Put(t, idx, r))
<1> DEFINE rs == t.ranges
           qs == [rs EXCEPT ![idx] = r]
<1>1. rs \in Seq(RangeTexts) /\ Pairwise(rs)
  BY SoundParts
<1>2. r \in RangeTexts
  BY DEF Fits
<1>3. qs \in Seq(RangeTexts)
  <2> HIDE DEF RangeTexts
  <2> QED BY <1>1, <1>2, SMTT(30)
<1>4. DOMAIN qs = DOMAIN rs /\ qs[idx] = r /\ \A i \in DOMAIN rs : i # idx => qs[i] = rs[i]
  OBVIOUS
<1>5. Put(t, idx, r) = WithRanges(t, qs)
  BY DEF Put
<1>6. Pairwise(qs)
  <2> HIDE DEF qs, rs
  <2>1. idx \in DOMAIN rs /\ Fits(rs, idx, r)
    BY DEF rs
  <2>2. ASSUME NEW i \in DOMAIN qs, NEW j \in DOMAIN qs, i # j
        PROVE  qs[i].name # qs[j].name /\ Disjoint(qs[i].cidr, qs[j].cidr)
    <3>1. CASE i = idx
      BY <1>4, <2>1, <2>2, <3>1 DEF Fits, Disjoint
    <3>2. CASE j = idx
      BY <1>4, <2>1, <2>2, <3>2 DEF Fits
    <3>3. CASE i # idx /\ j # idx
      BY <1>1, <1>4, <2>2, <3>3 DEF Pairwise
    <3> QED BY <3>1, <3>2, <3>3
  <2>3. ASSUME NEW i \in DOMAIN qs, qs[i].bal # NoText
        PROVE  PrefixContains(qs[i].cidr, qs[i].bal.val)
    <3>1. CASE i = idx
      BY <1>4, <2>1, <2>3, <3>1 DEF Fits
    <3>2. CASE i # idx
      BY <1>1, <1>4, <2>3, <3>2 DEF Pairwise
    <3> QED BY <3>1, <3>2
  <2> QED BY <2>2, <2>3 DEF Pairwise
<1> HIDE DEF qs
<1>7. /\ SoundTopology(WithRanges(t, qs)) /\ WithRanges(t, qs).kind = t.kind
      /\ WithRanges(t, qs).nodes = t.nodes /\ WithRanges(t, qs).ranges = qs
  BY <1>3, <1>6, SoundWith
<1> QED BY <1>4, <1>5, <1>7 DEF Replaced

(* Command c names the range at idx and r, and moves no block but to resize.*)
Concerns(t, idx, r, c) ==
    /\ t.ranges[idx].name \in {c.name, c.newName} /\ r.name \in {c.name, c.newName}
    /\ c.op = "resize" \/ r.cidr = t.ranges[idx].cidr

(* Replacing a range that the command names by one that it names. *)
LEMMA PutKeeps ==
  ASSUME NEW t, SoundTopology(t), NEW idx \in DOMAIN t.ranges, NEW r, Fits(t.ranges, idx, r), NEW c,
         Concerns(t, idx, r, c)
  PROVE  Edits(t, c, Put(t, idx, r))
<1> DEFINE f == Put(t, idx, r)
<1>0. Replaced(t, idx, r, f)
  BY PutSound
<1> HIDE DEF f
<1>1. /\ SoundTopology(f) /\ f.kind = t.kind /\ f.nodes = t.nodes
      /\ DOMAIN f.ranges = DOMAIN t.ranges /\ f.ranges[idx] = r
      /\ \A i \in DOMAIN t.ranges : i # idx => f.ranges[i] = t.ranges[i]
  BY <1>0 DEF Replaced
<1>2. \A x : x \in Kept(f, c) => x \in Kept(t, c)
  BY <1>1 DEF Kept, Entries, Concerns
<1>3. \A x : x \in Kept(t, c) => x \in Kept(f, c)
  BY <1>1 DEF Kept, Entries, Concerns
<1>4. ASSUME c.op # "resize", NEW ip, Covered(t, ip) PROVE Covered(f, ip)
  <2>1. PICK i \in DOMAIN t.ranges : ParseRangeOk(t.ranges[i]) /\ PrefixContains(Masked(t.ranges[i].cidr), ip.val)
    BY <1>4 DEF Covered
  <2>2. i \in DOMAIN f.ranges /\ f.ranges[i].cidr = t.ranges[i].cidr
    BY <1>1, <1>4 DEF Concerns
  <2>3. ParseRangeOk(f.ranges[i])
    BY <1>1, <2>2, SoundParts, RangesParse
  <2> QED BY <2>1, <2>2, <2>3 DEF Covered
<1>5. Uncovers(t, f) => c.op = "resize"
  BY <1>4 DEF Uncovers
<1>6. Kept(f, c) = Kept(t, c)
  BY <1>2, <1>3
<1> QED BY <1>1, <1>5, <1>6 DEF Edits, f

(* Every command that writes is one of Commands, with texts for arguments. *)
LEMMA CommandsHaveTexts ==
  ASSUME NEW c \in Commands
  PROVE  /\ c.name \in STRING /\ c.newName \in STRING
         /\ Parses(c.cidr) => c.cidr \in CIDRs
         /\ c.bal # BadText => c.bal \in AddrTexts \cup {NoText}
BY FileAssumption DEF Parses

(* ip range add. *)
LEMMA AddKeeps ==
  ASSUME NEW t, SoundTopology(t), NEW c \in Commands, NEW f \in ipRangeAdd(t, c)
  PROVE  Edits(t, c, f)
<1> DEFINE rs == t.ranges
           r == RangeText(c.name, c.cidr, c.bal)
           n == Len(rs) + 1
           qs == Append(rs, r)
<1>1. /\ findRangeIndex(t, c.name) = 0 /\ ParseRangeOk(r) /\ ~OverlapsOther(t, Masked(c.cidr), 0)
      /\ BalancerInside(Masked(c.cidr), c.bal) /\ f = WithRanges(t, qs)
  BY DEF ipRangeAdd
<1>2. r.name = c.name /\ r.cidr = c.cidr /\ r.bal = c.bal
  BY SMTT(30) DEF RangeText
<1>3. c.cidr \in CIDRs /\ c.bal \in AddrTexts \cup {NoText} /\ c.name \in STRING
  BY <1>1, <1>2, CommandsHaveTexts DEF ParseRangeOk
<1>4. r \in RangeTexts
  BY <1>3, RangeTextIs
<1>5. rs \in Seq(RangeTexts) /\ Pairwise(rs)
  BY SoundParts
<1>6. \A i \in DOMAIN rs : rs[i].name # r.name /\ Disjoint(rs[i].cidr, r.cidr)
  <2>1. 0 \notin DOMAIN rs
    BY <1>5, SMTT(30)
  <2>2. \A i \in DOMAIN rs : rs[i].name # c.name
    BY <1>1, <1>5, FoundIndex
  <2>3. \A i \in DOMAIN rs : Disjoint(rs[i].cidr, c.cidr)
    BY <1>1, <1>3, <2>1, NoOtherOverlaps
  <2> QED BY <1>2, <2>2, <2>3
<1>7. r.bal # NoText => PrefixContains(r.cidr, r.bal.val)
  BY <1>1, <1>2, <1>3, BalancerIsInside
<1> HIDE DEF r
<1>8. qs \in Seq(RangeTexts)
  <2> HIDE DEF RangeTexts, rs
  <2> QED BY <1>4, <1>5, SMTT(30)
<1>9. DOMAIN qs = DOMAIN rs \cup {n} /\ n \notin DOMAIN rs /\ qs[n] = r /\ \A i \in DOMAIN rs : qs[i] = rs[i]
  <2> HIDE DEF RangeTexts, rs
  <2> QED BY <1>4, <1>5, SMTT(30)
<1> HIDE DEF qs, n, rs
<1>10. Pairwise(qs)
  <2>1. ASSUME NEW i \in DOMAIN qs, NEW j \in DOMAIN qs, i # j
        PROVE  qs[i].name # qs[j].name /\ Disjoint(qs[i].cidr, qs[j].cidr)
    <3>1. CASE i = n
      BY <1>6, <1>9, <2>1, <3>1 DEF Disjoint
    <3>2. CASE j = n
      BY <1>6, <1>9, <2>1, <3>2
    <3>3. CASE i # n /\ j # n
      BY <1>5, <1>9, <2>1, <3>3 DEF Pairwise
    <3> QED BY <3>1, <3>2, <3>3
  <2>2. ASSUME NEW i \in DOMAIN qs, qs[i].bal # NoText
        PROVE  PrefixContains(qs[i].cidr, qs[i].bal.val)
    BY <1>5, <1>7, <1>9, <2>2 DEF Pairwise
  <2> QED BY <2>1, <2>2 DEF Pairwise
<1>11. SoundTopology(f) /\ f.nodes = t.nodes /\ f.ranges = qs
  BY <1>1, <1>8, <1>10, SoundWith
<1>12. Kept(f, c) = Kept(t, c)
  <2>1. ASSUME NEW x \in Kept(f, c) PROVE x \in Kept(t, c)
    <3>1. PICK i \in DOMAIN qs : x = qs[i]
      BY <1>11, <2>1 DEF Kept, Entries
    <3>2. i # n
      BY <1>2, <1>9, <2>1, <3>1 DEF Kept
    <3>3. x \in Entries(t)
      BY <1>9, <3>1, <3>2 DEF Entries, rs
    <3> QED BY <2>1, <3>3 DEF Kept
  <2>2. \A x : x \in Kept(t, c) => x \in Kept(f, c)
    BY <1>9, <1>11 DEF Kept, Entries, rs
  <2> QED BY <2>1, <2>2
<1>13. \A ip : Covered(t, ip) => Covered(f, ip)
  BY <1>9, <1>11 DEF Covered, rs
<1> QED BY <1>11, <1>12, <1>13 DEF Edits, Uncovers

(* ip range resize: the new block is checked against the others, the old   *)
(* balancer against the new block.                                         *)
LEMMA ResizeKeeps ==
  ASSUME NEW t, SoundTopology(t), NEW c \in Commands, c.op = "resize", NEW f \in ipRangeResize(t, c)
  PROVE  Edits(t, c, f)
<1> DEFINE idx == findRangeIndex(t, c.name)
           old == t.ranges[idx]
           r == RangeText(old.name, c.cidr, old.bal)
<1>1. /\ idx # 0 /\ Parses(c.cidr) /\ ~OverlapsOther(t, Masked(c.cidr), idx)
      /\ BalancerInside(Masked(c.cidr), old.bal) /\ f = Put(t, idx, r)
  BY DEF ipRangeResize
<1>2. t.ranges \in Seq(RangeTexts) /\ Pairwise(t.ranges)
  BY SoundParts
<1>3. idx \in DOMAIN t.ranges /\ old.name = c.name
  BY <1>1, <1>2, FoundIndex
<1>4. old \in RangeTexts
  BY <1>3, SoundParts
<1> HIDE DEF idx, old
<1>5. old.name \in STRING /\ old.bal \in AddrTexts \cup {NoText} /\ c.cidr \in CIDRs
  BY <1>1, <1>4, RangesHaveFields, CommandsHaveTexts
<1>6. r.name = old.name /\ r.cidr = c.cidr /\ r.bal = old.bal /\ r \in RangeTexts
  <2>1. r.name = old.name /\ r.cidr = c.cidr /\ r.bal = old.bal
    BY SMTT(30) DEF RangeText
  <2>2. r \in RangeTexts
    BY <1>5, RangeTextIs
  <2> QED BY <2>1, <2>2
<1> HIDE DEF r
<1>7. Fits(t.ranges, idx, r)
  <2>1. \A i \in DOMAIN t.ranges : i # idx => t.ranges[i].name # r.name
    BY <1>2, <1>3, <1>6 DEF Pairwise, old
  <2>2. \A i \in DOMAIN t.ranges : i # idx => Disjoint(t.ranges[i].cidr, r.cidr)
    BY <1>1, <1>5, <1>6, NoOtherOverlaps
  <2>3. r.bal # NoText => PrefixContains(r.cidr, r.bal.val)
    BY <1>1, <1>5, <1>6, BalancerIsInside
  <2> QED BY <1>6, <2>1, <2>2, <2>3 DEF Fits
<1>9. Concerns(t, idx, r, c)
  BY <1>3, <1>6 DEF Concerns, old
<1>10. Edits(t, c, Put(t, idx, r))
  BY <1>3, <1>7, <1>9, PutKeeps
<1> QED BY <1>1, <1>10

(* ip range rename. *)
LEMMA RenameKeeps ==
  ASSUME NEW t, SoundTopology(t), NEW c \in Commands, NEW f \in ipRangeRename(t, c)
  PROVE  Edits(t, c, f)
<1> DEFINE idx == findRangeIndex(t, c.name)
           old == t.ranges[idx]
           r == RangeText(c.newName, old.cidr, old.bal)
<1>1. /\ idx # 0 /\ \A i \in DOMAIN t.ranges \ {idx} : t.ranges[i].name # c.newName
      /\ f = Put(t, idx, r)
  BY DEF ipRangeRename
<1>2. t.ranges \in Seq(RangeTexts) /\ Pairwise(t.ranges)
  BY SoundParts
<1>3. idx \in DOMAIN t.ranges /\ old.name = c.name
  BY <1>1, <1>2, FoundIndex
<1>4. old \in RangeTexts
  BY <1>3, SoundParts
<1> HIDE DEF idx, old
<1>5. old.cidr \in CIDRs /\ old.bal \in AddrTexts \cup {NoText} /\ c.newName \in STRING
  BY <1>4, RangesHaveFields, CommandsHaveTexts
<1>6. r.name = c.newName /\ r.cidr = old.cidr /\ r.bal = old.bal /\ r \in RangeTexts
  <2>1. r.name = c.newName /\ r.cidr = old.cidr /\ r.bal = old.bal
    BY SMTT(30) DEF RangeText
  <2>2. r \in RangeTexts
    BY <1>5, RangeTextIs
  <2> QED BY <2>1, <2>2
<1> HIDE DEF r
<1>7. Fits(t.ranges, idx, r)
  BY <1>1, <1>2, <1>3, <1>6 DEF Pairwise, Fits, old
<1>9. Concerns(t, idx, r, c)
  BY <1>3, <1>6 DEF Concerns, old
<1>10. Edits(t, c, Put(t, idx, r))
  BY <1>3, <1>7, <1>9, PutKeeps
<1> QED BY <1>1, <1>10

(* ip range set-balancer. *)
LEMMA SetBalancerKeeps ==
  ASSUME NEW t, SoundTopology(t), NEW c \in Commands, NEW f \in ipRangeSetBalancer(t, c)
  PROVE  Edits(t, c, f)
<1> DEFINE idx == findRangeIndex(t, c.name)
           old == t.ranges[idx]
           r == RangeText(old.name, old.cidr, c.bal)
<1>1. /\ idx # 0 /\ c.bal # NoText /\ BalancerInside(Masked(old.cidr), c.bal) /\ f = Put(t, idx, r)
  BY DEF ipRangeSetBalancer
<1>2. t.ranges \in Seq(RangeTexts) /\ Pairwise(t.ranges)
  BY SoundParts
<1>3. idx \in DOMAIN t.ranges /\ old.name = c.name
  BY <1>1, <1>2, FoundIndex
<1>4. old \in RangeTexts
  BY <1>3, SoundParts
<1> HIDE DEF idx, old
<1>5. old.name \in STRING /\ old.cidr \in CIDRs /\ c.bal \in AddrTexts \cup {NoText}
  BY <1>1, <1>4, RangesHaveFields, CommandsHaveTexts DEF BalancerInside
<1>6. r.name = old.name /\ r.cidr = old.cidr /\ r.bal = c.bal /\ r \in RangeTexts
  <2>1. r.name = old.name /\ r.cidr = old.cidr /\ r.bal = c.bal
    BY SMTT(30) DEF RangeText
  <2>2. r \in RangeTexts
    BY <1>5, RangeTextIs
  <2> QED BY <2>1, <2>2
<1> HIDE DEF r
<1>7. r.bal # NoText => PrefixContains(r.cidr, r.bal.val)
  BY <1>1, <1>5, <1>6, BalancerIsInside
<1>8. Fits(t.ranges, idx, r)
  BY <1>2, <1>3, <1>6, <1>7 DEF Pairwise, Fits, old
<1>9. Concerns(t, idx, r, c)
  BY <1>3, <1>6 DEF Concerns, old
<1>10. Edits(t, c, Put(t, idx, r))
  BY <1>3, <1>8, <1>9, PutKeeps
<1> QED BY <1>1, <1>10

(* ip range delete: the last range takes the place of the deleted one.     *)
LEMMA DeleteKeeps ==
  ASSUME NEW t, SoundTopology(t), NEW c \in Commands, NEW f \in ipRangeDelete(t, c)
  PROVE  Edits(t, c, f)
<1> DEFINE rs == t.ranges
           idx == findRangeIndex(t, c.name)
           n == Len(rs)
           qs == [i \in 1 .. n - 1 |-> IF i = idx THEN rs[n] ELSE rs[i]]
           at(i) == IF i = idx THEN n ELSE i
<1>1. /\ idx # 0 /\ ~checkNodesUseRange(t, Masked(rs[idx].cidr)) /\ f = WithRanges(t, qs)
  BY DEF ipRangeDelete
<1>2. rs \in Seq(RangeTexts) /\ Pairwise(rs) /\ \A i \in DOMAIN rs : rs[i] \in RangeTexts
  BY SoundParts
<1>3. idx \in DOMAIN rs /\ rs[idx].name = c.name
  BY <1>1, <1>2, FoundIndex
<1> HIDE DEF idx, rs
<1>4. n \in Nat /\ DOMAIN rs = 1 .. n /\ DOMAIN qs = 1 .. n - 1
  BY <1>2, SMTT(30)
<1>5. \A i \in DOMAIN qs : at(i) \in DOMAIN rs \ {idx} /\ qs[i] = rs[at(i)]
  BY <1>3, <1>4, SMTT(30)
<1>6. \A i, j \in DOMAIN qs : i # j => at(i) # at(j)
  BY <1>3, <1>4, SMTT(30)
<1>7. \A j \in DOMAIN rs \ {idx} : \E i \in DOMAIN qs : at(i) = j
  <2> SUFFICES ASSUME NEW j \in DOMAIN rs \ {idx} PROVE \E i \in DOMAIN qs : at(i) = j
    OBVIOUS
  <2>1. CASE j = n
    <3>1. idx \in DOMAIN qs
      BY <1>3, <1>4, <2>1, SMTT(30)
    <3> QED BY <2>1, <3>1
  <2>2. CASE j # n
    <3>1. j \in DOMAIN qs
      BY <1>4, <2>2, SMTT(30)
    <3> QED BY <2>2, <3>1
  <2> QED BY <2>1, <2>2
<1>8. qs \in Seq(RangeTexts)
  <2>1. \A i \in 1 .. n - 1 : qs[i] \in RangeTexts
    BY <1>2, <1>4, <1>5
  <2>2. n - 1 \in Nat
    BY <1>3, <1>4, SMTT(30)
  <2>3. qs \in [1 .. n - 1 -> RangeTexts]
    BY <2>1
  <2> HIDE DEF qs, n, RangeTexts
  <2> QED BY <2>2, <2>3, SMTT(30)
<1> HIDE DEF qs, n, at
<1>9. Pairwise(qs)
  <2>1. ASSUME NEW i \in DOMAIN qs, NEW j \in DOMAIN qs, i # j
        PROVE  qs[i].name # qs[j].name /\ Disjoint(qs[i].cidr, qs[j].cidr)
    <3>1. at(i) # at(j) /\ at(i) \in DOMAIN rs /\ at(j) \in DOMAIN rs /\ qs[i] = rs[at(i)] /\ qs[j] = rs[at(j)]
      BY <1>5, <1>6, <2>1
    <3> QED BY <1>2, <3>1 DEF Pairwise
  <2>2. ASSUME NEW i \in DOMAIN qs, qs[i].bal # NoText
        PROVE  PrefixContains(qs[i].cidr, qs[i].bal.val)
    BY <1>2, <1>5, <2>2 DEF Pairwise
  <2> QED BY <2>1, <2>2 DEF Pairwise
<1>10. SoundTopology(f) /\ f.nodes = t.nodes /\ f.ranges = qs
  BY <1>1, <1>8, <1>9, SoundWith
<1>11. \A j \in DOMAIN rs \ {idx} : \E i \in DOMAIN qs : qs[i] = rs[j]
  BY <1>5, <1>7
<1>12. Kept(f, c) = Kept(t, c)
  <2>1. ASSUME NEW x \in Kept(f, c) PROVE x \in Kept(t, c)
    <3>1. PICK i \in DOMAIN qs : x = qs[i]
      BY <1>10, <2>1 DEF Kept, Entries
    <3>2. x \in Entries(t)
      BY <1>5, <3>1 DEF Entries, rs
    <3> QED BY <2>1, <3>2 DEF Kept
  <2>2. ASSUME NEW x \in Kept(t, c) PROVE x \in Kept(f, c)
    <3>1. PICK j \in DOMAIN rs : x = rs[j]
      BY <2>2 DEF Kept, Entries, rs
    <3>2. j # idx
      BY <1>3, <2>2, <3>1 DEF Kept
    <3>3. PICK i \in DOMAIN qs : qs[i] = rs[j]
      BY <1>11, <3>2
    <3>4. x \in Entries(f)
      BY <1>10, <3>1, <3>3 DEF Entries
    <3> QED BY <2>2, <3>4 DEF Kept
  <2> QED BY <2>1, <2>2
<1>13. ~Uncovers(t, f)
  <2> SUFFICES ASSUME NEW ip \in t.nodes, Parses(ip), ~ip.mapped, Covered(t, ip) PROVE Covered(f, ip)
    BY DEF Uncovers
  <2>1. PICK j \in DOMAIN rs : ParseRangeOk(rs[j]) /\ PrefixContains(Masked(rs[j].cidr), ip.val)
    BY DEF Covered, rs
  <2>2. j # idx
    BY <1>1, <2>1 DEF checkNodesUseRange, RangeContains
  <2>3. PICK i \in DOMAIN qs : qs[i] = rs[j]
    BY <1>11, <2>2
  <2> QED BY <1>10, <2>1, <2>3 DEF Covered
<1> QED BY <1>10, <1>12, <1>13 DEF Edits

(* migrate writes the nodes it read, in schema 2, without ranges. *)
LEMMA MigrateKeeps ==
  ASSUME NEW t, NEW c, NEW k, NEW f \in MigrateFile(t, k, c)
  PROVE  Edits(t, c, f)
<1>1. f = Contents("v2", <<>>, t.nodes)
  BY DEF MigrateFile
<1>2. f.kind = "v2" /\ f.ranges = <<>> /\ f.nodes = t.nodes
  BY <1>1, SMTT(30) DEF Contents
<1>3. <<>> \in Seq(RangeTexts) /\ Pairwise(<<>>)
  BY SMTT(30) DEF Pairwise
<1>4. SoundTopology(f)
  BY <1>1, <1>2, <1>3, SoundIsPairwise DEF SoundTopology, Kinds
<1> QED BY <1>2, <1>4 DEF Edits

(* What any command makes of its copy. *)
LEMMA EditedKeeps ==
  ASSUME NEW o \in Editors, cmd[o] \in Commands, SoundTopology(mem[o]), NEW f \in Edited(o)
  PROVE  Edits(mem[o], cmd[o], f)
<1> DEFINE c == cmd[o]
           t == mem[o]
<1>1. \/ f \in ipRangeAdd(t, c)
      \/ c.op = "resize" /\ f \in ipRangeResize(t, c)
      \/ f \in ipRangeRename(t, c)
      \/ f \in ipRangeDelete(t, c)
      \/ f \in ipRangeSetBalancer(t, c)
      \/ f \in MigrateFile(t, rawKind[o], c)
      \/ f = t
  BY DEF Edited
<1>2. c \in Commands /\ SoundTopology(t)
  OBVIOUS
<1> HIDE DEF c, t
<1> SUFFICES Edits(t, c, f)
  BY DEF c, t
<1>3. Edits(t, c, t)
  BY <1>2 DEF Edits, Uncovers
<1>4. CASE f \in ipRangeAdd(t, c)
  BY <1>2, <1>4, AddKeeps
<1>5. CASE c.op = "resize" /\ f \in ipRangeResize(t, c)
  BY <1>2, <1>5, ResizeKeeps
<1>6. CASE f \in ipRangeRename(t, c)
  BY <1>2, <1>6, RenameKeeps
<1>7. CASE f \in ipRangeDelete(t, c)
  BY <1>2, <1>7, DeleteKeeps
<1>8. CASE f \in ipRangeSetBalancer(t, c)
  BY <1>2, <1>8, SetBalancerKeeps
<1>9. CASE f \in MigrateFile(t, rawKind[o], c)
  BY <1>9, MigrateKeeps
<1> QED BY <1>1, <1>3, <1>4, <1>5, <1>6, <1>7, <1>8, <1>9

(* The contents that a lenient load makes of anything else. *)
LEMMA EmptyIsSound ==
  ASSUME NEW k \in Kinds
  PROVE  /\ SoundTopology(Contents(k, <<>>, {})) /\ Contents(k, <<>>, {}).kind = k
<1> DEFINE f == Contents(k, <<>>, {})
<1>1. f.kind = k /\ f.ranges = <<>> /\ f.nodes = {}
  BY SMTT(30) DEF Contents
<1>2. <<>> \in Seq(RangeTexts) /\ Pairwise(<<>>)
  BY SMTT(30) DEF Pairwise
<1>3. f = Contents(f.kind, f.ranges, f.nodes)
  BY <1>1
<1>4. SoundRanges(<<>>)
  BY <1>2, SoundIsPairwise
<1> HIDE DEF f
<1>5. SoundTopology(f) /\ f.kind = k
  BY <1>1, <1>2, <1>3, <1>4 DEF SoundTopology
<1> QED BY <1>5 DEF f

(* An editor that is done holds nothing; what the others hold is as before *)
(* if the file is, or if they now count as overtaken.                      *)
LEMMA DoneKeeps ==
  ASSUME TopologyInv, NEW o \in Editors, Done(o), UNCHANGED <<edits, blindRead>>,
         UNCHANGED <<topologyFile, fresh>> \/ fresh' = Others(o)
  PROVE  /\ \A p \in Editors : CopyInv(p)'
         /\ tpc' \in [Editors -> {"idle", "loaded", "truncated"}]
         /\ cmd' \in [Editors -> Commands \cup {NoText}] /\ rawKind' \in [Editors -> Kinds]
         /\ fresh' \in [Editors -> BOOLEAN]
         /\ mem' = [p \in Editors |-> mem'[p]]
<1>1. /\ tpc' \in [Editors -> {"idle", "loaded", "truncated"}]
      /\ cmd' \in [Editors -> Commands \cup {NoText}] /\ rawKind' \in [Editors -> Kinds]
      /\ tpc'[o] = "idle" /\ \A p \in Editors : p # o => tpc'[p] = tpc[p] /\ cmd'[p] = cmd[p]
  BY DEF TopologyInv, FileTypeOK, Done, Kinds
<1>2. DOMAIN mem = Editors
  BY DEF TopologyInv
<1>3. /\ mem' = [p \in Editors |-> mem'[p]] /\ mem'[o] = EmptyTopology
      /\ \A p \in Editors : p # o => mem'[p] = mem[p]
  BY <1>2 DEF Done
<1>4. fresh' \in [Editors -> BOOLEAN]
  BY DEF TopologyInv, FileTypeOK, Others
<1>5. \A p \in Editors : p # o /\ fresh'[p] => fresh[p] /\ topologyFile' = topologyFile
  BY DEF Others
<1>6. ASSUME NEW p \in Editors PROVE CopyInv(p)'
  <2>1. CASE p = o
    <3>1. SoundTopology(EmptyTopology) /\ EmptyTopology.kind = "v1"
      BY EmptyIsSound DEF Kinds, EmptyTopology
    <3>2. SoundTopology(mem'[p]) /\ mem'[p].kind = "v1" /\ tpc'[p] = "idle"
      BY <1>1, <1>3, <2>1, <3>1
    <3> QED BY <3>2 DEF CopyInv, SoundTopology
  <2>2. CASE p # o
    <3>1. mem'[p] = mem[p] /\ tpc'[p] = tpc[p] /\ cmd'[p] = cmd[p] /\ blindRead' = blindRead
      BY <1>1, <1>3, <2>2
    <3>2. CopyInv(p)
      BY DEF TopologyInv
    <3>3. SoundTopology(mem'[p])
      BY <3>1, <3>2 DEF CopyInv
    <3>4. fresh'[p] => fresh[p] /\ topologyFile' = topologyFile
      BY <1>5, <2>2
    <3>5. tpc'[p] # "idle" /\ fresh'[p] /\ topologyFile'.kind = "v1" => mem'[p] = topologyFile'
      BY <3>1, <3>2, <3>4 DEF CopyInv
    <3>6. mem[p].kind = "v1" /\ (tpc[p] # "idle" => cmd[p] \in Commands /\ (mem[p].nodes = {} => blindRead))
      BY <3>2 DEF CopyInv
    <3>7. mem'[p].kind = "v1" /\ (tpc'[p] # "idle" => cmd'[p] \in Commands)
      BY <3>1, <3>6
    <3>8. tpc'[p] # "idle" /\ mem'[p].nodes = {} => blindRead'
      <4>1. tpc'[p] # "idle" /\ mem'[p].nodes = {} => blindRead
        BY <3>1, <3>6
      <4>2. blindRead => blindRead'
        BY <3>1, SMTT(30)
      <4> QED BY <4>1, <4>2
    <3> QED BY <3>3, <3>5, <3>7, <3>8 DEF CopyInv, SoundTopology
  <2> QED BY <2>1, <2>2
<1> QED BY <1>1, <1>3, <1>4, <1>6

(* Writing f, contents that are sound and keep the nodes, as the last step.*)
LEMMA WriteKeeps ==
  ASSUME TopologyInv, NEW o \in Editors, Done(o), UNCHANGED <<edits, blindRead>>, fresh' = Others(o),
         SoundTopology(topologyFile'), topologyFile'.kind = "v1" /\ topologyFile'.nodes = {} => blindRead
  PROVE  TopologyInv'
<1>1. /\ \A p \in Editors : CopyInv(p)'
      /\ tpc' \in [Editors -> {"idle", "loaded", "truncated"}]
      /\ cmd' \in [Editors -> Commands \cup {NoText}] /\ rawKind' \in [Editors -> Kinds]
      /\ fresh' \in [Editors -> BOOLEAN]
      /\ mem' = [p \in Editors |-> mem'[p]]
  BY DoneKeeps
<1>2. SoundTopology(topologyFile)' /\ topologyFile'.kind \in Kinds
  BY DEF SoundTopology
<1>3. NodesKept'
  BY DEF NodesKept
<1> QED BY <1>1, <1>2, <1>3 DEF TopologyInv, FileTypeOK

(* Ending without a write. *)
LEMMA GiveUpKeeps ==
  ASSUME TopologyInv, NEW o \in Editors, Done(o), UNCHANGED <<topologyFile, fresh, edits, blindRead>>
  PROVE  TopologyInv'
<1>1. /\ \A p \in Editors : CopyInv(p)'
      /\ tpc' \in [Editors -> {"idle", "loaded", "truncated"}]
      /\ cmd' \in [Editors -> Commands \cup {NoText}] /\ rawKind' \in [Editors -> Kinds]
      /\ fresh' \in [Editors -> BOOLEAN]
      /\ mem' = [p \in Editors |-> mem'[p]]
  BY DoneKeeps
<1>2. SoundTopology(topologyFile)'
  BY DEF SoundTopology, TopologyInv
<1>3. NodesKept'
  BY DEF NodesKept, TopologyInv
<1> QED BY <1>1, <1>2, <1>3 DEF TopologyInv, FileTypeOK

(* LoadTopology. *)
LEMMA LoadKeeps ==
  ASSUME TopologyInv, NEW o \in Editors, LoadTopology(o)
  PROVE  TopologyInv'
<1>1. PICK c \in Commands : cmd' = [cmd EXCEPT ![o] = c]
  BY DEF LoadTopology
<1>2. /\ tpc' \in [Editors -> {"idle", "loaded", "truncated"}]
      /\ cmd' \in [Editors -> Commands \cup {NoText}] /\ rawKind' \in [Editors -> Kinds]
      /\ fresh' \in [Editors -> BOOLEAN] /\ blindRead' \in BOOLEAN
  BY <1>1 DEF TopologyInv, FileTypeOK, LoadTopology
<1>3. edits' \in 0 .. MaxEdits
  BY FileAssumption, SMTT(30) DEF TopologyInv, FileTypeOK, LoadTopology
<1>4. DOMAIN mem = Editors /\ DOMAIN cmd = Editors /\ DOMAIN tpc = Editors /\ DOMAIN fresh = Editors
  BY DEF TopologyInv, FileTypeOK
<1> DEFINE m == IF topologyFile.kind = "v1" THEN topologyFile ELSE EmptyTopology
<1>5. /\ mem' = [p \in Editors |-> mem'[p]] /\ mem'[o] = m
      /\ \A p \in Editors : p # o => mem'[p] = mem[p]
  BY <1>4 DEF LoadTopology
<1>6. /\ cmd'[o] = c /\ \A p \in Editors : p # o => /\ cmd'[p] = cmd[p] /\ tpc'[p] = tpc[p]
                                                   /\ fresh'[p] = fresh[p]
  BY <1>1, <1>4 DEF LoadTopology
<1>7. topologyFile' = topologyFile /\ blindRead' = (blindRead \/ topologyFile.kind # "v1")
  BY DEF LoadTopology
<1>8. SoundTopology(EmptyTopology) /\ EmptyTopology.kind = "v1"
  BY EmptyIsSound DEF Kinds, EmptyTopology
<1>9. /\ SoundTopology(m) /\ m.kind = "v1" /\ (m.nodes = {} => blindRead')
      /\ topologyFile.kind = "v1" => m = topologyFile
  <2>1. CASE topologyFile.kind = "v1"
    BY <1>7, <2>1 DEF TopologyInv, NodesKept
  <2>2. CASE topologyFile.kind # "v1"
    BY <1>7, <1>8, <2>2
  <2> QED BY <2>1, <2>2
<1> HIDE DEF m
<1>10. ASSUME NEW p \in Editors PROVE CopyInv(p)'
  <2>1. CASE p = o
    <3>1. /\ SoundTopology(mem'[p]) /\ mem'[p].kind = "v1" /\ (mem'[p].nodes = {} => blindRead')
          /\ topologyFile'.kind = "v1" => mem'[p] = topologyFile'
      BY <1>5, <1>7, <1>9, <2>1
    <3>2. cmd'[p] \in Commands
      BY <1>6, <2>1
    <3> QED BY <3>1, <3>2 DEF CopyInv, SoundTopology
  <2>2. CASE p # o
    <3>1. CopyInv(p)
      BY DEF TopologyInv
    <3>2. SoundTopology(mem'[p])
      BY <1>5, <2>2, <3>1 DEF CopyInv
    <3> QED BY <1>5, <1>6, <1>7, <2>2, <3>1, <3>2 DEF CopyInv, SoundTopology
  <2> QED BY <2>1, <2>2
<1>11. SoundTopology(topologyFile)' /\ NodesKept'
  BY <1>7 DEF SoundTopology, TopologyInv, NodesKept
<1>12. topologyFile'.kind \in Kinds
  BY <1>7 DEF TopologyInv, FileTypeOK
<1> QED BY <1>2, <1>3, <1>5, <1>10, <1>11, <1>12 DEF TopologyInv, FileTypeOK

(* capture schedule truncates the file. *)
LEMMA TruncateKeeps ==
  ASSUME TopologyInv, NEW o \in Editors, scheduleTruncate(o)
  PROVE  TopologyInv'
<1>1. SoundTopology(topologyFile') /\ topologyFile'.kind = "empty"
  BY EmptyIsSound DEF scheduleTruncate, Kinds
<1>2. /\ tpc' \in [Editors -> {"idle", "loaded", "truncated"}] /\ fresh' \in [Editors -> BOOLEAN]
      /\ \A p \in Editors : tpc'[p] # "idle" => tpc[p] # "idle"
  BY DEF TopologyInv, FileTypeOK, scheduleTruncate, Others
<1>3. UNCHANGED <<cmd, mem, rawKind, edits, blindRead>>
  BY DEF scheduleTruncate
<1>4. ASSUME NEW p \in Editors PROVE CopyInv(p)'
  <2>1. CopyInv(p)
    BY DEF TopologyInv
  <2>2. SoundTopology(mem'[p])
    BY <1>3, <2>1 DEF CopyInv
  <2> QED BY <1>1, <1>2, <1>3, <2>1, <2>2 DEF CopyInv, SoundTopology
<1>5. SoundTopology(topologyFile)' /\ NodesKept'
  BY <1>1 DEF SoundTopology, NodesKept
<1> QED BY <1>1, <1>2, <1>3, <1>4, <1>5 DEF TopologyInv, FileTypeOK, Kinds

(* A range command's write: its result, and that the invariant survives.   *)
LEMMA SaveKeeps ==
  ASSUME TopologyInv, NEW o \in Editors, SaveTopology(o)
  PROVE  TopologyInv' /\ Edits(mem[o], cmd[o], topologyFile')
<1>1. CopyInv(o) /\ tpc[o] # "idle"
  BY DEF TopologyInv, SaveTopology
<1>2. cmd[o] \in Commands /\ SoundTopology(mem[o]) /\ (mem[o].nodes = {} => blindRead)
  BY <1>1 DEF CopyInv
<1>3. topologyFile' \in Edited(o)
  BY DEF SaveTopology
<1>4. Edits(mem[o], cmd[o], topologyFile')
  BY <1>2, <1>3, EditedKeeps
<1>5. SoundTopology(topologyFile') /\ (topologyFile'.kind = "v1" /\ topologyFile'.nodes = {} => blindRead)
  BY <1>2, <1>4 DEF Edits
<1>6. Done(o) /\ UNCHANGED <<edits, blindRead>> /\ fresh' = Others(o)
  BY DEF SaveTopology
<1> QED BY <1>4, <1>5, <1>6, WriteKeeps

(* The changes that a write may make to the file it read. *)
FileEdit ==
    \A o \in Editors : SaveTopology(o) /\ fresh[o] /\ topologyFile.kind = "v1" =>
      Edits(topologyFile, cmd[o], topologyFile')

LEMMA TopologySteps ==
  ASSUME TopologyInv, [FileNext]_tvars
  PROVE  TopologyInv' /\ FileEdit
<1>1. ASSUME UNCHANGED tvars PROVE TopologyInv'
  <2>1. /\ topologyFile' = topologyFile /\ tpc' = tpc /\ cmd' = cmd /\ mem' = mem /\ rawKind' = rawKind
        /\ fresh' = fresh /\ edits' = edits /\ blindRead' = blindRead
    BY <1>1 DEF tvars
  <2> QED BY <2>1 DEF TopologyInv, FileTypeOK, SoundTopology, NodesKept, CopyInv
<1>2. ASSUME NEW o \in Editors, scheduleWrite(o) PROVE TopologyInv'
  <2>1. CopyInv(o) /\ tpc[o] # "idle" /\ topologyFile' = mem[o]
    BY <1>2 DEF TopologyInv, scheduleWrite
  <2>2. SoundTopology(topologyFile') /\ (topologyFile'.kind = "v1" /\ topologyFile'.nodes = {} => blindRead)
    BY <2>1 DEF CopyInv
  <2>3. Done(o) /\ UNCHANGED <<edits, blindRead>> /\ fresh' = Others(o)
    BY <1>2 DEF scheduleWrite
  <2> QED BY <2>2, <2>3, WriteKeeps
<1>3. ASSUME NEW o \in Editors, Refuse(o) \/ SaveFails(o) \/ scheduleCrash(o) PROVE TopologyInv'
  <2>1. Done(o) /\ UNCHANGED <<topologyFile, fresh, edits, blindRead>>
    BY <1>3 DEF Refuse, SaveFails, scheduleCrash
  <2> QED BY <2>1, GiveUpKeeps
<1>4. TopologyInv'
  BY <1>1, <1>2, <1>3, LoadKeeps, SaveKeeps, TruncateKeeps DEF FileNext
<1>5. FileEdit
  <2> SUFFICES ASSUME NEW o \in Editors, SaveTopology(o), fresh[o], topologyFile.kind = "v1"
               PROVE  Edits(topologyFile, cmd[o], topologyFile')
    BY DEF FileEdit
  <2>1. CopyInv(o) /\ tpc[o] # "idle"
    BY DEF TopologyInv, SaveTopology
  <2>2. mem[o] = topologyFile
    BY <2>1 DEF CopyInv
  <2>3. Edits(mem[o], cmd[o], topologyFile')
    BY SaveKeeps
  <2> QED BY <2>2, <2>3
<1> QED BY <1>4, <1>5

LEMMA TopologyInvInit ==
  ASSUME FileInit
  PROVE  TopologyInv
<1>1. topologyFile \in File0
  BY DEF FileInit
<1>2. SoundTopology(topologyFile) /\ topologyFile.nodes # {}
  BY <1>1, FileAssumption DEF SoundTopology, Kinds
<1>3. edits \in 0 .. MaxEdits
  BY FileAssumption, SMTT(30) DEF FileInit
<1>4. FileTypeOK
  BY <1>2, <1>3 DEF FileTypeOK, FileInit, Kinds, SoundTopology
<1>5. \A o \in Editors : CopyInv(o)
  BY EmptyIsSound DEF FileInit, CopyInv, EmptyTopology, Kinds
<1> QED BY <1>2, <1>4, <1>5 DEF TopologyInv, NodesKept, FileInit

(* Commands side by side, whatever the widths of addresses, the commands   *)
(* and the files they start from: every version of the file has distinct,  *)
(* disjoint ranges with their balancers inside, its nodes disappear only   *)
(* after a blind read, and a command that nobody overtook changes only the *)
(* range it names and, unless it resizes, uncovers no node (ip.go).        *)
THEOREM TopologyFileStaysSafe == FileSpec => FileSafe
<1>1. FileInit => TopologyInv
  BY TopologyInvInit
<1>2. TopologyInv /\ [FileNext]_tvars => TopologyInv' /\ FileEdit
  BY TopologySteps
<1>3. TopologyInv => FileTypeOK /\ RangesSound /\ NodesKept
  BY DEF TopologyInv, SoundTopology, RangesSound
<1> DEFINE One == \A o \in Editors : SaveTopology(o) /\ fresh[o] /\ topologyFile.kind = "v1" /\ topologyFile'.kind = "v1" =>
                    LET kept(f) == {r \in Entries(f) : r.name \notin {cmd[o].name, cmd[o].newName}}
                    IN  kept(topologyFile) = kept(topologyFile') /\ topologyFile'.nodes = topologyFile.nodes
           Cover == \A o \in Editors : SaveTopology(o) /\ fresh[o] /\ topologyFile.kind = "v1" /\ topologyFile'.kind = "v1" =>
                      \A ip \in topologyFile.nodes :
                        Parses(ip) /\ ~ip.mapped /\ Covered(topologyFile, ip) /\ ~Covered(topologyFile', ip) => cmd[o].op = "resize"
<1>4. FileEdit => One
  BY DEF FileEdit, Edits, Kept
<1>5. FileEdit => Cover
  BY DEF FileEdit, Edits, Uncovers
<1> QED BY <1>1, <1>2, <1>3, <1>4, <1>5, PTL DEF FileSpec, FileSafe, EditsOneRange, OnlyResizeUncovers
=============================================================================
