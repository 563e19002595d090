------------------------------ MODULE AuditLog ------------------------------
(***************************************************************************)
(* The control plane's audit log (pkg/control_plane/audit.go): a ring buffer *)
(* that RPC handlers append to and queries read.  An event gets its time     *)
(* before the log's lock is taken, so events may enter the ring in another   *)
(* order than their times.                                                   *)
(***************************************************************************)
EXTENDS Integers, Sequences

CONSTANTS
  Writers,    \* handlers that append
  Capacity,   \* capacity of the ring
  MaxEvents   \* bound: events

ASSUME AuditAssumption == Capacity \in Nat \ {0} /\ MaxEvents \in Nat

VARIABLES
  buf, wcursor, full,  \* the ring
  pending,             \* writer -> the event it has stamped, or NoEvent
  logged,              \* history: every event in the order it entered
  now,                 \* the clock
  flushed              \* lines of audit.log: what flushAudit has written

avars == <<buf, wcursor, full, pending, logged, now, flushed>>

Events == [time : 0..MaxEvents, id : 0..MaxEvents]
NoEvent == [time |-> 0, id |-> 0]

AuditTypeOK ==
  /\ buf \in [0..(Capacity - 1) -> Events]
  /\ wcursor \in 0..(Capacity - 1) /\ full \in BOOLEAN
  /\ pending \in [Writers -> Events] /\ logged \in Seq(Events) /\ now \in 0..MaxEvents

AuditInit ==
  /\ buf = [i \in 0..(Capacity - 1) |-> NoEvent] /\ wcursor = 0 /\ full = FALSE
  /\ pending = [w \in Writers |-> NoEvent] /\ logged = <<>> /\ now = 0 /\ flushed = <<>>

(* Append: the time is taken first ... *)
Stamp(w) ==
  /\ pending[w] = NoEvent /\ now < MaxEvents
  /\ now' = now + 1
  /\ \E t \in {now, now + 1} \ {0} :   \* two events may share a time
       pending' = [pending EXCEPT ![w] = [time |-> t, id |-> now + 1]]
  /\ UNCHANGED <<buf, wcursor, full, logged, flushed>>

(* ... then the event enters the ring under the lock. *)
Fills == (wcursor + 1) % Capacity = 0

NextSlot == (wcursor + 1) % Capacity

AppendEvent(w) ==
  /\ pending[w] # NoEvent
  /\ buf' = [buf EXCEPT ![wcursor] = pending[w]]
  /\ wcursor' = NextSlot
  /\ full' = (full \/ Fills)
  /\ logged' = Append(logged, pending[w])
  /\ pending' = [pending EXCEPT ![w] = NoEvent]
  /\ UNCHANGED <<now, flushed>>

(* Query: from the oldest slot on, filtered, then sorted by time.  sort.Slice
   may leave events of one time in any order: all sorted orders are results. *)
Stored ==
  IF full THEN [i \in 1..Capacity |-> buf[(wcursor + i - 1) % Capacity]]
          ELSE [i \in 1..wcursor |-> buf[i - 1]]

matches(e, since, until) ==
  e.time # 0 /\ (since = 0 \/ e.time >= since) /\ (until = 0 \/ e.time <= until)

Hits(since, until) == {i \in DOMAIN Stored : matches(Stored[i], since, until)}

Sorted_Ring(hits, n) ==
  {f \in [1..n -> hits] :
     /\ \A i \in hits : \E k \in 1..n : f[k] = i
     /\ \A k, l \in 1..n : k < l => f[k] < f[l]}

(* The n slots that were hit, each once, by their times. *)
Sorted(hits, n) ==
  {f \in [1..n -> hits] :
     /\ \A i \in hits : \E k \in 1..n : f[k] = i
     /\ \A k, l \in 1..n : k < l => f[k] # f[l] /\ Stored[f[k]].time <= Stored[f[l]].time}

Query(since, until, limit) ==
  UNION {{[k \in 1..(IF limit > 0 /\ n > limit THEN limit ELSE n) |-> Stored[f[k]]]
            : f \in Sorted(Hits(since, until), n)} : n \in 0..Capacity}

(* Daemon.flushAudit appends everything to the file when the daemon stops. *)
flushAuditLog ==
  /\ flushed = <<>> /\ \E q \in Query(0, 0, 0) : q # <<>> /\ flushed' = q
  /\ UNCHANGED <<buf, wcursor, full, pending, logged, now>>

AuditNext == (\E w \in Writers : Stamp(w) \/ AppendEvent(w)) \/ flushAuditLog

AuditSpec == AuditInit /\ [][AuditNext]_avars

-----------------------------------------------------------------------------
(* The last n elements of s, and the elements of s. *)
LastOf(s, n) ==
  LET skip == IF Len(s) > n THEN Len(s) - n ELSE 0
  IN [i \in 1..(Len(s) - skip) |-> s[skip + i]]
Elements(s) == {s[i] : i \in DOMAIN s}

(* The ring holds exactly the last Capacity events that were appended, none
   twice and none lost, before and after it wraps. *)
RingKeepsLatest == Stored = LastOf(logged, Capacity)

(* A query returns the stored events of its time range oldest first, although
   they may have entered the ring out of order, and flushAudit writes them so;
   a limit cuts the newest. *)
QueryInOrder ==
  \A since, until \in 0..now, limit \in 0..Capacity : \A q \in Query(since, until, limit) :
    /\ \A i, j \in DOMAIN q : i < j => q[i].time <= q[j].time
    /\ limit = 0 => Elements(q) = {e \in Elements(LastOf(logged, Capacity)) : matches(e, since, until)}
    /\ limit > 0 => \A e \in Elements(Stored) \ Elements(q) :
                      matches(e, since, until) => \A i \in DOMAIN q : q[i].time <= e.time

(* The ring loses nothing that fits and returns it in order, however its   *)
(* writers interleave (AuditLog.Append, AuditLog.Query).                   *)
AuditSafe == AuditTypeOK /\ RingKeepsLatest /\ QueryInOrder
=============================================================================
