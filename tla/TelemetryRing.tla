--------------------------- MODULE TelemetryRing ---------------------------
(***************************************************************************)
(* TelemetryRingBuffer (telemetry.rs): a VecDeque behind a lock.  Every    *)
(* record call takes the write lock for the whole of its pop and push, so  *)
(* it is one step.  `log` is what the buffer is a window of: everything    *)
(* recorded since the start, which the program does not keep.              *)
(***************************************************************************)
EXTENDS Naturals, FiniteSets, SequencesExt

CONSTANTS
  Entry,   \* telemetry records
  Capacity \* max_telemetry_records; the configuration does not exclude 0

ASSUME CapacityAssumption == Capacity \in Nat

VARIABLES
  ring, \* the records still in the buffer, oldest first
  log   \* observed by the properties: all records, oldest first

ringVars == <<ring, log>>

RingTypeOK ==
  /\ ring \in Seq(Entry)
  /\ log \in Seq(Entry)

RingInit == ring = << >> /\ log = << >>

\* Mutant: the capacity is compared after the push would already exceed it.
PushLate(r, e) == Append(IF Len(r) > Capacity THEN Tail(r) ELSE r, e)

\* record: pop_front when the buffer is full, then push_back.  pop_front of an
\* empty deque (capacity 0) does nothing.
Push(r, e) ==
  Append(IF Len(r) >= Capacity /\ r # << >> THEN Tail(r) ELSE r, e)

RecordEntry(e) ==
  /\ ring' = Push(ring, e)
  /\ log' = Append(log, e)

\* Mutant: as many of the newest records are looked at as may be returned.
TakeFirst(r, matching, limit) ==
  LET n == IF limit = 0 THEN 50 ELSE limit
  IN  FoldLeft(LAMBDA found, e : IF e \in matching THEN Append(found, e) ELSE found,
               << >>, SubSeq(Reverse(r), 1, IF Len(r) < n THEN Len(r) ELSE n))

\* query: newest first, those that pass the filter, `limit` of them; no limit means
\* 50.  A filter's tests are conjoined: it is the set of records that pass them.
QueryRing(r, matching, limit) ==
  LET n == IF limit = 0 THEN 50 ELSE limit
  IN  FoldLeft(LAMBDA found, e : IF e \in matching /\ Len(found) < n
                                   THEN Append(found, e) ELSE found,
               << >>, Reverse(r))

RingNext == \E e \in Entry : RecordEntry(e)

RingSpec == RingInit /\ [][RingNext]_ringVars

-----------------------------------------------------------------------------
\* How many records the buffer holds at most: with capacity 0 it still keeps the
\* newest one.
Window == IF Capacity = 0 THEN 1 ELSE Capacity

\* The buffer is exactly the newest records, in order, as many as there is room
\* for: eviction never loses a record it had room for, never reorders, and never
\* keeps one more than the configured bound (save the one of capacity 0).
RingIsNewest ==
  /\ Len(ring) = IF Len(log) < Window THEN Len(log) ELSE Window
  /\ \A i \in 1 .. Len(ring) : ring[i] = log[Len(log) - Len(ring) + i]

\* The records a query may answer with: the matching ones among those recorded last,
\* as many as fit the buffer.  By their numbers in the log.
Hits(matching) == {i \in DOMAIN log : i > Len(log) - Window /\ log[i] \in matching}

\* A query answers with the newest of what was recorded and still fits the buffer:
\* the k-th of its answers is a matching record with k - 1 newer ones, and there are
\* fewer than the limit only when no other matches.
QueriesAreNewest ==
  \A matching \in SUBSET Entry, limit \in 0 .. Capacity :
    LET answer == QueryRing(ring, matching, limit)
        most == IF limit = 0 THEN 50 ELSE limit
        hits == Hits(matching)
        newer(i) == Cardinality({j \in hits : j > i})
    IN  /\ \A i \in hits : newer(i) < Len(answer) => answer[newer(i) + 1] = log[i]
        /\ Len(answer) = IF Cardinality(hits) < most THEN Cardinality(hits) ELSE most
=============================================================================
