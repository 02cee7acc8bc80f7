------------------------- MODULE CalendarScheduler --------------------------
(***************************************************************************)
(* core/model/calendar-scheduler.cc: a calendar queue, an array of sorted  *)
(* buckets that each hold one day of every year, resized with the number   *)
(* of events.  Operators only, on a record c of the members; the buckets   *)
(* in the order of attribute Reverse's default.                            *)
(***************************************************************************)
EXTENDS Scheduler, FiniteSetsExt

Hash(c, ts) == (ts \div c.width) % c.nBuckets

Stored(c) == UNION {Range(c.buckets[b]) : b \in DOMAIN c.buckets}

\* Init(), with the events stored; their number m_qSize is kept apart.
CalendarInit(nBuckets, width, startPrio, stored, qSize) ==
    [nBuckets |-> nBuckets, width |-> width, lastPrio |-> startPrio,
     lastBucket |-> (startPrio \div width) % nBuckets,
     bucketTop |-> (startPrio \div width + 1) * width,
     buckets |-> [b \in 0 .. nBuckets - 1 |->
                    InOrder({e \in stored : (e.ts \div width) % nBuckets = b})],
     qSize |-> qSize]

EmptyCalendar == CalendarInit(2, 1, 0, {}, 0)

\* DoInsert(): before the first event that comes later.
DoInsert(c, ev) ==
    [c EXCEPT !.buckets[Hash(c, ev.ts)] =
        LET later == {i \in DOMAIN @ : Before(ev, @[i])}
            place == Min(later \cup {Len(@) + 1})
        IN  SubSeq(@, 1, place - 1) \o <<ev>> \o SubSeq(@, place, Len(@))]

-----------------------------------------------------------------------------
\* The scan of a year from m_lastBucket: the bucket of day k, where it ends,
\* and the days whose first event falls in this year.
Day(c, k) == (c.lastBucket + k) % c.nBuckets
Top(c, k) == c.bucketTop + k * c.width
Days(c)   == {k \in 0 .. c.nBuckets - 1 : c.buckets[Day(c, k)] # <<>>}
First(c, k) == Head(c.buckets[Day(c, k)])
InYear(c) == {k \in Days(c) : First(c, k).ts < Top(c, k)}

\* Mutant of NextDay: in this year or not, the first event found.
NextDayAnyYear(c) == Min(Days(c))

\* Where DoRemoveNext() finds the next event: this year, or the earliest of all.
NextDay(c) ==
    IF InYear(c) # {} THEN Min(InYear(c))
    ELSE CHOOSE k \in Days(c) :
            \A l \in Days(c) \ {k} : Before(First(c, k), First(c, l))

CalendarNext(c) == First(c, NextDay(c))

DoRemoveNext(c) ==
    LET ev == CalendarNext(c)
    IN  [c EXCEPT !.buckets[Day(c, NextDay(c))] = Tail(@),
                  !.lastPrio = ev.ts,
                  !.lastBucket = IF InYear(c) # {} THEN Day(c, NextDay(c))
                                 ELSE Hash(c, ev.ts),
                  !.bucketTop = IF InYear(c) # {} THEN Top(c, NextDay(c))
                                ELSE (ev.ts \div c.width + 1) * c.width]

-----------------------------------------------------------------------------
\* CalculateNewWidth(): the times of the first events, which are put back.
NSamples(c) == Min({25, IF c.qSize <= 5 THEN c.qSize ELSE 5 + c.qSize \div 10})

Samples(c) ==
    LET rest[n \in 0 .. NSamples(c)] == IF n = 0 THEN c ELSE DoRemoveNext(rest[n - 1])
    IN  [i \in 1 .. NSamples(c) |-> CalendarNext(rest[i - 1]).ts]

Total(s) ==
    LET sum[n \in 0 .. Len(s)] == IF n = 0 THEN 0 ELSE sum[n - 1] + s[n]
    IN  sum[Len(s)]

NewWidth(c) ==
    LET ts == Samples(c)
        diff == [i \in 1 .. Len(ts) - 1 |-> ts[i + 1] - ts[i]]
        twiceAvg == (Total(diff) \div (Len(ts) - 1)) * 2
        near == [i \in DOMAIN diff |-> IF diff[i] <= twiceAvg THEN diff[i] ELSE 0]
    IN  IF c.qSize < 2 THEN 1 ELSE Max({1, 3 * Total(near)})

Resize(c, nBuckets) ==
    CalendarInit(nBuckets, NewWidth(c), c.lastPrio, Stored(c), c.qSize)

ResizeUp(c) ==
    IF c.qSize > 2 * c.nBuckets /\ c.nBuckets < 32768 THEN Resize(c, 2 * c.nBuckets) ELSE c

ResizeDown(c) ==
    IF c.qSize < c.nBuckets \div 2 THEN Resize(c, c.nBuckets \div 2) ELSE c

-----------------------------------------------------------------------------
CalendarInsert(c, ev) == ResizeUp([DoInsert(c, ev) EXCEPT !.qSize = @ + 1])

CalendarRemoveNext(c) == ResizeDown([DoRemoveNext(c) EXCEPT !.qSize = @ - 1])

\* Remove(): the first event of the bucket with the uid of ev.
CalendarRemove(c, ev) ==
    LET bucket == c.buckets[Hash(c, ev.ts)]
        found == {i \in DOMAIN bucket : bucket[i].uid = ev.uid}
        place == Min(found)
    IN  IF found = {} THEN c
        ELSE ResizeDown([c EXCEPT
               !.buckets[Hash(c, ev.ts)] =
                   SubSeq(@, 1, place - 1) \o SubSeq(@, place + 1, Len(@)),
               !.qSize = @ - 1])
=============================================================================
