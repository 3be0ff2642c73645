------------------------------- MODULE RangeSet -------------------------------
(* audio/src/range_set.rs: sets of positions kept as a sorted list of ranges   *)
(* that neither overlap nor touch. The operators are the code's algorithms: a  *)
(* loop that stops at an index is the first index with the condition it stops  *)
(* at, a loop over another list a recursive function of how far it is.         *)
EXTENDS Naturals, Sequences, FiniteSetsExt

Span(start, length) == [start |-> start, length |-> length]
End(r) == r.start + r.length
Positions(r) == r.start .. (End(r) - 1)

\* What a list of ranges stands for.
Covered(rs) == UNION {Positions(rs[i]): i \in DOMAIN rs}

\* Sorted, without empty ranges, and each range as long as it can be.
Canonical(rs) ==
    /\ \A i \in DOMAIN rs: rs[i].length > 0
    /\ \A i \in 1..(Len(rs) - 1): End(rs[i]) < rs[i + 1].start

\* The first of a set of indices, or the one behind the last of n.
First(indices, n) == Min(indices \cup {n + 1})

\* The first range that does not end before a value, at which lookups stop.
Reaching(rs, v) == First({k \in DOMAIN rs: v < rs[k].start \/ v < End(rs[k])}, Len(rs))

Contains(rs, v) == Reaching(rs, v) <= Len(rs) /\ rs[Reaching(rs, v)].start <= v

ContainedLengthFrom(rs, v) == IF Contains(rs, v) THEN End(rs[Reaching(rs, v)]) - v ELSE 0

TotalLength(rs) ==
    LET sum[i \in 0..Len(rs)] == IF i = 0 THEN 0 ELSE sum[i - 1] + rs[i].length
    IN sum[Len(rs)]

\* The new range r goes before range i, and takes up the ranges from there on as
\* long as it, or what it has taken up, reaches them.
Merge(rs, r, i) ==
    LET next == First({k \in i..Len(rs):
                          Max({End(r)} \cup {End(rs[m]): m \in i..(k - 1)}) < rs[k].start}, Len(rs))
        merged == {r} \cup {rs[k]: k \in i..(next - 1)}
        start == Min({x.start: x \in merged})
        end == Max({End(x): x \in merged})
    IN SubSeq(rs, 1, i - 1) \o <<Span(start, end - start)>> \o SubSeq(rs, next, Len(rs))

\* A mutant: ranges that only touch the new one are left beside it.
MAddRange(rs, r) ==
    IF r.length = 0 THEN rs ELSE Merge(rs, r, First({k \in DOMAIN rs: r.start < End(rs[k])}, Len(rs)))

\* The new range goes behind those that end before it begins.
AddRange(rs, r) ==
    IF r.length = 0 THEN rs ELSE Merge(rs, r, First({k \in DOMAIN rs: r.start <= End(rs[k])}, Len(rs)))

AddRangeSet(rs, other) ==
    LET sum[i \in 0..Len(other)] == IF i = 0 THEN rs ELSE AddRange(sum[i - 1], other[i])
    IN sum[Len(other)]

\* What lies before r of range x, and what lies behind it.
Before(x, r) == IF r.start < End(x) THEN Span(x.start, r.start - x.start) ELSE x
Behind(x, r) == IF x.start < End(r) THEN Span(End(r), End(x) - End(r)) ELSE x

\* The ranges that start before r are cut at its start, up to one that r does
\* not cover the end of (i); if that starts before r too, r is a hole in it. The
\* ranges from there on that r covers go, and so does the beginning of the next.
SubtractRange(rs, r) ==
    LET i == First({k \in DOMAIN rs: r.start <= rs[k].start \/ End(r) < End(rs[k])}, Len(rs))
        last == IF i <= Len(rs) /\ rs[i].start < r.start THEN i ELSE i - 1
        next == First({k \in i..Len(rs): End(r) <= rs[i].start \/ End(r) < End(rs[k])}, Len(rs))
        before == [k \in 1..last |-> Before(rs[k], r)]
        behind == IF next <= Len(rs) THEN <<Behind(rs[next], r)>> ELSE <<>>
    IN IF r.length = 0 THEN rs ELSE before \o behind \o SubSeq(rs, next + 1, Len(rs))

SubtractRangeSet(rs, other) ==
    LET rest[i \in 0..Len(other)] == IF i = 0 THEN rs ELSE SubtractRange(rest[i - 1], other[i])
    IN rest[Len(other)]

\* One turn of the loop that walks both lists: of two ranges that overlap, the
\* one that ends first is left behind.
IntersectionTurn(a, b, walk) ==
    LET x == a[walk.i]
        y == b[walk.j]
        start == Max({x.start, y.start})
        overlap == Span(start, Min({End(x), End(y)}) - start)
        nextA == [walk EXCEPT !.i = @ + 1]
        nextB == [walk EXCEPT !.j = @ + 1]
    IN IF walk.i > Len(a) \/ walk.j > Len(b) THEN walk
       ELSE IF End(x) <= y.start THEN nextA
       ELSE IF End(y) <= x.start THEN nextB
       ELSE [IF End(x) <= End(y) THEN nextA ELSE nextB EXCEPT !.result = AddRange(@, overlap)]

Intersection(a, b) ==
    LET walk[k \in 0..(Len(a) + Len(b))] ==
            IF k = 0 THEN [i |-> 1, j |-> 1, result |-> <<>>] ELSE IntersectionTurn(a, b, walk[k - 1])
    IN walk[Len(a) + Len(b)].result

=============================================================================
