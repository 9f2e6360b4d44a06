------------------------------- MODULE Recall -------------------------------
(***************************************************************************)
(* What TrueHeart.recall and TrueHeart.govern return to the host: the      *)
(* ranked and limited page of memories with their clarity, and the list of *)
(* affected identifiers.  The operators are functions of the database, and *)
(* the properties evaluate them in every state of Store.                   *)
(*                                                                         *)
(* clarity is a float: the quotient of two durations in microseconds,      *)
(* rounded to Bits binary digits, half to even.  It is written here as m   *)
(* over 2^e.                                                               *)
(***************************************************************************)
EXTENDS Store, Paging, SequencesExt

CONSTANTS
    IdRank,       \* the order of identifiers as text
    Bits,         \* digits of a float's mantissa, 53 in the code
    Pow2          \* the powers of two, as a table

ASSUME RankAssumption ==
    IdRank \in [Ids -> Nat] /\ \A i, j \in Ids : IdRank[i] = IdRank[j] => i = j
ASSUME PrecisionAssumption == Bits \in Nat \ {0}
ASSUME PowerAssumption ==
    /\ Pow2 \in [0..(MaxTime + Bits) -> Nat]
    /\ Pow2[0] = 1
    /\ \A k \in 1..(MaxTime + Bits) : Pow2[k] = 2 * Pow2[k - 1]

RecallQuery ==
    [scope: Scopes, as_of: 0..MaxTime, limit: 1..MaxLimit, kinds: SUBSET Kinds]

-----------------------------------------------------------------------------
(* _clarity                                                                *)

\* The integer next to n / d, the even one of two.
RoundHalfEven(n, d) ==
    LET q == n \div d
        twice == 2 * (n % d)
    IN  IF twice < d \/ (twice = d /\ q % 2 = 0) THEN q ELSE q + 1

\* The division of two timedeltas, for 0 < n < d <= MaxTime.
TrueDivide(n, d) ==
    LET e == Min({k \in 0..(MaxTime + Bits) : n * Pow2[k] >= d * Pow2[Bits - 1]})
    IN  [m |-> RoundHalfEven(n * Pow2[e], d), e |-> e]

One == [m |-> 1, e |-> 0]
Less(x, y) == x.m * Pow2[y.e] < y.m * Pow2[x.e]

\* Mutation: clarity fades from the start.
ClarityFromCreation(row, as_of) ==
    IF as_of <= row.created_at THEN One
    ELSE TrueDivide(row.recall_until - as_of, row.recall_until - row.created_at)

Clarity(row, as_of) ==
    IF as_of <= row.clear_until THEN One
    ELSE TrueDivide(row.recall_until - as_of, row.recall_until - row.clear_until)

-----------------------------------------------------------------------------
(* recall                                                                  *)

ById(items) ==
    {p \in Pairs(items) : IdRank[p[1].memory_id] < IdRank[p[2].memory_id]}
NewestFirst(items) == {p \in Pairs(items) : p[1].created_at > p[2].created_at}
ClearestFirst(items) == {p \in Pairs(items) : Less(p[2].clarity, p[1].clarity)}

\* The RecallItems of the candidates, in the order in which the repository
\* returned them.
Items(d, query, candidates) ==
    [k \in DOMAIN candidates |->
        LET row == d.memories[<<query.scope, candidates[k]>>]
        IN  [memory_id |-> candidates[k], created_at |-> row.created_at,
             clarity |-> Clarity(row, query.as_of)]]

\* Mutation: the most important key is sorted by first.
PageSortedBackwards(d, query, candidates) ==
    LET items == Items(d, query, candidates)
        newest == StableSort(StableSort(items, ClearestFirst(items)), NewestFirst(items))
    IN  Take(StableSort(newest, ById(items)), query.limit)

\* Three stable sorts, the least important key first, and then the limit.
Page(d, query, candidates) ==
    LET items == Items(d, query, candidates)
        newest == StableSort(StableSort(items, ById(items)), NewestFirst(items))
    IN  Take(StableSort(newest, ClearestFirst(items)), query.limit)

\* The SELECT of the memories has no ORDER BY: any order is possible.
CandidateOrders(d, query) ==
    SetToSeqs(RecallCandidates(d, query.scope, query.as_of, query.kinds))

-----------------------------------------------------------------------------
(* What govern and expire_raw_content return                               *)

\* Mutation: a cascade reports the event alone.
AffectedEntity(d, c) == <<c.entity_id>>

\* GovernanceResult.affected_ids: the entity and the memories of a cascade, in
\* the order of the identifiers; an event and a memory may share theirs.
AffectedIds(d, c) ==
    LET cascade == IF c.entity_type = "memory" THEN {}
                   ELSE Dependents(d, c.scope, c.entity_id)
        ids == <<c.entity_id>> \o SetToSeq(cascade)
    IN  StableSort(ids, {p \in Pairs(ids) : IdRank[p[1]] < IdRank[p[2]]})

ExpiredCount(d, as_of) == Cardinality(Expirable(d, as_of))

-----------------------------------------------------------------------------
\* x comes before y: clarity descending, then creation time descending, then
\* identifier ascending (README.md).
Precedes(x, y) ==
    \/ Less(y.clarity, x.clarity)
    \/ ~Less(x.clarity, y.clarity) /\ x.created_at > y.created_at
    \/ /\ ~Less(x.clarity, y.clarity) /\ ~Less(y.clarity, x.clarity)
       /\ x.created_at = y.created_at /\ IdRank[x.memory_id] < IdRank[y.memory_id]

\* Recall is deterministic: in whatever order the rows come, the page holds the
\* first memories of the documented order, in that order, and as many of the
\* candidates as the limit allows; a tie in clarity, creation time or both never
\* decides by accident who is cut off.
RecallDeterministic ==
    \A query \in RecallQuery : \A order \in CandidateOrders(db, query) :
        LET page == Page(db, query, order)
            all == Items(db, query, order)
            left == Range(all) \ Range(page)
        IN  /\ Len(page) = IF query.limit < Len(all) THEN query.limit ELSE Len(all)
            /\ \A i, j \in DOMAIN page : i < j => Precedes(page[i], page[j])
            /\ \A x \in Range(page), y \in left : Precedes(x, y)

\* Fading is sound at every instant and after rounding: a candidate's fading
\* window is never empty when it is divided by, clarity is 1 through
\* clear_until, one half half-way through fading, never 0 and never above 1, it
\* never rises as time passes, and rounding never puts a memory that has faded
\* more before one that has faded less.
FadingSound ==
    \A s \in Scopes, t \in 0..MaxTime :
        LET fading(m) == db.memories[<<s, m>>].recall_until - db.memories[<<s, m>>].clear_until
            left(m) == db.memories[<<s, m>>].recall_until - t
            clarity(m, u) == Clarity(db.memories[<<s, m>>], u)
            ids == RecallCandidates(db, s, t, {})
        IN  \A m \in ids :
              /\ t > db.memories[<<s, m>>].clear_until => fading(m) > 0 /\ left(m) > 0
              /\ clarity(m, t).m > 0 /\ ~Less(One, clarity(m, t))
              /\ t <= db.memories[<<s, m>>].clear_until => clarity(m, t) = One
              /\ 2 * left(m) = fading(m) => clarity(m, t).m * 2 = Pow2[clarity(m, t).e]
              /\ \A u \in 0..t : ~Less(clarity(m, u), clarity(m, t))
              /\ \A n \in ids :
                   left(m) * fading(n) > left(n) * fading(m) =>
                       ~Less(clarity(m, t), clarity(n, t))

\* The host is told all that a call erased: affected_ids holds the governed
\* entity and, each once more, exactly the memories that a deletion took along;
\* the count of a sweep is the number of bodies that are gone after it.
AnswersTellAll ==
    /\ \A c \in GovernanceCommand :
         GovernOutcome(db, c) = "done" =>
           LET ids == AffectedIds(db, c)
               after == GovernEffect(db, c)
               gone == {m \in Ids : /\ <<c.scope, m>> \in DOMAIN db.memories
                                    /\ <<c.scope, m>> \notin DOMAIN after.memories}
               times(i) == Cardinality({k \in DOMAIN ids : ids[k] = i})
           IN  IF c.entity_type = "memory"
               THEN ids = <<c.entity_id>> /\ gone \subseteq {c.entity_id}
               ELSE \A i \in Ids :
                      times(i) = (IF i = c.entity_id THEN 1 ELSE 0)
                                   + (IF i \in gone THEN 1 ELSE 0)
    /\ \A as_of \in Sweeps :
         ExpireOutcome(db) = "done" =>
           ExpiredCount(db, as_of) =
             Cardinality(DOMAIN db.raw_event_content)
               - Cardinality(DOMAIN ExpireEffect(db, as_of).raw_event_content)
=============================================================================
