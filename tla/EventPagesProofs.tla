-------------------------- MODULE EventPagesProofs --------------------------
(***************************************************************************)
(* For any events, statuses, keys and page sizes: the invariant of the     *)
(* walk is inductive, and its properties follow.                           *)
(*                                                                         *)
(* The proof rests on ranks.  The rank of an event is the number of        *)
(* matches that sort before it; in a sorted result an event without ties   *)
(* stands right after them (SortedPositions), so its rank says which page  *)
(* it is on.  Events are only created, so ranks only grow                  *)
(* (RanksGrow), and an event that was not on the pages so far is on one    *)
(* that follows.                                                           *)
(***************************************************************************)
EXTENDS EventPages, FiniteSetTheorems, SequenceTheorems, TLAPS

(* What the types say of documents. *)
LEMMA StoredTypes ==
  ASSUME TypeOK
  PROVE  /\ Matching \subseteq Stored /\ Stored \subseteq EventId
         /\ \A e \in Stored : events[e] \in EventDoc /\ events[e].key \in Nat
         /\ query.limit \in Nat /\ query.limit >= 1
         /\ query.sortOrder \in {"ASC", "DESC"}
<1>1. Matching \subseteq Stored /\ Stored \subseteq EventId
  BY DEF Matching, Stored
<1>2. \A e \in Stored : events[e] \in EventDoc
  BY DEF TypeOK, Stored, NoEvent
<1>3. \A e \in Stored : events[e].key \in Nat
  BY <1>2, PagesAssumption DEF EventDoc
<1>4. query.limit \in Limit /\ query.sortOrder \in {"ASC", "DESC"}
  BY DEF TypeOK, FindEventsQueryDto
<1>5. query.limit \in 1..100
  BY <1>4, PagesAssumption
<1>. QED  BY <1>1, <1>2, <1>3, <1>4, <1>5

(* The sort order of findAll is a strict order, total but for equal keys. *)
LEMMA BeforeIsOrder ==
  ASSUME TypeOK, NEW x \in Stored, NEW y \in Stored, NEW z \in Stored
  PROVE  /\ ~Before(x, x)
         /\ Before(x, y) => ~Before(y, x)
         /\ Before(x, y) /\ Before(y, z) => Before(x, z)
         /\ events[x].key # events[y].key => Before(x, y) \/ Before(y, x)
BY StoredTypes DEF Before

-----------------------------------------------------------------------------
(* A sorted result holds every match once, and one without ties after just those that sort
   before it. *)
LEMMA SortedPositions ==
  ASSUME TypeOK, IsFiniteSet(Stored), NEW s \in Sorted
  PROVE  /\ Cardinality(Matching) \in Nat
         /\ Len(s) = Cardinality(Matching)
         /\ s \in Seq(Matching)
         /\ \A e \in Matching : \E i \in 1..Len(s) : s[i] = e
         /\ \A i \in 1..Len(s) : Untied(s[i]) => Rank(s[i]) = i - 1
<1> DEFINE n == Cardinality(Matching)
<1>1. IsFiniteSet(Matching) /\ n \in Nat
  BY StoredTypes, FS_Subset, FS_CardinalityType
<1>2. /\ s \in [1..n -> Matching]
      /\ \A i, j \in 1..n : i # j => s[i] # s[j]
      /\ \A i, j \in 1..n : i < j => ~Before(s[j], s[i])
  BY DEF Sorted, SetToSeqs
<1>. HIDE DEF n
<1>3. s \in Seq(Matching) /\ Len(s) = n
  BY <1>1, <1>2
<1>4. \A e \in Matching : \E i \in 1..n : s[i] = e
  <2>1. s \in Injection(1..n, Matching)
    BY <1>2 DEF Injection, IsInjective
  <2>2. Cardinality(1..n) = n
    BY <1>1, FS_Interval
  <2>3. s \in Surjection(1..n, Matching)
    BY <1>1, <2>1, <2>2, FS_Injection DEF n
  <2>. QED  BY <2>3 DEF Surjection
<1>5. ASSUME NEW i \in 1..n, Untied(s[i])  PROVE Rank(s[i]) = i - 1
  <2> DEFINE before == Ahead(s[i], Matching)
             t == [j \in 1..(i - 1) |-> s[j]]
  <2>1. \A j \in 1..n : Before(s[j], s[i]) <=> j < i
    <3> SUFFICES ASSUME NEW j \in 1..n  PROVE Before(s[j], s[i]) <=> j < i
      OBVIOUS
    <3>1. s[i] \in Stored /\ s[j] \in Stored /\ s[j] \in Matching
      BY <1>2, StoredTypes
    <3>2. CASE j < i
      <4>1. s[j] # s[i] /\ ~Before(s[i], s[j])
        BY <1>1, <1>2, <3>2
      <4>2. events[s[j]].key # events[s[i]].key
        BY <1>5, <3>1, <4>1 DEF Untied
      <4>. QED  BY <3>1, <3>2, <4>1, <4>2, BeforeIsOrder
    <3>3. CASE j = i
      BY <1>1, <3>1, <3>3, BeforeIsOrder
    <3>4. CASE i < j
      BY <1>1, <1>2, <3>4
    <3>. QED  BY <1>1, <3>2, <3>3, <3>4
  <2>2. t \in [1..(i - 1) -> before]
    BY <1>1, <1>2, <2>1 DEF Ahead
  <2>3. t \in Bijection(1..(i - 1), before)
    <3>1. \A a, b \in 1..(i - 1) : t[a] = t[b] => a = b
      BY <1>1, <1>2
    <3>2. \A e \in before : \E j \in 1..(i - 1) : t[j] = e
      <4> SUFFICES ASSUME NEW e \in before  PROVE \E j \in 1..(i - 1) : t[j] = e
        OBVIOUS
      <4>1. PICK j \in 1..n : s[j] = e
        BY <1>4 DEF Ahead
      <4>2. j < i
        BY <2>1, <4>1 DEF Ahead
      <4>. QED  BY <1>1, <4>1, <4>2
    <3>. HIDE DEF t, before
    <3>. QED  BY <2>2, <3>1, <3>2 DEF Bijection, Injection, Surjection, IsInjective
  <2>4. ExistsBijection(1..(i - 1), before) /\ i - 1 \in Nat
    BY <1>1, <2>3 DEF ExistsBijection
  <2>. HIDE DEF t, before
  <2>5. Cardinality(before) = i - 1
    BY <2>4, FS_CountingElements
  <2>. QED  BY <2>5 DEF Rank, before
<1>. QED  BY <1>1, <1>3, <1>4, <1>5 DEF n

(* A page is the piece of the sorted result that skip and limit say. *)
LEMMA PageIsPiece ==
  ASSUME TypeOK, IsFiniteSet(Stored), NEW s \in Sorted, Skip \in Nat
  PROVE  LET data == Data(s) IN
         /\ data \in Seq(Matching)
         /\ Len(data) <= query.limit
         /\ \A k \in 1..Len(data) : Skip + k \in 1..Len(s) /\ data[k] = s[Skip + k]
         /\ \A i \in 1..Len(s) : Skip < i /\ i <= Skip + query.limit =>
              \E k \in 1..Len(data) : data[k] = s[i]
         /\ Len(data) < query.limit => Len(s) < Skip + query.limit
<1> DEFINE last == Min({Skip + query.limit, Len(s)})
<1>1. s \in Seq(Matching) /\ Len(s) \in Nat /\ query.limit \in Nat
  BY SortedPositions, StoredTypes
<1>2. /\ last \in Nat
      /\ last <= Skip + query.limit /\ last <= Len(s)
      /\ last = Skip + query.limit \/ last = Len(s)
  <2>1. \E x \in {Skip + query.limit, Len(s)} :
          \A y \in {Skip + query.limit, Len(s)} : x <= y
    BY <1>1
  <2>. QED  BY <1>1, <2>1 DEF Min
<1>. HIDE DEF last
<1>3. \A i \in (Skip + 1)..last : s[i] \in Matching
  BY <1>1, <1>2, ElementOfSeq
<1>4. /\ Data(s) \in Seq(Matching)
      /\ Len(Data(s)) = IF Skip + 1 <= last THEN last - (Skip + 1) + 1 ELSE 0
      /\ \A k \in 1..(last - (Skip + 1) + 1) : Data(s)[k] = s[Skip + 1 + k - 1]
  <2>1. Data(s) = SubSeq(s, Skip + 1, last) /\ Skip + 1 \in Int /\ last \in Int
    BY <1>2 DEF Data, last
  <2>. QED  BY <1>3, <2>1, SubSeqProperties
<1>5. \A i \in 1..Len(s) : Skip < i /\ i <= Skip + query.limit =>
        \E k \in 1..Len(Data(s)) : Data(s)[k] = s[i]
  <2> SUFFICES ASSUME NEW i \in 1..Len(s), Skip < i, i <= Skip + query.limit
               PROVE  \E k \in 1..Len(Data(s)) : Data(s)[k] = s[i]
    OBVIOUS
  <2>1. /\ i - Skip \in 1..Len(Data(s)) /\ Skip + 1 + (i - Skip) - 1 = i
        /\ i - Skip \in 1..(last - (Skip + 1) + 1)
    BY <1>1, <1>2, <1>4
  <2>2. Data(s)[i - Skip] = s[i]
    BY <1>4, <2>1
  <2>. QED  BY <2>1, <2>2
<1>. QED  BY <1>1, <1>2, <1>4, <1>5

-----------------------------------------------------------------------------
(* Pages are numbered from 1, and skip counts whole pages. *)
LEMMA SkipTypes ==
  ASSUME TypeOK
  PROVE  /\ Len(pages) \in Nat /\ Page \in Nat
         /\ DOMAIN pages = 1..Len(pages)
         /\ Skip \in Nat /\ Skip = Len(pages) * query.limit
         /\ Page * query.limit = Skip + query.limit
         /\ \A i \in DOMAIN pages : pages[i] \in Seq(Stored) /\ Len(pages[i]) \in Nat
                                  /\ DOMAIN pages[i] = 1..Len(pages[i])
<1>1. Len(pages) \in Nat /\ DOMAIN pages = 1..Len(pages) /\ query.limit \in Nat
  BY StoredTypes, LenProperties DEF TypeOK
<1>2. \A i \in DOMAIN pages : pages[i] \in Seq(Stored)
  BY <1>1, ElementOfSeq DEF TypeOK
<1>3. \A i \in DOMAIN pages : Len(pages[i]) \in Nat /\ DOMAIN pages[i] = 1..Len(pages[i])
  BY <1>2, LenProperties
<1>4. Page = Len(pages) + 1 /\ Page - 1 = Len(pages)
  BY <1>1 DEF Page
<1>5. \A a, b \in Nat : a * b \in Nat /\ (a + 1) * b = a * b + b
  OBVIOUS
<1>. QED  BY <1>1, <1>2, <1>3, <1>4, <1>5 DEF Skip

(* A page ends before the next ones begin. *)
LEMMA PagesFollow ==
  ASSUME NEW i \in Nat, NEW j \in Nat, NEW l \in Nat, i >= 1, i < j
  PROVE  /\ (i - 1) * l \in Nat /\ (j - 1) * l \in Nat
         /\ (i - 1) * l + l <= (j - 1) * l
<1>1. PICK a \in Nat, b \in Nat : a = i - 1 /\ b = j - 1 /\ a + 1 <= b
  <2>1. i - 1 \in Nat /\ j - 1 \in Nat /\ (i - 1) + 1 <= j - 1
    OBVIOUS
  <2>. QED  BY <2>1
<1>2. a * l \in Nat /\ b * l \in Nat /\ a * l + l <= b * l
  <2>1. (a + 1) * l = a * l + l /\ (a + 1) * l <= b * l
    BY <1>1
  <2>. QED  BY <2>1
<1>. QED  BY <1>1, <1>2

(* Ranks are numbers, and no match has as high a rank as there are matches. *)
LEMMA RankTypes ==
  ASSUME TypeOK, IsFiniteSet(Stored), NEW e \in Matching
  PROVE  /\ Rank(e) \in Nat /\ Rank(e) < Cardinality(Matching)
         /\ Cardinality(Matching) \in Nat
         /\ \A S \in SUBSET Stored : /\ IsFiniteSet(S) /\ IsFiniteSet(Ahead(e, S))
                                   /\ Cardinality(S) \in Nat
                                   /\ Cardinality(Ahead(e, S)) \in Nat
<1>1. \A S \in SUBSET Stored : /\ IsFiniteSet(S) /\ IsFiniteSet(Ahead(e, S))
                              /\ Cardinality(S) \in Nat
                              /\ Cardinality(Ahead(e, S)) \in Nat
  <2> SUFFICES ASSUME NEW S \in SUBSET Stored
               PROVE  /\ IsFiniteSet(S) /\ IsFiniteSet(Ahead(e, S))
                      /\ Cardinality(S) \in Nat
                      /\ Cardinality(Ahead(e, S)) \in Nat
    OBVIOUS
  <2>1. Ahead(e, S) \in SUBSET Stored
    BY DEF Ahead
  <2>2. IsFiniteSet(S) /\ IsFiniteSet(Ahead(e, S))
    BY <2>1, FS_Subset
  <2>. QED  BY <2>2, FS_CardinalityType
<1>2. Matching \in SUBSET Stored /\ e \in Stored
  BY StoredTypes
<1>3. Ahead(e, Matching) \in SUBSET Matching /\ e \notin Ahead(e, Matching)
  BY <1>2, BeforeIsOrder DEF Ahead
<1>4. /\ Cardinality(Ahead(e, Matching)) <= Cardinality(Matching)
      /\ Cardinality(Ahead(e, Matching)) # Cardinality(Matching)
  BY <1>1, <1>2, <1>3, FS_Subset
<1>. QED  BY <1>1, <1>2, <1>4 DEF Rank

-----------------------------------------------------------------------------
(* Events are created and nothing else: what a step may do to the collection. *)
Grows ==
  /\ query' = query
  /\ Stored \subseteq Stored' /\ IsFiniteSet(Stored')
  /\ \A x \in Stored : events'[x] = events[x]

(* The matches that precede a match only become more, and so do its ties. *)
LEMMA RanksGrow ==
  ASSUME TypeOK, TypeOK', Grows
  PROVE  /\ Matching \subseteq Matching'
         /\ \A e \in Matching :
              /\ Untied(e)' => Untied(e)
              /\ Rank(e)' \in Nat /\ Rank(e) <= Rank(e)'
              /\ Ahead(e, Matching) \subseteq Ahead(e, Matching)'
              /\ \A S \in SUBSET Stored : Ahead(e, S)' = Ahead(e, S)
<1>1. Matching \subseteq Matching' /\ Matching \subseteq Stored
  BY DEF Grows, Matching
<1>2. \A x, y \in Stored : Before(x, y)' <=> Before(x, y)
  BY DEF Grows, Before
<1> SUFFICES ASSUME NEW e \in Matching
             PROVE  /\ Untied(e)' => Untied(e)
                    /\ Rank(e)' \in Nat /\ Rank(e) <= Rank(e)'
                    /\ Ahead(e, Matching) \subseteq Ahead(e, Matching)'
                    /\ \A S \in SUBSET Stored : Ahead(e, S)' = Ahead(e, S)
  BY <1>1
<1>3. Untied(e)' => Untied(e)
  BY <1>1 DEF Untied, Grows
<1>4. \A S \in SUBSET Stored : Ahead(e, S)' = Ahead(e, S)
  BY <1>1, <1>2 DEF Ahead
<1>5. Ahead(e, Matching) \subseteq Ahead(e, Matching)'
  BY <1>1, <1>2 DEF Ahead
<1>6. Rank(e)' \in Nat /\ Rank(e) <= Rank(e)'
  <2>1. Matching' \subseteq Stored'
    BY DEF Matching
  <2>2. Ahead(e, Matching)' \subseteq Stored'
    BY <2>1 DEF Ahead
  <2>3. IsFiniteSet(Ahead(e, Matching)')
    BY <2>2, FS_Subset DEF Grows
  <2>. QED  BY <1>5, <2>3, FS_Subset, FS_CardinalityType DEF Rank
<1>. QED  BY <1>3, <1>4, <1>5, <1>6

(* What a page says stays true while events are created. *)
LEMMA HoldsWhileGrowing ==
  ASSUME TypeOK, TypeOK', Grows, atStart' = atStart, atStart \subseteq Matching,
         NEW data, NEW p, PageHolds(data, p)
  PROVE  PageHolds(data, p)'
<1> SUFFICES ASSUME NEW k \in DOMAIN data
             PROVE  /\ data[k] \in Matching'
                    /\ Untied(data[k])' =>
                         LET before == Cardinality(Ahead(data[k], atStart)') IN
                         /\ before <= (p - 1) * query.limit + k - 1
                         /\ Ahead(data[k], Matching)' \subseteq atStart =>
                              before = (p - 1) * query.limit + k - 1
  BY DEF PageHolds, Grows
<1>1. data[k] \in Matching /\ atStart \in SUBSET Stored
  BY StoredTypes DEF PageHolds
<1>2. Ahead(data[k], atStart)' = Ahead(data[k], atStart)
  BY <1>1, RanksGrow
<1>3. Ahead(data[k], Matching) \subseteq Ahead(data[k], Matching)'
  BY <1>1, RanksGrow
<1>. QED  BY <1>1, <1>2, <1>3, RanksGrow DEF PageHolds

(* An event that is on a page to come stays on one. *)
LEMMA FollowsWhileGrowing ==
  ASSUME TypeOK, TypeOK', Grows, IsFiniteSet(Stored), atStart' = atStart, atStart \subseteq Matching,
         NEW E, NEW p \in Nat, Follows(E, p)
  PROVE  Follows(E, p)'
<1> SUFFICES ASSUME NEW e \in atStart, Untied(e)', e \notin E
             PROVE  Rank(e)' >= p * query.limit
  BY DEF Follows, Grows
<1>1. e \in Matching /\ Untied(e) /\ Rank(e)' \in Nat /\ Rank(e) <= Rank(e)'
  BY RanksGrow
<1>2. Rank(e) >= p * query.limit
  BY <1>1 DEF Follows
<1>3. Rank(e) \in Nat /\ Rank(e)' \in Nat /\ p * query.limit \in Nat
  BY <1>1, RanksGrow, RankTypes, StoredTypes
<1>. QED  BY <1>1, <1>2, <1>3

-----------------------------------------------------------------------------
(* One read of findAll is filled in, the other stays. *)
LEMMA ReadingExcept ==
  ASSUME NEW h, NEW d, NEW t, NEW x, h = [pc |-> "reading", data |-> d, total |-> t]
  PROVE  /\ [h EXCEPT !.data = x]  = [pc |-> "reading", data |-> x, total |-> t]
         /\ [h EXCEPT !.total = x] = [pc |-> "reading", data |-> d, total |-> x]
OBVIOUS

(* What a query of findAll leaves in its handler. *)
LEMMA ReadingTypes ==
  ASSUME TypeOK, IsReading
  PROVE  /\ handler \in Reading
         /\ \A d \in Seq(EventId) :
              LET h == [handler EXCEPT !.data = <<d>>] IN
              h \in Reading /\ Len(h.data) = 1 /\ h.data[1] = d /\ h.total = handler.total
         /\ \A t \in Nat :
              LET h == [handler EXCEPT !.total = <<t>>] IN
              h \in Reading /\ Len(h.total) = 1 /\ h.total[1] = t /\ h.data = handler.data
<1>1. handler \in Reading
  BY DEF TypeOK, IsReading, Free, Reading
<1>2. handler = [pc |-> "reading", data |-> handler.data, total |-> handler.total]
  BY <1>1 DEF Reading
<1>3. ASSUME NEW d \in Seq(EventId)
      PROVE  LET h == [handler EXCEPT !.data = <<d>>] IN
             h \in Reading /\ Len(h.data) = 1 /\ h.data[1] = d /\ h.total = handler.total
  <2>1. [handler EXCEPT !.data = <<d>>] = [pc |-> "reading", data |-> <<d>>, total |-> handler.total]
    BY <1>2, ReadingExcept
  <2>2. <<d>> \in Seq(Seq(EventId)) /\ Len(<<d>>) = 1 /\ <<d>>[1] = d
    OBVIOUS
  <2>. QED  BY <1>1, <2>1, <2>2 DEF Reading
<1>4. ASSUME NEW t \in Nat
      PROVE  LET h == [handler EXCEPT !.total = <<t>>] IN
             h \in Reading /\ Len(h.total) = 1 /\ h.total[1] = t /\ h.data = handler.data
  <2>1. [handler EXCEPT !.total = <<t>>] = [pc |-> "reading", data |-> handler.data, total |-> <<t>>]
    BY <1>2, ReadingExcept
  <2>2. <<t>> \in Seq(Nat) /\ Len(<<t>>) = 1 /\ <<t>>[1] = t
    OBVIOUS
  <2>. QED  BY <1>1, <2>1, <2>2 DEF Reading
<1>. QED  BY <1>1, <1>3, <1>4

(* Type correctness, step by step. *)
LEMMA TypesStep ==
  ASSUME TypeOK, WalkInv, FindInv, [Next]_vars
  PROVE  TypeOK'
<1> USE DEF TypeOK
<1>1. ASSUME NEW e \in EventId, CreateEvent(e)  PROVE TypeOK'
  <2>1. /\ e \notin Stored /\ UNCHANGED <<query, handler, pages, walk, atStart>>
        /\ overtaken' \in BOOLEAN
    BY <1>1 DEF CreateEvent
  <2>2. events' \in [EventId -> EventDoc \cup NoEvent] /\ Stored \subseteq Stored'
    BY <1>1 DEF CreateEvent, Stored
  <2>3. \A q \in Seq(Stored) : q \in Seq(Stored')
    BY <2>2, SeqMonotonic
  <2>4. pages \in Seq(Seq(Stored'))
    <3>1. Seq(Stored) \subseteq Seq(Stored')
      BY <2>3
    <3>. QED  BY <3>1, SeqMonotonic
  <2>. QED  BY <2>1, <2>2, <2>4
<1>2. CASE StartWalk
  <2>1. Stored' = Stored /\ atStart' \subseteq Stored
    BY <1>2 DEF StartWalk, Stored, Matching
  <2>. QED  BY <1>2, <2>1 DEF StartWalk
<1>3. CASE FindAll
  <2>1. <<>> \in Seq(Seq(EventId)) /\ <<>> \in Seq(Nat) /\ Len(<<>>) = 0
    BY EmptySeq
  <2>2. handler' \in Reading /\ handler'.pc = "reading"
        /\ Len(handler'.data) = 0 /\ Len(handler'.total) = 0
    BY <1>3, <2>1 DEF FindAll, Reading
  <2>3. /\ UNCHANGED <<events, query, pages, walk, atStart>> /\ overtaken' \in BOOLEAN
        /\ Stored' = Stored
    BY <1>3 DEF FindAll, Stored
  <2>4. handler' \in Free \cup Reading
        /\ (handler'.pc = "reading" => Len(handler'.data) <= 1 /\ Len(handler'.total) <= 1)
    BY <2>2
  <2>. QED  BY <2>3, <2>4
<1>4. CASE Find
  <2>1. PICK s \in Sorted : handler' = [handler EXCEPT !.data = <<Data(s)>>]
    BY <1>4 DEF Find
  <2>2. Data(s) \in Seq(Matching)
    BY <2>1, PageIsPiece, SkipTypes DEF WalkInv
  <2>3. Data(s) \in Seq(EventId)
    BY <2>2, StoredTypes, SeqMonotonic
  <2>4. IsReading /\ handler.pc = "reading"
    BY <1>4 DEF Find, IsReading
  <2>5. handler' \in Reading /\ Len(handler'.data) = 1 /\ handler'.total = handler.total
    BY <2>1, <2>3, <2>4, ReadingTypes
  <2>. QED  BY <1>4, <2>4, <2>5 DEF Find, Stored
<1>5. CASE CountDocuments
  <2>1. Cardinality(Matching) \in Nat
    BY StoredTypes, FS_Subset, FS_CardinalityType DEF WalkInv
  <2>2. IsReading /\ handler.pc = "reading"
    BY <1>5 DEF CountDocuments, IsReading
  <2>3. handler' \in Reading /\ Len(handler'.total) = 1 /\ handler'.data = handler.data
    BY <1>5, <2>1, <2>2, ReadingTypes DEF CountDocuments
  <2>. QED  BY <1>5, <2>2, <2>3 DEF CountDocuments, Stored
<1>6. CASE FindAllFails
  BY <1>6 DEF FindAllFails, Free, Stored
<1>7. CASE Answer
  <2>1. handler.data[1] \in Seq(Stored) /\ Len(handler.data[1]) <= query.limit
    BY <1>7 DEF Answer, FindInv
  <2>2. pages' \in Seq(Seq(Stored)) /\ \A i \in DOMAIN pages' : Len(pages'[i]) <= query.limit
    <3> DEFINE d == handler.data[1]
    <3>1. d \in Seq(Stored) /\ pages' = Append(pages, d) /\ Len(d) <= query.limit
      BY <1>7, <2>1 DEF Answer
    <3>. HIDE DEF d
    <3>2. /\ pages' \in Seq(Seq(Stored)) /\ DOMAIN pages' = 1..(Len(pages) + 1)
          /\ \A i \in 1..Len(pages) : pages'[i] = pages[i]
          /\ pages'[Len(pages) + 1] = d /\ Len(pages) \in Nat /\ DOMAIN pages = 1..Len(pages)
      BY <3>1, AppendProperties, LenProperties
    <3>. QED  BY <3>1, <3>2
  <2>3. walk' \in {"on", "shortPage", "total"}
    BY <1>7 DEF Answer
  <2>. QED  BY <1>7, <2>2, <2>3 DEF Answer, Free, Stored
<1>8. CASE UNCHANGED vars
  BY <1>8 DEF vars, Stored
<1>. QED  BY <1>1, <1>2, <1>3, <1>4, <1>5, <1>6, <1>7, <1>8 DEF Next

-----------------------------------------------------------------------------
(* While nothing is created, nothing that is said of the collection changes. *)
LEMMA Still ==
  ASSUME UNCHANGED <<events, query>>
  PROVE  /\ Stored' = Stored /\ Matching' = Matching
         /\ \A e : (Untied(e)' <=> Untied(e)) /\ Rank(e)' = Rank(e)
         /\ \A e, S : Ahead(e, S)' = Ahead(e, S)
         /\ atStart' = atStart =>
              /\ \A data, p : PageHolds(data, p)' <=> PageHolds(data, p)
              /\ \A E, p : Follows(E, p)' <=> Follows(E, p)
<1>1. Stored' = Stored
  BY DEF Stored
<1>2. Matching' = Matching
  BY <1>1 DEF Matching
<1>3. \A a, b : Before(a, b)' <=> Before(a, b)
  BY DEF Before
<1>4. \A e : Untied(e)' <=> Untied(e)
  BY <1>2 DEF Untied
<1>5. \A e, S : Ahead(e, S)' = Ahead(e, S)
  BY <1>3 DEF Ahead
<1>6. \A e : Rank(e)' = Rank(e)
  BY <1>2, <1>5 DEF Rank
<1>7. ASSUME atStart' = atStart, NEW data, NEW p  PROVE PageHolds(data, p)' <=> PageHolds(data, p)
  BY <1>2, <1>4, <1>5, <1>7 DEF PageHolds
<1>8. ASSUME atStart' = atStart, NEW E, NEW p  PROVE Follows(E, p)' <=> Follows(E, p)
  BY <1>4, <1>6, <1>8 DEF Follows
<1>. QED  BY <1>1, <1>2, <1>4, <1>5, <1>6, <1>7, <1>8

(* The queries of findAll leave the walk of the client where it was. *)
LEMMA WalkStays ==
  ASSUME WalkInv, NothingSkipped, UNCHANGED <<events, query, pages, walk, atStart>>,
         IsReading' => walk = "on", walk = "on" \/ overtaken' = overtaken
  PROVE  /\ WalkInv' /\ NothingSkipped'
         /\ Listed' = Listed /\ Page' = Page
<1>1. Listed' = Listed /\ Page' = Page
  BY DEF Listed, Page
<1>2. (\A i \in DOMAIN pages : PageHolds(pages[i], i))'
  <2>1. \A i \in DOMAIN pages : PageHolds(pages[i], i)
    BY DEF WalkInv
  <2>. QED  BY <2>1, Still DEF PageHolds
<1>3. Follows(Listed, Len(pages))'
  <2>1. Follows(Listed, Len(pages))
    BY DEF WalkInv
  <2>. QED  BY <1>1, <2>1, Still DEF Follows
<1>4. WalkInv'
  BY <1>1, <1>2, <1>3, Still DEF WalkInv
<1>5. NothingSkipped'
  BY <1>1, Still DEF NothingSkipped, HasEnded
<1>. QED  BY <1>1, <1>4, <1>5

(* Before the first event is created nothing can be wrong. *)
LEMMA PagesInit == Init => PagesInv
<1> SUFFICES ASSUME Init  PROVE PagesInv
  OBVIOUS
<1> USE DEF Init
<1>1. Stored = {} /\ IsFiniteSet(Stored)
  BY FS_EmptySet DEF Stored
<1>2. TypeOK
  <2>1. pages \in Seq(Seq(Stored)) /\ \A i \in DOMAIN pages : Len(pages[i]) <= query.limit
    BY EmptySeq
  <2>2. handler \in Free /\ handler.pc # "reading"
    BY DEF Free
  <2>3. events \in [EventId -> EventDoc \cup NoEvent]
    BY DEF NoEvent
  <2>. QED  BY <2>1, <2>2, <2>3 DEF TypeOK
<1>3. ~IsReading
  BY DEF IsReading
<1>4. \A i \in DOMAIN pages : PageHolds(pages[i], i)
  BY EmptySeq
<1>. QED
  BY <1>1, <1>2, <1>3, <1>4
  DEF PagesInv, WalkInv, FindInv, CountInv, NothingSkipped, HasFound, HasCounted, Follows, HasEnded

-----------------------------------------------------------------------------
(* A created event moves others towards the end of the list, and none onto a page that was
   read: EventService.create. *)
LEMMA CreateStep ==
  ASSUME PagesInv, TypeOK', NEW e \in EventId, CreateEvent(e)
  PROVE  PagesInv'
<1>1. /\ TypeOK /\ WalkInv /\ FindInv /\ CountInv /\ NothingSkipped
      /\ IsFiniteSet(Stored) /\ atStart \subseteq Matching
  BY DEF PagesInv, WalkInv
<1>2. UNCHANGED <<query, handler, pages, walk, atStart>>
  BY DEF CreateEvent
<1>3. Grows
  <2>1. Stored \subseteq Stored' /\ (\A x \in Stored : events'[x] = events[x])
    BY <1>1 DEF CreateEvent, Stored, TypeOK
  <2>2. Stored' \subseteq Stored \cup {e}
    BY <1>1 DEF CreateEvent, Stored, TypeOK
  <2>3. IsFiniteSet(Stored')
    BY <1>1, <2>2, FS_AddElement, FS_Subset
  <2>. QED  BY <1>2, <2>1, <2>3 DEF Grows
<1>4. /\ Listed' = Listed /\ Page' = Page /\ Found' = Found
      /\ IsReading' = IsReading /\ HasFound' = HasFound /\ HasCounted' = HasCounted
  BY <1>2 DEF Listed, Page, Found, IsReading, HasFound, HasCounted
<1>5. Matching \subseteq Matching' /\ \A x \in Matching : Untied(x)' => Untied(x)
  BY <1>1, <1>3, RanksGrow
<1>6. \A data, p : PageHolds(data, p) => PageHolds(data, p)'
  BY <1>1, <1>2, <1>3, HoldsWhileGrowing
<1>7. \A E : \A p \in Nat : Follows(E, p) => Follows(E, p)'
  BY <1>1, <1>2, <1>3, FollowsWhileGrowing
<1>8. WalkInv'
  <2>1. (\A i \in DOMAIN pages : PageHolds(pages[i], i))'
    <3> SUFFICES ASSUME NEW i \in DOMAIN pages  PROVE PageHolds(pages[i], i)'
      BY <1>2
    <3>1. PICK d : d = pages[i]
      OBVIOUS
    <3>2. PageHolds(d, i)
      BY <1>1, <3>1 DEF WalkInv
    <3>3. PageHolds(d, i)' /\ d = pages'[i]
      BY <1>2, <1>6, <3>1, <3>2
    <3>. QED  BY <3>3 DEF PageHolds
  <2>2. Follows(Listed, Len(pages))'
    <3>1. Follows(Listed, Len(pages)) /\ Len(pages) \in Nat
      BY <1>1, SkipTypes DEF WalkInv
    <3>2. \A x \in atStart : Untied(x)' => x \in Listed \/ Rank(x)' >= Len(pages) * query.limit
      BY <1>2, <1>7, <3>1 DEF Follows
    <3>. QED  BY <1>2, <1>4, <3>2 DEF Follows
  <2>. QED
    BY <1>1, <1>2, <1>3, <1>4, <1>5, <2>1, <2>2 DEF WalkInv, Grows
<1>9. FindInv'
  <2> SUFFICES ASSUME HasFound'  PROVE FindInv'
    BY DEF FindInv
  <2> DEFINE data == handler.data[1]
  <2>1. /\ HasFound /\ data' = data
        /\ data \in Seq(Stored) /\ Len(data) <= query.limit
        /\ PageHolds(data, Page) /\ Follows(Found, Page)
        /\ (Len(data) < query.limit => \A x \in atStart : Untied(x) => x \in Found)
    BY <1>1, <1>2, <1>4 DEF FindInv
  <2>2. data' \in Seq(Stored')
    BY <1>3, <2>1, SeqMonotonic DEF Grows
  <2>3. (PageHolds(data, Page))'
    <3>1. PICK d, p : d = data /\ p = Page
      OBVIOUS
    <3>2. PageHolds(d, p)' /\ d = data' /\ p = Page'
      BY <1>4, <1>6, <2>1, <3>1
    <3>. QED  BY <3>2 DEF PageHolds
  <2>4. (Follows(Found, Page))'
    <3>1. Page \in Nat
      BY <1>1, SkipTypes
    <3>2. \A x \in atStart : Untied(x)' => x \in Found \/ Rank(x)' >= Page * query.limit
      BY <1>2, <1>7, <2>1, <3>1 DEF Follows
    <3>. QED  BY <1>2, <1>4, <3>2 DEF Follows
  <2>5. Len(data') < query'.limit => \A x \in atStart' : Untied(x)' => x \in Found'
    BY <1>1, <1>2, <1>4, <1>5, <2>1
  <2>6. Len(data') <= query'.limit
    BY <1>2, <2>1
  <2>. HIDE DEF data
  <2>. QED  BY <2>2, <2>3, <2>4, <2>5, <2>6 DEF FindInv, data
<1>10. CountInv'
  <2>1. CASE ~HasCounted
    BY <1>4, <2>1 DEF CountInv
  <2>2. CASE HasCounted /\ ~HasFound
    BY <1>1, <1>2, <1>4, <2>2 DEF CountInv, CreateEvent
  <2>3. CASE HasCounted /\ HasFound
    <3>1. overtaken' = overtaken
      BY <2>3, <1>1 DEF CreateEvent, TypeOK
    <3>. QED  BY <1>1, <1>2, <1>4, <1>5, <2>3, <3>1 DEF CountInv
  <2>. QED  BY <2>1, <2>2, <2>3
<1>11. NothingSkipped'
  BY <1>1, <1>2, <1>4, <1>5 DEF NothingSkipped, HasEnded, CreateEvent
<1>. QED  BY <1>8, <1>9, <1>10, <1>11 DEF PagesInv

(* The client asks for its first page. *)
LEMMA StartStep ==
  ASSUME PagesInv, TypeOK', StartWalk
  PROVE  PagesInv'
<1>1. /\ TypeOK /\ WalkInv /\ pages = <<>> /\ ~IsReading
      /\ UNCHANGED <<events, query, handler, pages, overtaken>>
      /\ walk' = "on" /\ atStart' = Matching
  BY DEF PagesInv, WalkInv, StartWalk
<1>2. ~IsReading' /\ ~HasFound' /\ ~HasCounted' /\ ~HasEnded'
  BY <1>1 DEF IsReading, HasFound, HasCounted, HasEnded
<1>3. IsFiniteSet(Stored') /\ atStart' \subseteq Matching' /\ Matching' = Matching
  BY <1>1, Still DEF WalkInv
<1>4. (\A i \in DOMAIN pages : PageHolds(pages[i], i))'
  BY <1>1, EmptySeq
<1>5. Follows(Listed, Len(pages))'
  <2>1. \A x \in Matching : Rank(x) \in Nat
    BY <1>1, RankTypes DEF WalkInv
  <2>2. \A x \in Matching : Rank(x)' \in Nat
    BY <1>1, <2>1, Still
  <2>3. Len(pages') = 0 /\ query'.limit \in Nat /\ Len(pages') * query'.limit = 0
    BY <1>1, EmptySeq, StoredTypes
  <2>. QED  BY <1>1, <2>2, <2>3 DEF Follows
<1>6. WalkInv'
  BY <1>1, <1>2, <1>3, <1>4, <1>5 DEF WalkInv
<1>. QED  BY <1>2, <1>6 DEF PagesInv, FindInv, CountInv, NothingSkipped

(* findAll begins or is given up: nothing has been found, nothing has been counted. *)
LEMMA BareStep ==
  ASSUME PagesInv, TypeOK', FindAll \/ FindAllFails
  PROVE  PagesInv'
<1>1. /\ TypeOK /\ WalkInv /\ NothingSkipped
      /\ UNCHANGED <<events, query, pages, walk, atStart>>
  BY DEF PagesInv, FindAll, FindAllFails
<1>2. /\ ~HasFound' /\ ~HasCounted'
      /\ IsReading' => walk = "on"
      /\ walk = "on" \/ overtaken' = overtaken
  BY DEF FindAll, FindAllFails, IsReading, HasFound, HasCounted
<1>3. WalkInv' /\ NothingSkipped'
  BY <1>1, <1>2, WalkStays
<1>. QED  BY <1>2, <1>3 DEF PagesInv, FindInv, CountInv

(* The find of findAll: a page is cut from the list as it is now. *)
LEMMA FindStep ==
  ASSUME PagesInv, TypeOK', Find
  PROVE  PagesInv'
<1>1. /\ TypeOK /\ WalkInv /\ CountInv /\ NothingSkipped
      /\ IsReading /\ ~HasFound /\ walk = "on"
      /\ IsFiniteSet(Stored) /\ atStart \subseteq Matching
      /\ UNCHANGED <<events, query, pages, walk, atStart, overtaken>>
  BY DEF PagesInv, WalkInv, Find
<1>2. PICK s \in Sorted : handler' = [handler EXCEPT !.data = <<Data(s)>>]
  BY DEF Find
<1> DEFINE data == Data(s)
<1>3. /\ Skip \in Nat /\ Page \in Nat /\ query.limit \in Nat
      /\ Skip = Len(pages) * query.limit /\ Skip = (Page - 1) * query.limit
      /\ Page * query.limit = Skip + query.limit
  BY <1>1, SkipTypes, StoredTypes DEF Skip
<1>4. /\ Len(s) \in Nat /\ Len(s) = Cardinality(Matching)
      /\ \A e \in Matching : \E i \in 1..Len(s) : s[i] = e
      /\ \A i \in 1..Len(s) : Untied(s[i]) => Rank(s[i]) = i - 1
  BY <1>1, SortedPositions
<1>5. /\ data \in Seq(Matching) /\ Len(data) \in Nat /\ DOMAIN data = 1..Len(data)
      /\ Len(data) <= query.limit
      /\ \A k \in 1..Len(data) : Skip + k \in 1..Len(s) /\ data[k] = s[Skip + k]
      /\ \A i \in 1..Len(s) : Skip < i /\ i <= Skip + query.limit =>
           \E k \in 1..Len(data) : data[k] = s[i]
      /\ Len(data) < query.limit => Len(s) < Skip + query.limit
  BY <1>1, <1>3, PageIsPiece, LenProperties
<1>6. data \in Seq(Stored) /\ data \in Seq(EventId)
  BY <1>1, <1>5, StoredTypes, SeqMonotonic
<1>7. /\ IsReading' /\ HasFound' /\ handler'.data[1] = data
      /\ HasCounted' = HasCounted /\ handler'.total = handler.total
  <2>1. handler.pc = "reading" /\ handler' \in Reading
        /\ Len(handler'.data) = 1 /\ handler'.data[1] = data /\ handler'.total = handler.total
    BY <1>1, <1>2, <1>6, ReadingTypes DEF IsReading
  <2>2. handler'.pc = "reading" /\ handler'.data # <<>>
    BY <2>1, EmptySeq DEF Reading
  <2>. QED  BY <2>1, <2>2 DEF IsReading, HasFound, HasCounted
<1>. HIDE DEF data
<1>8. WalkInv' /\ NothingSkipped' /\ Listed' = Listed /\ Page' = Page
  BY <1>1, WalkStays
<1>9. Found' = Listed \cup ToSet(data)
  BY <1>7, <1>8 DEF Found
<1>10. PageHolds(data, Page)
  <2> SUFFICES ASSUME NEW k \in 1..Len(data)
               PROVE  /\ data[k] \in Matching
                      /\ Untied(data[k]) =>
                           LET before == Cardinality(Ahead(data[k], atStart)) IN
                           /\ before <= (Page - 1) * query.limit + k - 1
                           /\ Ahead(data[k], Matching) \subseteq atStart =>
                                before = (Page - 1) * query.limit + k - 1
    BY <1>5 DEF PageHolds
  <2>1. data[k] \in Matching
    BY <1>5, ElementOfSeq
  <2>2. Untied(data[k]) => Rank(data[k]) = Skip + k - 1
    <3>1. PICK i : i = Skip + k /\ i \in 1..Len(s) /\ data[k] = s[i]
      BY <1>5
    <3>2. Untied(s[i]) => Rank(s[i]) = i - 1
      BY <1>4, <3>1
    <3>3. Untied(data[k]) => Rank(data[k]) = i - 1
      BY <3>1, <3>2, Zenon
    <3>4. i - 1 = Skip + k - 1
      BY <1>3, <3>1
    <3>. QED  BY <3>3, <3>4
  <2>3. /\ IsFiniteSet(Ahead(data[k], Matching))
        /\ Ahead(data[k], atStart) \subseteq Ahead(data[k], Matching)
    BY <1>1, <2>1, RankTypes, StoredTypes DEF Ahead
  <2>4. /\ Cardinality(Ahead(data[k], atStart)) <= Rank(data[k])
        /\ Ahead(data[k], Matching) \subseteq atStart =>
             Cardinality(Ahead(data[k], atStart)) = Rank(data[k])
    <3>1. Cardinality(Ahead(data[k], atStart)) <= Rank(data[k])
      BY <2>3, FS_Subset DEF Rank
    <3>2. ASSUME Ahead(data[k], Matching) \subseteq atStart
          PROVE  Ahead(data[k], atStart) = Ahead(data[k], Matching)
      BY <2>3, <3>2 DEF Ahead
    <3>. QED  BY <3>1, <3>2 DEF Rank
  <2>. QED  BY <1>3, <2>1, <2>2, <2>4
<1>11. ASSUME NEW e \in atStart, Untied(e), e \notin Found'
       PROVE  /\ Rank(e) >= Page * query.limit
              /\ Rank(e) < Cardinality(Matching)
              /\ ~(Len(data) < query.limit)
  <2>1. PICK i \in 1..Len(s) : s[i] = e
    BY <1>1, <1>4
  <2>2. Rank(e) = i - 1
    BY <1>4, <1>11, <2>1
  <2>3. Rank(e) >= Len(pages) * query.limit
    BY <1>1, <1>9, <1>11 DEF WalkInv, Follows
  <2>4. Skip < i
    BY <1>3, <2>2, <2>3
  <2>5. ~(i <= Skip + query.limit)
    <3>1. \A k \in 1..Len(data) : data[k] # e
      BY <1>5, <1>9, <1>11 DEF ToSet
    <3>. QED  BY <1>5, <2>1, <2>4, <3>1
  <2>6. Rank(e) >= Page * query.limit
    BY <1>3, <2>2, <2>5
  <2>7. Rank(e) < Cardinality(Matching)
    BY <1>4, <2>1, <2>2
  <2>8. ~(Len(data) < query.limit)
    BY <1>3, <1>4, <1>5, <2>1, <2>5
  <2>. QED  BY <2>6, <2>7, <2>8
<1>12. FindInv'
  <2>1. data \in Seq(Stored') /\ Len(data) <= query'.limit
    BY <1>1, <1>5, <1>6, Still
  <2>2. PageHolds(handler.data[1], Page)'
    <3>1. PICK d, p : d = data /\ p = Page
      OBVIOUS
    <3>2. PageHolds(d, p)
      BY <1>10, <3>1
    <3>3. PageHolds(d, p)' /\ d = handler'.data[1] /\ p = Page'
      BY <1>1, <1>7, <1>8, <3>1, <3>2, Still
    <3>. QED  BY <3>3 DEF PageHolds
  <2>3. Follows(Found, Page)'
    BY <1>1, <1>8, <1>11, Still DEF Follows
  <2>. QED  BY <1>1, <1>7, <1>11, <2>1, <2>2, <2>3, Still DEF FindInv
<1>13. CountInv'
  <2> SUFFICES ASSUME HasCounted, ~overtaken
               PROVE  \A e \in atStart : Untied(e) => e \in Found' \/ Page * query.limit < handler.total[1]
    BY <1>1, <1>7, <1>8, Still DEF CountInv
  <2>1. handler.total[1] = Cardinality(Matching)
    BY <1>1 DEF CountInv
  <2>2. \A e \in atStart : Rank(e) \in Nat /\ Cardinality(Matching) \in Nat /\ Page * query.limit \in Nat
    BY <1>1, <1>3, RankTypes
  <2>. QED  BY <1>11, <2>1, <2>2
<1>14. FindInv' /\ CountInv' /\ WalkInv' /\ NothingSkipped' /\ TypeOK'
  BY <1>8, <1>12, <1>13
<1>. QED  BY <1>14 DEF PagesInv

(* The countDocuments of findAll: the total is that of the list as it is now. *)
LEMMA CountStep ==
  ASSUME PagesInv, TypeOK', CountDocuments
  PROVE  PagesInv'
<1>1. /\ TypeOK /\ WalkInv /\ FindInv /\ CountInv /\ NothingSkipped
      /\ IsReading /\ walk = "on"
      /\ IsFiniteSet(Stored) /\ atStart \subseteq Matching
      /\ UNCHANGED <<events, query, pages, walk, atStart, overtaken>>
      /\ handler' = [handler EXCEPT !.total = <<Cardinality(Matching)>>]
  BY DEF PagesInv, WalkInv, CountDocuments
<1> DEFINE total == Cardinality(Matching)
<1>2. /\ total \in Nat /\ Cardinality(atStart) <= total
      /\ \A e \in atStart : Rank(e) \in Nat /\ Rank(e) < total
  <2>1. IsFiniteSet(Matching)
    BY <1>1, StoredTypes, FS_Subset
  <2>. QED  BY <1>1, <2>1, FS_Subset, FS_CardinalityType, RankTypes
<1>. HIDE DEF total
<1>3. /\ IsReading' /\ HasCounted' /\ handler'.total[1] = total
      /\ HasFound' = HasFound /\ handler'.data = handler.data
  <2>1. handler.pc = "reading" /\ handler' \in Reading
        /\ Len(handler'.total) = 1 /\ handler'.total[1] = total /\ handler'.data = handler.data
    BY <1>1, <1>2, ReadingTypes DEF IsReading, total
  <2>2. handler'.pc = "reading" /\ handler'.total # <<>>
    BY <2>1, EmptySeq DEF Reading
  <2>. QED  BY <2>1, <2>2 DEF IsReading, HasFound, HasCounted
<1>4. WalkInv' /\ NothingSkipped' /\ Listed' = Listed /\ Page' = Page
  BY <1>1, WalkStays
<1>5. Found' = Found
  BY <1>3, <1>4 DEF Found
<1>6. FindInv'
  <2> SUFFICES ASSUME HasFound  PROVE FindInv'
    BY <1>3 DEF FindInv
  <2>1. PageHolds(handler.data[1], Page)'
    <3>1. PICK d, p : d = handler.data[1] /\ p = Page
      OBVIOUS
    <3>2. PageHolds(d, p)
      BY <1>1, <3>1 DEF FindInv
    <3>3. PageHolds(d, p)' /\ d = handler'.data[1] /\ p = Page'
      BY <1>1, <1>3, <1>4, <3>1, <3>2, Still
    <3>. QED  BY <3>3 DEF PageHolds
  <2>2. Follows(Found, Page)'
    <3>1. Follows(Found, Page)
      BY <1>1 DEF FindInv
    <3>. QED  BY <1>1, <1>4, <1>5, <3>1, Still DEF Follows
  <2>. QED  BY <1>1, <1>3, <1>5, <2>1, <2>2, Still DEF FindInv
<1>7. CountInv'
  <2>1. ASSUME HasFound, NEW e \in atStart, Untied(e), e \notin Found
        PROVE  Page * query.limit < total
    <3>1. Rank(e) >= Page * query.limit
      BY <1>1, <2>1 DEF FindInv, Follows
    <3>2. Page * query.limit \in Nat
      BY <1>1, SkipTypes, StoredTypes
    <3>. QED  BY <1>2, <3>1, <3>2
  <2>2. handler'.total[1] = Cardinality(Matching')
    BY <1>1, <1>3, Still DEF total
  <2>3. handler'.total[1] \in Nat /\ Cardinality(atStart') <= handler'.total[1]
    BY <1>1, <1>2, <1>3
  <2>4. HasFound' => \A e \in atStart' : Untied(e)' => e \in Found' \/ Page' * query'.limit < handler'.total[1]
    BY <1>1, <1>3, <1>4, <1>5, <2>1, Still
  <2>. QED  BY <2>2, <2>3, <2>4 DEF CountInv
<1>8. TypeOK' /\ WalkInv' /\ FindInv' /\ CountInv' /\ NothingSkipped'
  BY <1>4, <1>6, <1>7
<1>. QED  BY <1>8 DEF PagesInv

(* findAll answers, and the client asks for the next page or ends its walk. *)
LEMMA AnswerStep ==
  ASSUME PagesInv, TypeOK', Answer
  PROVE  PagesInv'
<1>1. /\ TypeOK /\ WalkInv /\ FindInv /\ CountInv
      /\ IsReading /\ HasFound /\ HasCounted /\ walk = "on"
      /\ UNCHANGED <<events, query, atStart, overtaken>>
  BY DEF PagesInv, WalkInv, Answer, HasFound
<1> DEFINE d == handler.data[1]
<1>2. d \in Seq(Stored) /\ pages' = Append(pages, d)
  BY <1>1 DEF Answer, FindInv
<1>. HIDE DEF d
<1>3. /\ Len(pages) \in Nat /\ Page = Len(pages) + 1 /\ DOMAIN pages = 1..Len(pages)
      /\ query.limit \in Nat /\ Page * query.limit \in Nat
  BY <1>1, SkipTypes, StoredTypes DEF Page
<1>4. /\ Len(pages') = Page /\ DOMAIN pages' = 1..Page
      /\ \A i \in 1..Len(pages) : pages'[i] = pages[i]
      /\ pages'[Page] = d
  BY <1>1, <1>2, <1>3, AppendProperties, LenProperties DEF TypeOK
<1>5. Listed' = Found
  <2>1. Listed' = UNION {ToSet(pages'[i]) : i \in 1..Page}
    BY <1>4 DEF Listed
  <2>2. Listed = UNION {ToSet(pages[i]) : i \in 1..Len(pages)}
    BY <1>3 DEF Listed
  <2>3. \A i \in 1..Page : i \in 1..Len(pages) \/ i = Page
    BY <1>3
  <2>4. \A i \in 1..Len(pages) : i \in 1..Page
    BY <1>3
  <2>5. Page \in 1..Page
    BY <1>3
  <2>. QED  BY <1>4, <2>1, <2>2, <2>3, <2>4, <2>5 DEF Found, d
<1>6. ~IsReading' /\ ~HasFound' /\ ~HasCounted' /\ walk' # "idle"
  BY DEF Answer, IsReading, HasFound, HasCounted
<1>7. (\A i \in DOMAIN pages : PageHolds(pages[i], i))'
  <2> SUFFICES ASSUME NEW i \in 1..Page  PROVE PageHolds(pages[i], i)'
    BY <1>4
  <2>1. PICK q : q = pages'[i]
    OBVIOUS
  <2>2. PageHolds(q, i)
    <3>1. CASE i = Page
      BY <1>1, <1>4, <2>1, <3>1 DEF FindInv, d
    <3>2. CASE i \in 1..Len(pages)
      BY <1>1, <1>3, <1>4, <2>1, <3>2 DEF WalkInv
    <3>. QED  BY <1>3, <3>1, <3>2
  <2>3. PageHolds(q, i)'
    BY <1>1, <2>2, Still
  <2>. QED  BY <2>1, <2>3 DEF PageHolds
<1>8. Follows(Listed, Len(pages))'
  <2>1. Follows(Found, Page)
    BY <1>1 DEF FindInv
  <2>. QED  BY <1>1, <1>4, <1>5, <2>1, Still DEF Follows
<1>9. walk' = "total" => Page * query.limit >= handler.total[1]
  BY DEF Answer
<1>10. WalkInv'
  <2>1. walk' = "total" => Cardinality(atStart') <= Len(pages') * query'.limit
    <3>1. /\ handler.total[1] \in Nat /\ Cardinality(atStart) <= handler.total[1]
          /\ Cardinality(atStart) \in Nat
      BY <1>1, FS_Subset, FS_CardinalityType, StoredTypes DEF CountInv, WalkInv
    <3>. QED  BY <1>1, <1>3, <1>4, <1>9, <3>1
  <2>. QED  BY <1>1, <1>6, <1>7, <1>8, <2>1, Still DEF WalkInv
<1>11. NothingSkipped'
  <2>1. CASE walk' = "shortPage"
    <3>1. Len(d) < query.limit
      BY <2>1 DEF Answer, d
    <3>2. \A e \in atStart : Untied(e) => e \in Found
      BY <1>1, <3>1 DEF FindInv, d
    <3>. QED  BY <1>1, <1>5, <3>2, Still DEF NothingSkipped
  <2>2. CASE walk' = "total"
    <3>1. \A e \in atStart : Untied(e) => e \in Found \/ overtaken
      BY <1>1, <1>3, <1>9, <2>2 DEF CountInv
    <3>. QED  BY <1>1, <1>5, <2>2, <3>1, Still DEF NothingSkipped
  <2>. QED  BY <2>1, <2>2 DEF NothingSkipped, HasEnded
<1>. QED  BY <1>6, <1>10, <1>11 DEF PagesInv, FindInv, CountInv

-----------------------------------------------------------------------------
(* Whatever is created while the pages of EventService.findAll are read, an event that was
   there before is on a page so far or on one to come. *)
THEOREM PagesInvariant == Spec => []PagesInv
<1>1. Init => PagesInv
  BY PagesInit
<1>2. PagesInv /\ [Next]_vars => PagesInv'
  <2> SUFFICES ASSUME PagesInv, [Next]_vars  PROVE PagesInv'
    OBVIOUS
  <2>1. TypeOK'
    BY TypesStep DEF PagesInv
  <2>2. ASSUME NEW e \in EventId, CreateEvent(e)  PROVE PagesInv'
    BY <2>1, <2>2, CreateStep
  <2>3. CASE StartWalk
    BY <2>1, <2>3, StartStep
  <2>4. CASE FindAll \/ FindAllFails
    BY <2>1, <2>4, BareStep
  <2>5. CASE Find
    BY <2>1, <2>5, FindStep
  <2>6. CASE CountDocuments
    BY <2>1, <2>6, CountStep
  <2>7. CASE Answer
    BY <2>1, <2>7, AnswerStep
  <2>8. CASE UNCHANGED vars
    <3>1. /\ UNCHANGED <<events, query, handler, pages, walk, atStart, overtaken>>
          /\ WalkInv /\ FindInv /\ CountInv /\ NothingSkipped
      BY <2>8 DEF vars, PagesInv
    <3>2. WalkInv' /\ NothingSkipped' /\ Listed' = Listed /\ Page' = Page
      BY <3>1, WalkStays DEF WalkInv, IsReading
    <3>3. Found' = Found /\ HasFound' = HasFound /\ HasCounted' = HasCounted
      BY <3>1, <3>2 DEF Found, HasFound, HasCounted, IsReading
    <3>4. FindInv'
      <4> SUFFICES ASSUME HasFound  PROVE FindInv'
        BY <3>3 DEF FindInv
      <4>1. PICK d, p : d = handler.data[1] /\ p = Page
        OBVIOUS
      <4>2. PageHolds(d, p)
        BY <3>1, <4>1 DEF FindInv
      <4>3. PageHolds(d, p)' /\ d = handler'.data[1] /\ p = Page'
        BY <3>1, <3>2, <4>1, <4>2, Still
      <4>4. PageHolds(handler.data[1], Page)'
        BY <4>3 DEF PageHolds
      <4>5. Follows(Found, Page)
        BY <3>1 DEF FindInv
      <4>6. Follows(Found, Page)'
        BY <3>1, <3>2, <3>3, <4>5, Still DEF Follows
      <4>. QED  BY <3>1, <3>3, <4>4, <4>6, Still DEF FindInv
    <3>5. CountInv'
      BY <3>1, <3>2, <3>3, Still DEF CountInv
    <3>. QED  BY <2>1, <3>2, <3>4, <3>5 DEF PagesInv
  <2>. QED  BY <2>2, <2>3, <2>4, <2>5, <2>6, <2>7, <2>8 DEF Next
<1>. QED  BY <1>1, <1>2, PTL DEF Spec

(* The collection, the query and the pages of a walk have the types of their schemas and DTOs. *)
THEOREM PagesTypeCorrect == Spec => []TypeOK
<1>1. PagesInv => TypeOK
  BY DEF PagesInv
<1>. QED  BY <1>1, PagesInvariant, PTL

(* An event with a sort key of its own that was there when the walk began is on one of its
   pages, unless the client went by a total that findAll counted before a creation. *)
THEOREM WalkSkipsNothing == Spec => []NothingSkipped
<1>1. PagesInv => NothingSkipped
  BY DEF PagesInv
<1>. QED  BY <1>1, PagesInvariant, PTL

(* An event that findAll returns on two pages was pushed from one to the next. *)
THEOREM RepeatsWerePushed == Spec => []RepeatsArePushed
<1>1. PagesInv => RepeatsArePushed
  <2> SUFFICES ASSUME PagesInv, NEW i \in DOMAIN pages, NEW j \in DOMAIN pages, i < j,
                      NEW e \in ToSet(pages[i]) \cap ToSet(pages[j]), Untied(e)
               PROVE  \E x \in Matching \ atStart : Before(x, e)
    BY DEF RepeatsArePushed
  <2>1. /\ TypeOK /\ IsFiniteSet(Stored) /\ atStart \subseteq Matching
        /\ PageHolds(pages[i], i) /\ PageHolds(pages[j], j)
    BY DEF PagesInv, WalkInv
  <2>2. PICK k \in DOMAIN pages[i], l \in DOMAIN pages[j] : pages[i][k] = e /\ pages[j][l] = e
    BY DEF ToSet
  <2>3. /\ i \in Nat /\ i >= 1 /\ j \in Nat /\ k \in Nat /\ l \in Nat /\ l >= 1
        /\ query.limit \in Nat /\ k <= query.limit
    <3>1. /\ i \in 1..Len(pages) /\ j \in 1..Len(pages) /\ Len(pages) \in Nat
          /\ k \in 1..Len(pages[i]) /\ Len(pages[i]) \in Nat
          /\ l \in 1..Len(pages[j]) /\ Len(pages[j]) \in Nat
      BY <2>1, <2>2, SkipTypes
    <3>2. Len(pages[i]) <= query.limit /\ query.limit \in Nat
      BY <2>1, StoredTypes DEF TypeOK
    <3>. QED  BY <3>1, <3>2
  <2> DEFINE before == Cardinality(Ahead(e, atStart))
             L == query.limit
  <2>4. /\ e \in Matching
        /\ before <= (i - 1) * L + k - 1
        /\ Ahead(e, Matching) \subseteq atStart => before = (j - 1) * L + l - 1
    BY <2>1, <2>2 DEF PageHolds
  <2>5. before \in Nat
    BY <2>1, <2>4, RankTypes, StoredTypes
  <2>. HIDE DEF before, L
  <2>6. (i - 1) * L \in Nat /\ (j - 1) * L \in Nat /\ (i - 1) * L + L <= (j - 1) * L
    BY <2>3, PagesFollow DEF L
  <2>7. before # (j - 1) * L + l - 1
    BY <2>3, <2>4, <2>5, <2>6 DEF L
  <2>8. ~(Ahead(e, Matching) \subseteq atStart)
    BY <2>4, <2>7
  <2>. QED  BY <2>8 DEF Ahead
<1>. QED  BY <1>1, PagesInvariant, PTL

(* When nothing is created meanwhile, the pages of findAll are the sorted matches, each of
   them once. *)
THEOREM QuietWalksAreLists == Spec => []QuietWalkIsTheList
<1>1. PagesInv => QuietWalkIsTheList
  <2> SUFFICES ASSUME PagesInv, HasEnded, Matching = atStart, \A e \in Matching : Untied(e)
               PROVE  /\ Listed = Matching
                      /\ \A i, j \in DOMAIN pages : \A k \in DOMAIN pages[i], l \in DOMAIN pages[j] :
                           i < j \/ (i = j /\ k < l) =>
                             \/ query.sortOrder = "ASC" /\ events[pages[i][k]].key < events[pages[j][l]].key
                             \/ query.sortOrder = "DESC" /\ events[pages[i][k]].key > events[pages[j][l]].key
    BY DEF QuietWalkIsTheList
  <2>1. /\ TypeOK /\ WalkInv /\ NothingSkipped /\ IsFiniteSet(Stored)
    BY DEF PagesInv, WalkInv
  <2>2. /\ Len(pages) \in Nat /\ DOMAIN pages = 1..Len(pages)
        /\ query.limit \in Nat /\ query.limit >= 1
        /\ \A i \in DOMAIN pages : /\ Len(pages[i]) \in Nat /\ Len(pages[i]) <= query.limit
                                   /\ DOMAIN pages[i] = 1..Len(pages[i])
    BY <2>1, SkipTypes, StoredTypes DEF TypeOK
  <2>3. \A e \in Matching : /\ Rank(e) \in Nat /\ Rank(e) < Cardinality(Matching)
                            /\ Cardinality(Matching) \in Nat
    BY <2>1, RankTypes
  <2>4. \A i \in DOMAIN pages : \A k \in DOMAIN pages[i] :
          /\ pages[i][k] \in Matching
          /\ Rank(pages[i][k]) = (i - 1) * query.limit + k - 1
    <3> SUFFICES ASSUME NEW i \in DOMAIN pages, NEW k \in DOMAIN pages[i]
                 PROVE  /\ pages[i][k] \in Matching
                        /\ Rank(pages[i][k]) = (i - 1) * query.limit + k - 1
      OBVIOUS
    <3>1. PageHolds(pages[i], i)
      BY <2>1 DEF WalkInv
    <3>2. pages[i][k] \in Matching /\ Untied(pages[i][k])
      BY <3>1 DEF PageHolds
    <3>3. Ahead(pages[i][k], Matching) \subseteq atStart
      BY DEF Ahead
    <3>4. Cardinality(Ahead(pages[i][k], atStart)) = (i - 1) * query.limit + k - 1
      BY <3>1, <3>2, <3>3 DEF PageHolds
    <3>. QED  BY <3>2, <3>4 DEF Rank
  <2>5. Listed \subseteq Matching
    BY <2>4 DEF Listed, ToSet
  <2>6. Matching \subseteq Listed
    <3> SUFFICES ASSUME NEW e \in Matching, e \notin Listed  PROVE FALSE
      OBVIOUS
    <3>1. walk = "total"
      BY <2>1 DEF NothingSkipped
    <3>2. Rank(e) >= Len(pages) * query.limit /\ Cardinality(Matching) <= Len(pages) * query.limit
      BY <2>1, <3>1 DEF WalkInv, Follows
    <3>3. Len(pages) * query.limit \in Nat
      BY <2>2
    <3>. QED  BY <2>3, <3>2, <3>3
  <2>7. ASSUME NEW i \in DOMAIN pages, NEW j \in DOMAIN pages,
               NEW k \in DOMAIN pages[i], NEW l \in DOMAIN pages[j], i < j \/ (i = j /\ k < l)
        PROVE  \/ query.sortOrder = "ASC" /\ events[pages[i][k]].key < events[pages[j][l]].key
               \/ query.sortOrder = "DESC" /\ events[pages[i][k]].key > events[pages[j][l]].key
    <3>1. PICK a, b : a = pages[i][k] /\ b = pages[j][l]
      OBVIOUS
    <3>2. /\ a \in Matching /\ b \in Matching
          /\ Rank(a) = (i - 1) * query.limit + k - 1 /\ Rank(b) = (j - 1) * query.limit + l - 1
      BY <2>4, <3>1
    <3>3. Rank(a) < Rank(b)
      <4>1. i \in Nat /\ j \in Nat /\ k \in Nat /\ l \in Nat /\ i >= 1 /\ l >= 1
            /\ query.limit \in Nat /\ k <= query.limit
        BY <2>2
      <4>2. CASE i = j
        BY <2>2, <2>7, <3>2, <4>1, <4>2
      <4>3. CASE i < j
        <5>1. /\ (i - 1) * query.limit \in Nat /\ (j - 1) * query.limit \in Nat
              /\ (i - 1) * query.limit + query.limit <= (j - 1) * query.limit
          BY <2>2, <4>1, <4>3, PagesFollow
        <5>2. PICK m \in Nat, n \in Nat :
                m = (i - 1) * query.limit /\ n = (j - 1) * query.limit /\ m + query.limit <= n
          BY <5>1
        <5>3. Rank(a) = m + k - 1 /\ Rank(b) = n + l - 1
          BY <3>2, <5>2
        <5>. QED  BY <4>1, <5>2, <5>3
      <4>. QED  BY <2>7, <4>2, <4>3
    <3>4. a # b
      BY <2>3, <3>2, <3>3
    <3>5. a \in Stored /\ b \in Stored /\ Matching \subseteq Stored
      BY <2>1, <3>2, StoredTypes
    <3>6. ~Before(b, a)
      <4> SUFFICES ASSUME Before(b, a)  PROVE FALSE
        OBVIOUS
      <4>1. Ahead(b, Matching) \subseteq Ahead(a, Matching)
        BY <2>1, <3>5, BeforeIsOrder DEF Ahead
      <4>2. IsFiniteSet(Ahead(a, Matching))
        BY <2>1, <3>2, <3>5, RankTypes
      <4>3. Rank(b) <= Rank(a)
        BY <4>1, <4>2, FS_Subset DEF Rank
      <4>. QED  BY <2>3, <3>2, <3>3, <4>3
    <3>7. events[a].key # events[b].key
      BY <3>2, <3>4 DEF Untied
    <3>8. Before(a, b) /\ query.sortOrder \in {"ASC", "DESC"}
      BY <2>1, <3>5, <3>6, <3>7, BeforeIsOrder, StoredTypes
    <3>. QED  BY <3>1, <3>8 DEF Before
  <2>. QED  BY <2>5, <2>6, <2>7
<1>. QED  BY <1>1, PagesInvariant, PTL
=============================================================================
