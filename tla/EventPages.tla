------------------------------ MODULE EventPages ------------------------------
(***************************************************************************)
(* event-server: the paged list of events, EventService.findAll, read by a *)
(* client that walks its pages while events are created.  A page is cut    *)
(* from the sorted result by skip and limit, anew for each request, and    *)
(* the total comes with it from a query of its own.                        *)
(***************************************************************************)
EXTENDS Naturals, FiniteSets, Sequences, SequencesExt

CONSTANTS EventId,
          EventStatus,   \* the statuses events are created with
          AnyStatus,     \* a query without status
          Key,           \* values of the field that sortBy names
          Limit          \* items per page that queries ask for

ASSUME PagesAssumption ==
  /\ AnyStatus \notin EventStatus
  /\ Key \subseteq Nat
  /\ Limit \subseteq 1..100

VARIABLES events,    \* events[e]: the stored document, or the absence of one
          query,     \* the query of the walk
          handler,   \* the findAll that runs, if any: its two reads, each empty until it is made
          pages,     \* the pages the client has received
          walk,      \* "idle", "on", or how it ended
          atStart,   \* history: the events there were when the walk began
          overtaken  \* history: an event was created after the count of the page and before its find

vars == <<events, query, handler, pages, walk, atStart, overtaken>>

EventDoc == [status : EventStatus, key : Key]
NoEvent  == [status : {"none"}]

(* The query parameters the two ValidationPipes let pass; what is left out has a default. *)
FindEventsQueryDto == [status : EventStatus \cup {AnyStatus}, limit : Limit, sortOrder : {"ASC", "DESC"}]

Stored == {e \in EventId : events[e].status # "none"}

(* The filter. *)
Matching == {e \in Stored : query.status \in {AnyStatus, events[e].status}}

Page == Len(pages) + 1

(* Mutant: pages count from 0. *)
SkipFromZero == Page * query.limit

(* Mutant: the page number is taken for an offset. *)
SkipPages == Page - 1

Skip == (Page - 1) * query.limit

(* Mutant: the two orders are swapped. *)
BeforeSwapped(a, b) ==
  IF query.sortOrder = "DESC" THEN events[a].key < events[b].key ELSE events[a].key > events[b].key

Before(a, b) ==
  IF query.sortOrder = "ASC" THEN events[a].key < events[b].key ELSE events[a].key > events[b].key

(* What a sorted query may return: events with equal keys come in no particular order. *)
Sorted ==
  {s \in SetToSeqs(Matching) : \A i, j \in DOMAIN s : i < j => ~Before(s[j], s[i])}

(* Mutant: one item more, to know whether there is another page. *)
DataOneMore(s) == SubSeq(s, Skip + 1, Min({Skip + query.limit + 1, Len(s)}))

(* Skip, then limit. *)
Data(s) == SubSeq(s, Skip + 1, Min({Skip + query.limit, Len(s)}))

Free    == [pc : {"free"}]
Reading == [pc : {"reading"}, data : Seq(Seq(EventId)), total : Seq(Nat)]

TypeOK ==
  /\ events \in [EventId -> EventDoc \cup NoEvent]
  /\ query \in FindEventsQueryDto
  /\ handler \in Free \cup Reading
  /\ handler.pc = "reading" => Len(handler.data) <= 1 /\ Len(handler.total) <= 1
  /\ pages \in Seq(Seq(Stored))
  /\ \A i \in DOMAIN pages : Len(pages[i]) <= query.limit
  /\ walk \in {"idle", "on", "shortPage", "total"}
  /\ atStart \subseteq Stored
  /\ overtaken \in BOOLEAN

Init ==
  /\ events = [e \in EventId |-> [status |-> "none"]]
  /\ query \in FindEventsQueryDto
  /\ handler = [pc |-> "free"]
  /\ pages = <<>>
  /\ walk = "idle"
  /\ atStart = {}
  /\ overtaken = FALSE

-----------------------------------------------------------------------------
IsReading == handler.pc = "reading"
HasFound   == IsReading /\ handler.data # <<>>
HasCounted == IsReading /\ handler.total # <<>>

(* EventService.create, the insertion. *)
CreateEvent(e) ==
  /\ e \notin Stored
  /\ \E doc \in EventDoc : events' = [events EXCEPT ![e] = doc]
  /\ overtaken' = (overtaken \/ (HasCounted /\ ~HasFound))
  /\ UNCHANGED <<query, handler, pages, walk, atStart>>

(* The client begins with page 1. *)
StartWalk ==
  /\ walk = "idle"
  /\ walk' = "on"
  /\ atStart' = Matching
  /\ UNCHANGED <<events, query, handler, pages, overtaken>>

(* findAll begins: find and countDocuments are both under way. *)
FindAll ==
  /\ walk = "on"
  /\ ~IsReading
  /\ handler' = [pc |-> "reading", data |-> <<>>, total |-> <<>>]
  /\ overtaken' = FALSE
  /\ UNCHANGED <<events, query, pages, walk, atStart>>

Find ==
  /\ IsReading /\ ~HasFound
  /\ \E s \in Sorted : handler' = [handler EXCEPT !.data = <<Data(s)>>]
  /\ UNCHANGED <<events, query, pages, walk, atStart, overtaken>>

(* Mutant: the count ends at the limit of the page. *)
CountDocumentsOfPage ==
  /\ IsReading /\ ~HasCounted
  /\ handler' = [handler EXCEPT !.total = <<Min({query.limit, Cardinality(Matching)})>>]
  /\ UNCHANGED <<events, query, pages, walk, atStart, overtaken>>

CountDocuments ==
  /\ IsReading /\ ~HasCounted
  /\ handler' = [handler EXCEPT !.total = <<Cardinality(Matching)>>]
  /\ UNCHANGED <<events, query, pages, walk, atStart, overtaken>>

(* A query fails, the service restarts or the gateway gives up: the client asks again. *)
FindAllFails ==
  /\ IsReading
  /\ handler' = [pc |-> "free"]
  /\ UNCHANGED <<events, query, pages, walk, atStart, overtaken>>

(* Both have answered.  A client ends its walk with a page that is not full, or by the
   total. *)
Answer ==
  /\ HasFound /\ HasCounted
  /\ handler' = [pc |-> "free"]
  /\ pages' = Append(pages, handler.data[1])
  /\ \/ Len(handler.data[1]) < query.limit /\ walk' = "shortPage"
     \/ Page * query.limit >= handler.total[1] /\ walk' = "total"
     \/ Len(handler.data[1]) = query.limit /\ walk' = "on"
  /\ UNCHANGED <<events, query, atStart, overtaken>>

Next ==
  \/ \E e \in EventId : CreateEvent(e)
  \/ StartWalk \/ FindAll \/ Find \/ CountDocuments \/ FindAllFails \/ Answer

Spec == Init /\ [][Next]_vars

-----------------------------------------------------------------------------
HasEnded == walk \in {"shortPage", "total"}

(* No other match has the sort key of e. *)
Untied(e) == \A x \in Matching \ {e} : events[x].key # events[e].key

Listed == UNION {ToSet(pages[i]) : i \in DOMAIN pages}

(* An event that was there when the walk began is on one of its pages, however many events
   are created meanwhile: creations push events to later pages, never to earlier ones.  It
   takes a sort key of its own, and a client that goes by the total may still miss it when
   the count was made before a creation and the find after it (event.service.ts:64). *)
NothingSkipped ==
  HasEnded => \A e \in atStart :
    Untied(e) => e \in Listed \/ (walk = "total" /\ overtaken)

(* An event that is on two pages was pushed from one to the next by an event created
   during the walk that sorts before it. *)
RepeatsArePushed ==
  \A i, j \in DOMAIN pages : i < j =>
    \A e \in ToSet(pages[i]) \cap ToSet(pages[j]) :
      Untied(e) => \E x \in Matching \ atStart : Before(x, e)

(* If nothing is created meanwhile and no keys are equal, the pages are the sorted list of
   all matches, cut in pieces. *)
QuietWalkIsTheList ==
  HasEnded /\ Matching = atStart /\ (\A e \in Matching : Untied(e)) =>
    /\ Listed = Matching
    /\ \A i, j \in DOMAIN pages : \A k \in DOMAIN pages[i], l \in DOMAIN pages[j] :
         i < j \/ (i = j /\ k < l) =>
           \/ query.sortOrder = "ASC" /\ events[pages[i][k]].key < events[pages[j][l]].key
           \/ query.sortOrder = "DESC" /\ events[pages[i][k]].key > events[pages[j][l]].key

-----------------------------------------------------------------------------
(* The matches that sort before e, and how many there are: e is on the page that its rank
   falls on, and its rank only grows. *)
Ahead(e, S) == {x \in S : Before(x, e)}

Rank(e) == Cardinality(Ahead(e, Matching))

(* What a page p says once it was found: none of its events can have been further down the
   list when the walk began, and one that only old events precede is where it always was. *)
PageHolds(data, p) ==
  \A k \in DOMAIN data :
    /\ data[k] \in Matching
    /\ Untied(data[k]) =>
         LET before == Cardinality(Ahead(data[k], atStart)) IN
         /\ before <= (p - 1) * query.limit + k - 1
         /\ Ahead(data[k], Matching) \subseteq atStart => before = (p - 1) * query.limit + k - 1

(* An old event that is not among E is on a page after p. *)
Follows(E, p) == \A e \in atStart : Untied(e) => e \in E \/ Rank(e) >= p * query.limit

WalkInv ==
  /\ IsFiniteSet(Stored)
  /\ atStart \subseteq Matching
  /\ walk = "idle" => pages = <<>> /\ atStart = {}
  /\ IsReading => walk = "on"
  /\ \A i \in DOMAIN pages : PageHolds(pages[i], i)
  /\ Follows(Listed, Len(pages))
  /\ walk = "total" => Cardinality(atStart) <= Len(pages) * query.limit

(* What the handler has found so far. *)
Found == Listed \cup ToSet(handler.data[1])

FindInv ==
  HasFound =>
    LET data == handler.data[1] IN
    /\ data \in Seq(Stored) /\ Len(data) <= query.limit
    /\ PageHolds(data, Page)
    /\ Follows(Found, Page)
    /\ Len(data) < query.limit => \A e \in atStart : Untied(e) => e \in Found

CountInv ==
  HasCounted =>
    LET total == handler.total[1] IN
    /\ total \in Nat /\ Cardinality(atStart) <= total
    /\ ~HasFound /\ ~overtaken => total = Cardinality(Matching)
    /\ HasFound /\ ~overtaken =>
         \A e \in atStart : Untied(e) => e \in Found \/ Page * query.limit < total

(* The inductive invariant of the walk. *)
PagesInv == TypeOK /\ WalkInv /\ FindInv /\ CountInv /\ NothingSkipped

=============================================================================
