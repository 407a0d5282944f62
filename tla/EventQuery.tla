----------------------------- MODULE EventQuery -----------------------------
(***************************************************************************)
(* The read side of the event API: list_events and get_event               *)
(* (api/routes/events.py) and the lookup of a review item                  *)
(* (api/routes/review_items.py), while ingest, the shadow worker, users    *)
(* and processors go on committing.  PostgreSQL runs at READ COMMITTED, so *)
(* every statement of a request sees what is committed when it starts.     *)
(*                                                                         *)
(* An observation is a number, its id.  Filters on lifecycle, label and    *)
(* source look at the listed observation only: they are the set "match" of *)
(* the observations that satisfy them.                                     *)
(***************************************************************************)
EXTENDS Naturals, Sequences, FiniteSets

CONSTANTS
  Obs,       \* observations, by id
  Review,    \* the entities that are reviews; the others are objects
  Object,
  entityOf,  \* entityOf[o]: (source_instance_id, source_namespace, source_entity_id)
  occurred,  \* occurred[o]: occurred_at
  until,     \* until[o]: end_at, or occurred_at where there is none
  links,     \* links[o]: the objects named by extensions["links"]
  Linked,    \* the observations that have a row in review_observations
  Judged,    \* bound: the one review observation that is decided on and enriched
  Matches,   \* the sets of observations a filter may select
  Windows,   \* pairs <<occurred_from, occurred_to>>
  Limit

Entity == Review \cup Object

ASSUME EventQueryAssumption ==
  /\ Obs \subseteq Nat /\ IsFiniteSet(Obs) /\ Judged \in Obs
  /\ Review \cap Object = {}
  /\ entityOf \in [Obs -> Entity] /\ occurred \in [Obs -> Nat]
  /\ \A o \in Obs : until[o] \in Nat
  /\ \A o \in Obs : IF entityOf[o] \in Review THEN links[o] \subseteq Object
                                              ELSE links[o] = {}
  /\ Linked \subseteq Obs /\ entityOf[Judged] \in Review
  /\ Matches \subseteq SUBSET Obs /\ Windows \subseteq Nat \X Nat /\ Limit \in Nat \ {0}

VARIABLES
  db,       \* the committed observations
  trail,    \* what is committed about Judged
  statement, \* the statement the request runs next, or how it ended
  query,    \* the parameters of list_events
  linked,   \* linked_keys
  total,
  page,     \* the observations of the response
  first,    \* the first page, when the second is being read, and its db
  wanted,   \* the observation get_event is asked for
  timeline, related, display,
  shown,    \* what the response says of Judged
  began     \* history: what was committed when the request began

listVars   == <<query, linked, total, page, first>>
detailVars == <<wanted, timeline, related, display, shown>>
queryVars  == <<db, trail, statement, listVars, detailVars, began>>

None == 0
NoQuery == [kind |-> "any", match |-> Obs, window |-> <<0, 0>>, offset |-> 0]
NoPage  == [page |-> {}, linked |-> {}, db |-> {}]

Kind(o) == IF entityOf[o] \in Review THEN "review" ELSE "object"

-----------------------------------------------------------------------------
(* The rows of the queries, over the committed observations D.             *)
Newer(o, p) == occurred[o] > occurred[p] \/ (occurred[o] = occurred[p] /\ o > p)

Of(D, e) == {o \in D : entityOf[o] = e}

LatestOf(S) == {o \in S : \A p \in S \ {o} : Newer(o, p)}

(* The rows with position 1.                                               *)
Latest(D) == {o \in D : o \in LatestOf(Of(D, entityOf[o]))}

LastAt(D, o) == CHOOSE t \in {until[p] : p \in Of(D, entityOf[o])} :
                  \A p \in Of(D, entityOf[o]) : until[p] <= t

LinkedIds(S) == UNION {links[o] : o \in S}

Within(t, w) == (w[1] # 0 => t >= w[1]) /\ (w[2] # 0 => t <= w[2])

Rows(D, q, L) ==
  {o \in Latest(D) :
     /\ q.kind = "any" => entityOf[o] \notin L
     /\ q.kind # "any" => Kind(o) = q.kind
     /\ o \in q.match
     /\ Within(LastAt(D, o), q.window)}

(* ORDER BY last_occurred_at DESC, id DESC.                                *)
Above(D, o, p) ==
  \/ LastAt(D, o) > LastAt(D, p)
  \/ LastAt(D, o) = LastAt(D, p) /\ o > p

Position(D, R, o) == Cardinality({p \in R : Above(D, p, o)})

\* Variant: the offset counts from one.
PageAfterOffset(D, R, offset) ==
  {o \in R : Position(D, R, o) \in (offset + 1) .. (offset + Limit)}

Page(D, R, offset) == {o \in R : Position(D, R, o) \in offset .. (offset + Limit - 1)}

-----------------------------------------------------------------------------
QueryInit ==
  /\ db \in SUBSET (Obs \ Linked)  \* stored by a version that kept no link rows
  /\ trail = {}
  /\ statement = "idle"
  /\ query = NoQuery /\ linked = {} /\ total = 0 /\ page = {} /\ first = NoPage
  /\ wanted = None /\ timeline = {} /\ related = {} /\ display = {} /\ shown = {}
  /\ began = [db |-> {}, decision |-> {}]

(* The writers.  A result is stored with the status of its job; feedback   *)
(* on what has no decision creates one.                                    *)
Ingest(o) ==
  /\ o \in Linked \ db
  /\ db' = db \cup {o}
  /\ UNCHANGED <<trail, statement, listVars, detailVars, began>>

Write(facts) ==
  /\ Judged \in db
  /\ ~ facts \subseteq trail
  /\ trail' = trail \cup facts
  /\ UNCHANGED <<db, statement, listVars, detailVars, began>>

Decide       == Write({"decision"})
Notify       == "decision" \in trail /\ Write({"notification"})
GiveFeedback == Write({"decision", "feedback"})
SubmitResult == Write({"job_ended", "invocation"})

(* A new request forgets the answer of the last one.                       *)
Over == statement \in {"idle", "listed", "not found", "answered", "broken"}

Begin(step) ==
  /\ Over
  /\ statement' = step
  /\ began' = [db |-> db, decision |-> trail \cap {"decision"}]
  /\ UNCHANGED <<db, trail>>

ForgetList   == query' = NoQuery /\ linked' = {} /\ total' = 0 /\ page' = {} /\ first' = NoPage
ForgetDetail == wanted' = None /\ timeline' = {} /\ related' = {} /\ display' = {} /\ shown' = {}

-----------------------------------------------------------------------------
(* list_events: the links of the latest reviews, the number of rows, and   *)
(* the rows of the page.                                                   *)
List(kind, match, window) ==
  /\ Begin("links")
  /\ query' = [kind |-> kind, match |-> match, window |-> window, offset |-> 0]
  /\ linked' = {} /\ total' = 0 /\ page' = {} /\ first' = NoPage
  /\ ForgetDetail

(* The client turns the page.                                              *)
NextPage ==
  /\ statement = "listed" /\ query.offset = 0 /\ total > Limit
  /\ Begin("links")
  /\ query' = [query EXCEPT !.offset = Limit]
  /\ linked' = {} /\ total' = 0 /\ page' = {}
  /\ UNCHANGED <<first, detailVars>>

ReadLinks ==
  /\ statement = "links"
  /\ linked' = LinkedIds({o \in Latest(db) : Kind(o) = "review"})
  /\ statement' = "count"
  /\ UNCHANGED <<db, trail, query, total, page, first, detailVars, began>>

\* Variant: the total forgets the grouping.
CountAll ==
  /\ statement = "count"
  /\ total' = Cardinality(Rows(db, query, {}))
  /\ statement' = "page"
  /\ UNCHANGED <<db, trail, query, linked, page, first, detailVars, began>>

CountRows ==
  /\ statement = "count"
  /\ total' = Cardinality(Rows(db, query, linked))
  /\ statement' = "page"
  /\ UNCHANGED <<db, trail, query, linked, page, first, detailVars, began>>

ReadPage ==
  /\ statement = "page"
  /\ page' = Page(db, Rows(db, query, linked), query.offset)
  /\ first' = IF query.offset = 0 THEN [page |-> page', linked |-> linked, db |-> db] ELSE first
  /\ statement' = "listed"
  /\ UNCHANGED <<db, trail, query, linked, total, detailVars, began>>

-----------------------------------------------------------------------------
(* get_event, and get_review_item, which first looks up the observation.   *)
GetEvent(o) ==
  /\ Begin("row")
  /\ ForgetList
  /\ wanted' = o
  /\ timeline' = {} /\ related' = {} /\ display' = {} /\ shown' = {}

(* The review item exists as soon as one of its observations does.  The    *)
(* mapping of the source's id serves the reviews that have no link row.    *)
Candidates(D, e) ==
  IF Of(D, e) \cap Linked # {} THEN LatestOf(Of(D, e) \cap Linked) ELSE LatestOf(Of(D, e))

GetReviewItem(e) ==
  /\ Begin(IF Of(db, e) = {} THEN "not found" ELSE "row")
  /\ ForgetList
  /\ wanted' \in IF Of(db, e) = {} THEN {None} ELSE Candidates(db, e)
  /\ timeline' = {} /\ related' = {} /\ display' = {} /\ shown' = {}

ReadRow ==
  /\ statement = "row"
  /\ statement' = IF wanted \in db THEN "timeline" ELSE "not found"
  /\ UNCHANGED <<db, trail, listVars, detailVars, began>>

ReadTimeline ==
  /\ statement = "timeline"
  /\ timeline' = Of(db, entityOf[wanted])
  /\ related' = LinkedIds(timeline')
  /\ statement' = "display"
  /\ UNCHANGED <<db, trail, listVars, wanted, display, shown, began>>

(* min() of the times of an empty display_timeline raises, and the request *)
(* ends with status 500.                                                   *)
ReadDisplay ==
  /\ statement = "display"
  /\ display' = IF related = {} THEN timeline ELSE {o \in db : entityOf[o] \in related}
  /\ statement' = IF display' = {} THEN "broken" ELSE "decision"
  /\ UNCHANGED <<db, trail, listVars, wanted, timeline, related, shown, began>>

\* Variant: the job is read after its invocation.
InvocationBeforeJob ==
  [decision |-> "invocation", invocation |-> "job_ended", job_ended |-> "notification",
   notification |-> "feedback", feedback |-> "answered"]

(* The sections of the response, in the order their rows are read.         *)
AfterSection ==
  [decision |-> "job_ended", job_ended |-> "invocation", invocation |-> "notification",
   notification |-> "feedback", feedback |-> "answered"]

ReadSection ==
  /\ statement \in DOMAIN AfterSection
  /\ shown' = shown \cup (IF wanted = Judged THEN trail \cap {statement} ELSE {})
  /\ statement' = AfterSection[statement]
  /\ UNCHANGED <<db, trail, listVars, wanted, timeline, related, display, began>>

-----------------------------------------------------------------------------
Writers ==
  \/ \E o \in Obs : Ingest(o)
  \/ Decide \/ Notify \/ GiveFeedback \/ SubmitResult

Requests ==
  \/ \E k \in {"any", "review", "object"}, m \in Matches, w \in Windows : List(k, m, w)
  \/ NextPage
  \/ \E o \in Obs : GetEvent(o)
  \/ \E e \in Review : GetReviewItem(e)

Statements ==
  \/ ReadLinks \/ CountRows \/ ReadPage
  \/ ReadRow \/ ReadTimeline \/ ReadDisplay \/ ReadSection

QueryNext == Writers \/ Requests \/ Statements

QuerySpec == QueryInit /\ [][QueryNext]_queryVars

-----------------------------------------------------------------------------
(* The types of the variables.                                             *)
QueryTypeOK ==
  /\ db \subseteq Obs /\ trail \subseteq DOMAIN AfterSection
  /\ statement \in {"idle", "links", "count", "page", "listed", "row", "timeline", "display",
                    "not found", "broken", "answered"} \cup DOMAIN AfterSection
  /\ query \in [kind : {"any", "review", "object"}, match : SUBSET Obs,
                window : Windows \cup {<<0, 0>>}, offset : {0, Limit}]
  /\ linked \subseteq Object /\ total \in Nat /\ page \subseteq Obs
  /\ first \in [page : SUBSET Obs, linked : SUBSET Object, db : SUBSET Obs]
  /\ wanted \in Obs \cup {None}
  /\ timeline \subseteq Obs /\ related \subseteq Object /\ display \subseteq Obs
  /\ shown \subseteq DOMAIN AfterSection
  /\ began \in [db : SUBSET Obs, decision : SUBSET {"decision"}]

Unfiltered == query.match = Obs /\ query.window = <<0, 0>>

(* The total is counted before the page is read, and more may be committed *)
(* in between; but without filters a page is never shorter than the total  *)
(* lets the client expect.                                                 *)
PageIsFull ==
  [][ReadPage /\ Unfiltered =>
       \/ Cardinality(page') = Limit
       \/ Cardinality(page') + query.offset >= total]_queryVars

(* In the default list an object is shown beneath its review and not       *)
(* beside it, unless the review's observation came in during the request.  *)
GroupedOrFresh ==
  [][ReadPage /\ query.kind = "any" =>
       \A o \in page', p \in page' :
         entityOf[p] \in links[o] => o \notin began.db]_queryVars

(* Pages are cut by offset.  Of two pages that between them have room for  *)
(* every row, an entity can only be missing when it moved up meanwhile,    *)
(* when one of the rows of the first page was grouped beneath a review, or *)
(* it had been grouped itself; or when a row that ends at the same time    *)
(* has become that of another observation, for the ids of observations     *)
(* decide between the two.                                                 *)
PagesMissOnlyMoved ==
  [][ReadPage /\ Unfiltered /\ query.kind = "any" /\ query.offset = Limit =>
       LET now     == Rows(db, query, linked)
           seen    == {entityOf[o] : o \in first.page \cup page'}
           before  == {entityOf[o] : o \in first.db}
           grouped == linked \ first.linked
       IN  Cardinality(now) <= 2 * Limit =>
             \A o \in now : entityOf[o] \in before \ seen =>
               \/ LastAt(db, o) # LastAt(first.db, o)
               \/ grouped \cap before # {}
               \/ entityOf[o] \in first.linked
               \/ \E p \in now \ first.db : LastAt(db, p) = LastAt(first.db, o)]_queryVars

(* What a client may rely on in one list, whatever is committed meanwhile. *)
ListIsExplained == PageIsFull /\ GroupedOrFresh

(* A detail request fails only for a review none of whose objects had been *)
(* stored when the request began.                                          *)
BrokenOnlyUnstored ==
  statement = "broken" =>
    /\ related # {}
    /\ \A o \in began.db : entityOf[o] \notin LinkedIds(Of(began.db, entityOf[wanted]))

(* An ended job is shown with its invocation; and a notification or a      *)
(* feedback whose decision is not shown was decided on after the request   *)
(* began.                                                                  *)
SectionsAgree ==
  statement = "answered" =>
    /\ "job_ended" \in shown => "invocation" \in shown
    /\ (shown \cap {"notification", "feedback"} # {} /\ "decision" \notin shown)
         => began.decision = {}

(* A detail that is answered tells one story, and one that fails has a     *)
(* reason in what was stored.                                              *)
DetailIsExplained == BrokenOnlyUnstored /\ SectionsAgree

(* README.md:58: an event that is stored can be inspected.                 *)
StoredIsInspectable == statement # "broken"
=============================================================================
