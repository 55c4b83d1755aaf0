----------------------------- MODULE QueryPaging -----------------------------
(***************************************************************************)
(* QueryTelemetry reads an agent's rows page by page: a page token is the  *)
(* time of the last point of the page before, and the range that a client  *)
(* leaves open is taken from the clock of each request.  Rows come in      *)
(* while it pages, late ones too, and rows may share a time (agents map    *)
(* whole seconds).  With a bucket a page has the last row of each bucket.  *)
(* Rows of one time are returned in no particular order.                   *)
(***************************************************************************)
EXTENDS Integers, FiniteSets, FiniteSetsExt

CONSTANTS
  DefaultLimit, MaxLimit, \* query's limits
  Hour,        \* the range of a request that gives none
  BucketWidth,
  MaxRows,     \* bound: rows
  MaxClock     \* bound: times of rows and of requests

ASSUME PagingAssumption ==
  /\ DefaultLimit \in Nat \ {0} /\ MaxLimit \in Nat /\ DefaultLimit <= MaxLimit
  /\ Hour \in Nat \ {0} /\ BucketWidth \in Nat \ {0} /\ MaxRows \in Nat /\ MaxClock \in Nat \ {0}

Times == 1..MaxClock
Open == 0        \* From, To or the page token of a request that has none

VARIABLES
  clock,    \* core's clock
  stored,   \* the agent's rows: [id, time]
  asked,    \* the client's request: [from, to, limit, bucket], repeated with each token
  token,    \* the page token for the next request
  client,   \* "none", "paging" or "done"
  got,      \* rows returned so far
  ends,     \* history: the times pages ended at
  atFirst,  \* history: the rows in the range of the first request
  slid,     \* history: an open From went past the token between two pages
  lastSeen  \* Status: the last answer, or Open

pagingVars == <<clock, stored, asked, token, client, got, ends, atFirst, slid, lastSeen>>

StoredRow == [id : 0..MaxRows, time : Times]
Request == [from : {Open} \cup Times, to : {Open} \cup Times, limit : 0..(MaxLimit + 1), bucket : BOOLEAN]
AnyRequest == [from |-> Open, to |-> Open, limit |-> 0, bucket |-> FALSE]

PagingTypeOK ==
  /\ clock \in Times /\ stored \subseteq StoredRow /\ asked \in Request /\ token \in {Open} \cup Times
  /\ client \in {"none", "paging", "done"} /\ got \subseteq StoredRow /\ ends \subseteq Times
  /\ atFirst \subseteq StoredRow /\ slid \in BOOLEAN /\ lastSeen \in {Open} \cup Times

PagingInit ==
  /\ clock = 1 /\ stored = {} /\ asked = AnyRequest /\ token = Open /\ client = "none"
  /\ got = {} /\ ends = {} /\ atFirst = {} /\ slid = FALSE /\ lastSeen = Open

Last(rows) == Max({r.time : r \in rows})

\* QueryTelemetry's range, from the clock where the request leaves it open.
To(req) == IF req.to = Open THEN clock ELSE req.to
From(req) == IF req.from = Open THEN To(req) - Hour ELSE req.from

\* Query's limit, and its start after a token.
Limit(req) == IF req.limit = 0 THEN DefaultLimit ELSE IF req.limit > MaxLimit THEN MaxLimit ELSE req.limit
After(req, tok) == IF tok # Open /\ tok > From(req) THEN tok ELSE From(req)

-----------------------------------------------------------------------------
(* Plausible bugs *)

\* The start of a page takes in the time of the token.
InRangeWithToken(req, tok) ==
  {r \in stored : (After(req, tok) < r.time \/ r.time = tok) /\ r.time < To(req)}

\* The rows of a page are not the first ones.
FirstsUnordered(rows, n) == {s \in SUBSET rows : Cardinality(s) = Min({n, Cardinality(rows)})}
-----------------------------------------------------------------------------
InRange(req, tok) == {r \in stored : After(req, tok) < r.time /\ r.time < To(req)}

\* DISTINCT ON (time_bucket): a last row of every bucket.
Bucket(r) == r.time \div BucketWidth
Distincts(rows) ==
  {s \in SUBSET rows :
     /\ \A r, q \in s : Bucket(r) = Bucket(q) => r = q
     /\ \A r \in rows : \E q \in s : Bucket(q) = Bucket(r) /\ q.time >= r.time}
Candidates(req, tok) == IF req.bucket THEN Distincts(InRange(req, tok)) ELSE {InRange(req, tok)}

\* ORDER BY time LIMIT n: n rows no later than the rest.
Firsts(rows, n) ==
  {s \in SUBSET rows :
     /\ Cardinality(s) = Min({n, Cardinality(rows)})
     /\ \A r \in s, q \in rows \ s : r.time <= q.time}
-----------------------------------------------------------------------------
\* A row comes in; rows of one time are told apart by a number.
Insert(time) ==
  /\ Cardinality(stored) < MaxRows
  /\ stored' = stored \cup {[id |-> Cardinality({r \in stored : r.time = time}), time |-> time]}
  /\ UNCHANGED <<clock, asked, token, client, got, ends, atFirst, slid, lastSeen>>

ClockTicks ==
  /\ clock < MaxClock /\ clock' = clock + 1
  /\ UNCHANGED <<stored, asked, token, client, got, ends, atFirst, slid, lastSeen>>

\* One more row than a page has is read, to know whether there is a next page.
Page(req, tok) ==
  \E rows \in Candidates(req, tok) : \E page \in Firsts(rows, Limit(req)) :
    /\ got' = got \cup page
    /\ IF Cardinality(rows) > Limit(req)
       THEN token' = Last(page) /\ client' = "paging" /\ ends' = ends \cup {Last(page)}
       ELSE token' = Open /\ client' = "done" /\ UNCHANGED ends

FirstPage(req) ==
  /\ client = "none" /\ asked' = req /\ Page(req, Open)
  /\ atFirst' = InRange(req, Open)
  /\ UNCHANGED <<clock, stored, slid, lastSeen>>

NextPage ==
  /\ client = "paging" /\ Page(asked, token)
  /\ slid' = (slid \/ From(asked) > token)
  /\ UNCHANGED <<clock, stored, asked, atFirst, lastSeen>>

\* Querier.Status over a window of the last Hour.
Status ==
  /\ LET recent == {r \in stored : r.time > clock - Hour} IN
       lastSeen' = IF recent = {} THEN Open ELSE Last(recent)
  /\ UNCHANGED <<clock, stored, asked, token, client, got, ends, atFirst, slid>>

PagingNext ==
  \/ \E time \in Times : Insert(time)
  \/ ClockTicks \/ NextPage \/ Status
  \/ client = "none" /\ \E req \in Request : FirstPage(req)

PagingSpec == PagingInit /\ [][PagingNext]_pagingVars
-----------------------------------------------------------------------------
(* Properties *)

\* Pages never give a row twice nor a row that is not after every earlier page's rows.
PagesGoOn == [][client = "paging" => \A r \in got' \ got, q \in got : q.time < r.time]_pagingVars

\* Once a client has all pages it has every row that was in its range when it began, but
\* for rows at the time a page ended at (see PagesComplete) and, if it left From open, what
\* the range slid over; one that wants buckets has a row of each bucket instead.
Sampled(r) == IF asked.bucket THEN \E q \in got : Bucket(q) = Bucket(r) /\ q.time >= r.time ELSE r \in got
PagingSound ==
  /\ PagingTypeOK
  /\ Cardinality(got) <= Cardinality(stored) /\ got \subseteq stored
  /\ (client = "done" /\ ~slid) => \A r \in atFirst : Sampled(r) \/ r.time \in ends

\* query.go: a page token "resumes after the last point a prior call returned -- combine
\* with the returned nextPageToken to page through a wide range".  The token is that point's
\* time: rows of the same time that did not fit on the page are never returned.
PagesComplete ==
  (client = "done" /\ asked.from # Open /\ asked.to # Open) => \A r \in atFirst : Sampled(r)
=============================================================================
