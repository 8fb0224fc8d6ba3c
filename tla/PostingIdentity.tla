----------------------------- MODULE PostingIdentity -----------------------------
(***************************************************************************)
(* Which row of the tracker a posting seen on a source belongs to: the     *)
(* ingests look for an existing row by several keys, resolve the official  *)
(* link, and then update that row or create one.  Nothing is unique in the *)
(* table, and two ingests may lie across each other.                       *)
(*                                                                         *)
(* A sighting is what a source shows of one posting of one employer: its   *)
(* id there, the requisition, the official link, the source's own link,    *)
(* and the role (title and place, normalized).                             *)
(***************************************************************************)
EXTENDS Integers, Sequences

CONSTANTS Sightings,   \* records [of, source, id, req, site, listing, role]
          Official,    \* the sources that are an employer's own board
          Ingests,
          MaxSightings, \* bound: sightings ingested
          None

VARIABLES rows,        \* the table; `of` is a history: the postings the row stood for
          ingest,      \* per ingest, the sighting in hand and the row found, as read
          sighted,
          overlapped,  \* history: two ingests lay across each other
          unresolved   \* history: the link of a sighting was not resolved

identityVars == <<rows, ingest, sighted, overlapped, unresolved>>

Idle == [state |-> "idle"]
NewRow == 0

Init ==
  /\ rows = <<>> /\ ingest = [i \in Ingests |-> Idle]
  /\ sighted = 0 /\ overlapped = FALSE /\ unresolved = FALSE

CanonicalLink(s) == IF s.site # None THEN s.site ELSE s.listing

\* findExistingJob, one tier after the other.
BySourceId(s) == {r \in DOMAIN rows : rows[r].source = s.source /\ rows[r].id = s.id}
ByRequisition(s) == {r \in DOMAIN rows : s.req # None /\ rows[r].req = s.req}
\* MUTANT: the official link is not looked at.
ByListing(s) == {r \in DOMAIN rows : s.listing # None /\ s.listing = rows[r].listing}
ByLink(s) == {r \in DOMAIN rows : CanonicalLink(s) \in {rows[r].site, rows[r].listing} \ {None}}
\* MUTANT: the requisition is not looked at.
ByRoleAlone(s) == {r \in DOMAIN rows : rows[r].source = s.source /\ rows[r].role = s.role}
ByRole(s) == {r \in DOMAIN rows :
  rows[r].source = s.source /\ rows[r].role = s.role /\ rows[r].req = s.req}

\* MUTANT: the link is looked at first.
ExistingByLinkFirst(s) ==
  IF ByLink(s) # {} THEN ByLink(s)
  ELSE IF BySourceId(s) # {} THEN BySourceId(s)
  ELSE IF ByRequisition(s) # {} THEN ByRequisition(s)
  ELSE IF ByRole(s) # {} THEN ByRole(s)
  ELSE {NewRow}
Existing(s) ==
  IF BySourceId(s) # {} THEN BySourceId(s)
  ELSE IF ByRequisition(s) # {} THEN ByRequisition(s)
  ELSE IF ByLink(s) # {} THEN ByLink(s)
  ELSE IF ByRole(s) # {} THEN ByRole(s)
  ELSE {NewRow}

Find(i, s) ==
  /\ ingest[i] = Idle /\ sighted < MaxSightings
  /\ \E r \in Existing(s) :
       ingest' = [ingest EXCEPT ![i] = [state |-> "resolving", sees |-> s, row |-> r,
         was |-> IF r = NewRow THEN None ELSE rows[r]]]
  /\ sighted' = sighted + 1
  /\ overlapped' = (overlapped \/ \E j \in Ingests \ {i} : ingest[j] # Idle)
  /\ UNCHANGED <<rows, unresolved>>

\* The status the resolver is told: the row's, otherwise that of the source's profile.
Verified(w) == IF w.row = NewRow THEN w.sees.source \in Official ELSE w.was.official

\* resolveOfficialJobDestination: a verified or resolved link stands, another is looked up.
Destinations(w) ==
  LET link == IF w.sees.site # None THEN w.sees.site
              ELSE IF w.row = NewRow THEN None ELSE w.was.site
      stands == Verified(w) \/ (w.row # NewRow /\ w.was.site # None)
  IN IF stands \/ link = None THEN {link} ELSE {link, None}

\* MUTANT: whatever source the sighting is of.
PromotionByAnyone(w) == w.was.source # w.sees.source \/ ~w.was.official \/ w.was.closed
CanonicalPromotion(w) ==
  /\ w.sees.source \in Official
  /\ w.was.source # w.sees.source \/ ~w.was.official \/ w.was.closed

\* The columns an update writes; those it leaves alone are the row's present ones.
Refreshed(row, w, link) ==
  [row EXCEPT !.site = link, !.listing = w.sees.listing, !.role = w.sees.role,
    !.req = IF w.sees.req # None THEN w.sees.req ELSE w.was.req,
    !.of = @ \union {w.sees.of}]
\* MUTANT: the source stays.
PromotedInPlace(row, w) ==
  [row EXCEPT !.id = w.sees.id, !.official = TRUE, !.closed = FALSE]
Promoted(row, w) ==
  [row EXCEPT !.source = w.sees.source, !.id = w.sees.id, !.official = TRUE, !.closed = FALSE]

Update(i, link) ==
  LET w == ingest[i]
  IN /\ w.row # NewRow
     /\ rows' = [rows EXCEPT ![w.row] =
          IF CanonicalPromotion(w) THEN Promoted(Refreshed(@, w, link), w)
          ELSE Refreshed(@, w, link)]

Create(i, link) ==
  LET s == ingest[i].sees
  IN /\ ingest[i].row = NewRow
     /\ rows' = Append(rows, [source |-> s.source, id |-> s.id, req |-> s.req,
          site |-> link, listing |-> s.listing, role |-> s.role, closed |-> FALSE,
          official |-> s.source \in Official, of |-> {s.of}])

Write(i) ==
  /\ ingest[i] # Idle
  /\ \E link \in Destinations(ingest[i]) :
       /\ Update(i, link) \/ Create(i, link)
       /\ unresolved' = (unresolved \/ (link = None /\ ingest[i].sees.site # None))
  /\ ingest' = [ingest EXCEPT ![i] = Idle]
  /\ UNCHANGED <<sighted, overlapped>>

\* The reconcile of the board closes the row (see PostingFeed).
Close(r) ==
  /\ rows[r].official /\ ~rows[r].closed
  /\ rows' = [rows EXCEPT ![r].closed = TRUE]
  /\ UNCHANGED <<ingest, sighted, overlapped, unresolved>>

Next ==
  \/ \E i \in Ingests : (\E s \in Sightings : Find(i, s)) \/ Write(i)
  \/ \E r \in DOMAIN rows : Close(r)

Spec == Init /\ [][Next]_identityVars

-----------------------------------------------------------------------------
Links == {s.site : s \in Sightings} \union {s.listing : s \in Sightings} \union {None}
Reqs == {s.req : s \in Sightings} \union {None}
Rows == [source : {s.source : s \in Sightings}, id : {s.id : s \in Sightings},
  req : Reqs, site : Links, listing : Links, role : {s.role : s \in Sightings},
  closed : BOOLEAN, official : BOOLEAN, of : SUBSET {s.of : s \in Sightings}]

\* Every row has one source's identity, and an official row that of a board.
IdentityTypeOK ==
  /\ rows \in Seq(Rows) /\ sighted \in 0..MaxSightings
  /\ \A i \in Ingests : ingest[i] # Idle =>
       ingest[i].sees \in Sightings /\ ingest[i].row \in {NewRow} \union DOMAIN rows
  /\ \A r \in DOMAIN rows :
       /\ rows[r].official <=> rows[r].source \in Official
       /\ \E s \in Sightings : s.source = rows[r].source /\ s.id = rows[r].id

\* Two postings have a key in common: the requisition of the employer, or the role and
\* the requisition on one source.
Alike(p, q) ==
  \E s, t \in Sightings :
    /\ s.of = p /\ t.of = q
    /\ \/ s.req # None /\ s.req = t.req
       \/ s.source = t.source /\ s.role = t.role /\ s.req = t.req

\* A row that has stood for two postings did so because they have a key in common
\* (findExistingJob: "never merely a similar-looking one").
MergedShareAKey ==
  \A r \in DOMAIN rows : \A p \in rows[r].of :
    rows[r].of = {p} \/ \E q \in rows[r].of \ {p} : Alike(p, q)

\* Unless two ingests lay across each other, no two rows carry one source's job id.
OneRowPerSourceId ==
  overlapped \/ \A r, t \in DOMAIN rows :
    rows[r].source = rows[t].source /\ rows[r].id = rows[t].id => r = t

\* All sources show the posting with one official link, or with one requisition.
Tied(p) ==
  LET seen == {s \in Sightings : s.of = p}
  IN \/ \E link \in Links \ {None} : \A s \in seen : s.site = link
     \/ \E req \in Reqs \ {None} : \A s \in seen : s.req = req

\* A posting that its sources show with one link or requisition has one row, unless two
\* ingests lay across each other, its link was not resolved, or it was taken for another
\* posting (SOURCE_SECURITY_REPORT: "Deduplicates the same job across CSV and Intern List").
OneRowPerPosting ==
  overlapped \/ unresolved \/ \A r, t \in DOMAIN rows :
    \A p \in rows[r].of \intersect rows[t].of :
      Tied(p) => r = t \/ rows[r].of # {p} \/ rows[t].of # {p}

\* A row verified on the employer's board stays verified, and it takes another identity
\* only from a board, whatever aggregators and scans show of it later.
OfficialStaysOfficial ==
  [][\A r \in DOMAIN rows : rows[r].official =>
       /\ rows'[r].official
       /\ <<rows'[r].source, rows'[r].id>> # <<rows[r].source, rows[r].id>> =>
            rows'[r].source \in Official]_identityVars

=============================================================================
