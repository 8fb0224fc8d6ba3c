------------------------------ MODULE PostingFeed ------------------------------
(***************************************************************************)
(* One posting of an employer's official board and everything that writes  *)
(* its row: the board checks (companyDiscovery.ts, ingest.ts,              *)
(* activeFeed.ts, officialBoardDelta.ts), the lanes that read an index of  *)
(* postings (massTechnicalFeeds.ts, publicDirectFeeds.ts and the radars),  *)
(* the resolution of aggregator rows (discoveryResolution.ts), the         *)
(* verification of the queue and of the verify route (sync/queue.ts,       *)
(* verify.ts), the freshness batch (freshness.ts), the application worker  *)
(* (applications/worker.ts, fraudCheck.ts) and the maintenance of the feed *)
(* (activeFeed.ts).                                                        *)
(*                                                                         *)
(* None of them locks the row.  A step is one statement on it, or one look *)
(* at the employer's site; a task reads, looks, and writes later.  Reads   *)
(* of the board that fail, are empty, unsupported or not modified end the  *)
(* task without a write, and are not steps.  The row exists already, as    *)
(* the sighting of an aggregator or of the board.  Verification and        *)
(* resolution match titles, and may take another posting of the employer   *)
(* for this one; what the tasks of that other posting then do to this row  *)
(* is left out.                                                            *)
(***************************************************************************)
EXTENDS Integers, FiniteSets

CONSTANTS
  Checks,      \* checks of the company that may overlap
  MaxBusy,     \* bound on the tasks in progress
  MaxChanges   \* bound on the times the employer removes or reposts it

Lanes == {"index", "resolution"}   \* what else ingests the posting
Others == Lanes \cup {"verify", "freshness", "agent", "maintenance"}
Tasks == Checks \cup Others

BOARD_MISSES_BEFORE_CLOSE == 2

VARIABLES
  kind,      \* which vendor the board is of, and where its pages are
  listed,    \* the posting is on the board, and its page is reachable
  changes,   \* removals and repostings so far
  row,       \* the Job row
  task,      \* per task, the statement it executes next
  found,     \* per task, what it read or was answered
  absences,  \* history: listings that did not show the posting under the id of its row
  misread,   \* history: one of them showed it, under another id
  strayed,   \* history: the row was given the URL of another posting
  wasGone    \* history: the posting was off the board at some time

postingVars == <<kind, listed, changes, row, task, found, absences, misread, strayed, wasGone>>

\* A vendor whose rows the maintenance promotes, one whose rows it leaves alone, and
\* one of the first on a host of the employer's own, which the URL does not give away.
Kinds == {"legacy", "direct", "custom"}

Verified == "VERIFIED_OFFICIAL_AT_LAST_CHECK"
Statuses == {Verified, "Pending", "ACTIVE_SOURCE_LISTED", "Closed", "SecurityQuarantine"}

Row == [source : {"aggregator", "vendor", "other"},
        id : {"board", "index"},         \* who named sourceJobId
        url : {"own", "stray", "none"},  \* officialApplicationUrl: whose page it is
        status : Statuses, active : BOOLEAN,
        qualifying : BOOLEAN,  \* classification QUALIFYING_INTERNSHIP
        tenant : BOOLEAN,      \* atsType and atsTenant are those of the board
        misses : 0..BOARD_MISSES_BEFORE_CLOSE,  \* the last value: that many or more
        closedAt : BOOLEAN]

TaskSteps == {"idle", "ingest", "upsert", "promote", "delta", "present", "count", "close",
              "canonical", "settle", "recheck", "verified", "recompute", "show", "hide",
              "quarantine", "probed", "reconcile"}
Findings == {"nothing", "open", "closed", "unknown", "other", "unresolved",
             "first", "again", "stale", "current"}

busy == {t \in Tasks : task[t] # "idle"}
Starts(t) == task[t] = "idle" /\ Cardinality(busy) < MaxBusy
TaskTo(t, s) == task' = [task EXCEPT ![t] = s]
Learns(t, f) == found' = [found EXCEPT ![t] = f]
Ends(t) == TaskTo(t, "idle") /\ Learns(t, "nothing")
World == <<kind, listed, changes, wasGone>>
Histories == <<absences, misread, strayed>>

-----------------------------------------------------------------------------
(* sourcePolicy.ts and the answers of the employer's site                    *)

\* Faulty: a verified row is visible whoever vouches for it.
ActiveWhenVerified(source, status) == status = Verified

computeActiveFeed(source, status) == source # "aggregator" /\ status = Verified

\* A probe of the posting's page: only a page that says so is closed; everything
\* else that is not a success is inconclusive.
ProbeResults == IF listed THEN {"open", "unknown"} ELSE {"closed", "unknown"}

\* A probe of the row's URL, which may be the page of another posting.
PageAnswers(url) == IF url = "own" THEN ProbeResults ELSE {"open", "closed", "unknown"}

\* isLegacyAutoPromotableDirectSource
Promotable == row.source = "vendor" /\ kind # "direct"

-----------------------------------------------------------------------------
(* The ingestion of a sighting, by a check or by another lane                *)

\* The source and the tenant a sighting comes with: those of the company for a
\* check, those inferResolvedSource reads off the URL for the others.
Sighting(t) == IF t \in Checks \/ kind # "custom" THEN [source |-> "vendor", tenant |-> TRUE]
               ELSE [source |-> "other", tenant |-> FALSE]

\* An index names the posting as it likes; a match on the board has the board's id.
Ids(t) == IF t \in Checks THEN {"board"} ELSE {"board", "index"}

\* upsertNormalizedJob looks the row up and resolves the destination ...  A row of
\* an aggregator is found by its URL alone: without it another row is written.
IngestReads(t) ==
  /\ task[t] = "ingest"
  /\ IF row.source = "aggregator" /\ row.url # "own"
     THEN IF t \in Checks THEN TaskTo(t, "delta") /\ Learns(t, "current") ELSE Ends(t)
     ELSE /\ TaskTo(t, "upsert")
          /\ Learns(t, IF /\ row.source = Sighting(t).source /\ row.tenant = Sighting(t).tenant
                          /\ row.status = Verified /\ ~row.closedAt
                       THEN "current" ELSE "stale")
  /\ UNCHANGED <<World, row, Histories>>

\* ... and writes it (canonicalPromotion).
Upsert(t) ==
  /\ task[t] = "upsert"
  /\ \E id \in Ids(t) :
       row' = IF found[t] = "stale"
              THEN [source |-> Sighting(t).source, id |-> id, url |-> "own",
                    status |-> Verified, active |-> TRUE, qualifying |-> TRUE,
                    tenant |-> Sighting(t).tenant, misses |-> 0, closedAt |-> FALSE]
              ELSE [row EXCEPT !.qualifying = TRUE, !.url = "own"]
  /\ TaskTo(t, "promote")
  /\ UNCHANGED <<World, found, Histories>>

\* A check compares its listing next, the resolution updates the row once more.
promoteCanonicalDirectJob(t) ==
  /\ task[t] = "promote"
  /\ \E id \in Ids(t) :
       row' = [row EXCEPT !.source = Sighting(t).source, !.id = id, !.url = "own",
                          !.status = Verified, !.qualifying = TRUE,
                          !.tenant = Sighting(t).tenant, !.active = TRUE]
  /\ IF t = "index" THEN Ends(t)
     ELSE TaskTo(t, IF t \in Checks THEN "delta" ELSE "canonical") /\ UNCHANGED found
  /\ UNCHANGED <<World, Histories>>

Ingests(t) == IngestReads(t) \/ Upsert(t) \/ promoteCanonicalDirectJob(t)

-----------------------------------------------------------------------------
(* checkCompany                                                              *)

\* Faulty: a posting known from an aggregator is not ingested again.
ListNewOnly(c) ==
  /\ Starts(c)
  /\ IF listed /\ row.source = "aggregator" THEN TaskTo(c, "delta") /\ Learns(c, "current")
     ELSE TaskTo(c, IF listed THEN "ingest" ELSE "delta") /\ UNCHANGED found
  /\ absences' = IF listed \/ absences = BOARD_MISSES_BEFORE_CLOSE THEN absences
                 ELSE absences + 1
  /\ UNCHANGED <<World, row, misread, strayed>>

\* A read of the board that is accepted as evidence.
ListBoard(c) ==
  /\ Starts(c)
  /\ TaskTo(c, IF listed THEN "ingest" ELSE "delta")
  /\ absences' = IF listed \/ absences = BOARD_MISSES_BEFORE_CLOSE THEN absences
                 ELSE absences + 1
  /\ UNCHANGED <<World, row, found, misread, strayed>>

\* reconcileOfficialBoardDelta tracks the qualifying rows of the board, and looks
\* for their ids in the listing: for this one only if the listing showed it, and the
\* row still has the id of the board.
Tracked == row.tenant /\ row.qualifying

DeltaReads(c) ==
  /\ task[c] = "delta"
  /\ IF ~Tracked THEN Ends(c) /\ UNCHANGED <<absences, misread>>
     ELSE IF found[c] # "nothing" /\ row.id = "board"
     THEN TaskTo(c, "present") /\ UNCHANGED <<found, absences, misread>>
     ELSE /\ TaskTo(c, "count")
          /\ Learns(c, IF row.misses + 1 >= BOARD_MISSES_BEFORE_CLOSE THEN "again" ELSE "first")
          /\ misread' = (misread \/ found[c] # "nothing")
          /\ absences' = IF found[c] = "nothing" \/ absences = BOARD_MISSES_BEFORE_CLOSE
                         THEN absences ELSE absences + 1
  /\ UNCHANGED <<World, row, strayed>>

\* Faulty: a sighting takes one miss back.
PresentForgives(c) ==
  /\ task[c] = "present"
  /\ row' = [row EXCEPT !.misses = @ - 1]
  /\ Ends(c)
  /\ UNCHANGED <<World, Histories>>

DeltaPresent(c) ==
  /\ task[c] = "present"
  /\ row' = [row EXCEPT !.misses = 0]
  /\ Ends(c)
  /\ UNCHANGED <<World, Histories>>

\* Faulty: the first miss closes the posting.
CloseAtOnce(c) ==
  /\ task[c] = "count"
  /\ row' = [row EXCEPT !.misses = IF @ = BOARD_MISSES_BEFORE_CLOSE THEN @ ELSE @ + 1]
  /\ TaskTo(c, "close") /\ UNCHANGED found
  /\ UNCHANGED <<World, Histories>>

DeltaMisses(c) ==
  /\ task[c] = "count"
  /\ row' = [row EXCEPT !.misses = IF @ = BOARD_MISSES_BEFORE_CLOSE THEN @ ELSE @ + 1]
  /\ IF found[c] = "again" THEN TaskTo(c, "close") /\ UNCHANGED found ELSE Ends(c)
  /\ UNCHANGED <<World, Histories>>

DeltaCloses(c) ==
  /\ task[c] = "close"
  /\ row' = [row EXCEPT !.status = "Closed", !.qualifying = FALSE,
                        !.active = FALSE, !.closedAt = TRUE]
  /\ Ends(c)
  /\ UNCHANGED <<World, Histories>>

-----------------------------------------------------------------------------
(* The other lanes that show the posting                                     *)

\* runMassTechnicalFeedDiscovery takes the postings of its indexes whose URL no
\* visible row has, on the word of the index.  (The public feeds and the radars do
\* the same after a probe that found the page open: fewer behaviours, the same writes.)
IndexNames ==
  /\ Starts("index")
  /\ ~row.active
  /\ TaskTo("index", "ingest")
  /\ UNCHANGED <<World, row, found, Histories>>

\* processCandidate, of a hidden row of an aggregator, or of a listing it has just
\* read, which leaves no trace unless the page is open.  It looks for the posting on
\* the board, may take another one for it, and probes the page it found.
ResolutionLooks ==
  /\ Starts("resolution")
  /\ \/ /\ ~row.active /\ row.source = "aggregator"
        /\ \E answer \in ProbeResults \cup {"unresolved", "other"} :
             /\ Learns("resolution", answer)
             /\ TaskTo("resolution", IF answer = "open" THEN "ingest" ELSE "settle")
     \/ listed /\ Learns("resolution", "open") /\ TaskTo("resolution", "ingest")
  /\ UNCHANGED <<World, row, Histories>>

\* The destination is written to the stored row, and the closure of its page.
ResolutionSettles ==
  /\ task["resolution"] = "settle"
  /\ \/ /\ found["resolution"] = "unresolved"
        /\ row' = [row EXCEPT !.url = "none"] /\ UNCHANGED strayed
     \/ /\ found["resolution"] = "unknown"
        /\ row' = [row EXCEPT !.url = "own"] /\ UNCHANGED strayed
     \/ /\ found["resolution"] = "closed"
        /\ row' = [row EXCEPT !.url = "own", !.status = "Closed", !.qualifying = FALSE,
                              !.active = FALSE]
        /\ UNCHANGED strayed
     \/ /\ found["resolution"] = "other" /\ strayed' = TRUE
        /\ \/ row' = [row EXCEPT !.url = "stray"]
           \/ row' = [row EXCEPT !.url = "stray", !.status = "Closed", !.qualifying = FALSE,
                                 !.active = FALSE]
  /\ Ends("resolution")
  /\ UNCHANGED <<World, absences, misread>>

\* The last update of the row the sighting was written to.
ResolutionShows ==
  /\ task["resolution"] = "canonical"
  /\ row' = [row EXCEPT !.url = "own", !.active = TRUE]
  /\ Ends("resolution")
  /\ UNCHANGED <<World, Histories>>

LaneSteps ==
  (\E t \in Lanes : Ingests(t)) \/ ResolutionSettles \/ ResolutionShows

-----------------------------------------------------------------------------
(* verifyPendingJob, the recheck of runQueueBatch and the verify route       *)

\* A verified row is rechecked at its URL; another one is looked for on the
\* boards by its title, where a listed posting may be missed, and another one be
\* similar enough.
VerifyLooks ==
  /\ Starts("verify")
  /\ IF row.status = Verified /\ row.url # "none"
     THEN /\ TaskTo("verify", "recheck")
          /\ \E answer \in PageAnswers(row.url) : Learns("verify", answer)
     ELSE /\ TaskTo("verify", "verified")
          /\ \E answer \in {"unknown", "other"} \cup (IF listed THEN {"open"} ELSE {}) :
               Learns("verify", answer)
  /\ UNCHANGED <<World, row, Histories>>

\* Faulty: an inconclusive recheck counts as closure.
RecheckCloses ==
  /\ task["verify"] = "recheck"
  /\ row' = IF found["verify"] # "open" THEN [row EXCEPT !.status = "Closed"] ELSE row
  /\ TaskTo("verify", "recompute")
  /\ Learns("verify", "nothing")
  /\ UNCHANGED <<World, Histories>>

\* The queue recomputes after a closure, the route always.
RecheckWrites ==
  /\ task["verify"] = "recheck"
  /\ row' = IF found["verify"] = "closed" THEN [row EXCEPT !.status = "Closed"] ELSE row
  /\ \/ TaskTo("verify", "recompute") /\ Learns("verify", "nothing")
     \/ found["verify"] # "closed" /\ Ends("verify")
  /\ UNCHANGED <<World, Histories>>

\* A match is verified, unless its place or its title differ, and gives the row its
\* URL; no match is no closure, and may leave the row without a URL.  All replace the
\* tenant, by that of the match or by none.  The text of a verified match is scanned,
\* and may show fraud signals.
VerifyWrites ==
  /\ task["verify"] = "verified"
  /\ \/ /\ found["verify"] = "unknown"
        /\ \E url \in {row.url, "none"} :
             row' = [row EXCEPT !.status = "ACTIVE_SOURCE_LISTED", !.tenant = FALSE, !.url = url]
     \/ /\ found["verify"] # "unknown"
        /\ \E status \in {Verified, "ACTIVE_SOURCE_LISTED"}, same \in BOOLEAN :
             row' = [row EXCEPT !.status = status, !.tenant = same /\ status = Verified,
                                !.url = IF found["verify"] = "open" THEN "own" ELSE "stray"]
  /\ strayed' = (strayed \/ row'.url = "stray")
  /\ TaskTo("verify", "recompute")
  /\ \/ found["verify"] # "unknown" /\ row'.status = Verified /\ Learns("verify", "open")
     \/ Learns("verify", "nothing")
  /\ UNCHANGED <<World, absences, misread>>

\* recomputeJobActiveFeed reads the row, and writes the flag when it differs; a
\* description with signals is quarantined afterwards.
AfterRecompute ==
  IF found["verify"] = "open" THEN TaskTo("verify", "quarantine") /\ UNCHANGED found
  ELSE Ends("verify")

RecomputeReads ==
  /\ task["verify"] = "recompute"
  /\ LET next == computeActiveFeed(row.source, row.status) IN
       IF next = row.active THEN AfterRecompute
       ELSE TaskTo("verify", IF next THEN "show" ELSE "hide") /\ UNCHANGED found
  /\ UNCHANGED <<World, row, Histories>>

RecomputeWrites ==
  /\ task["verify"] \in {"show", "hide"}
  /\ row' = [row EXCEPT !.active = task["verify"] = "show"]
  /\ AfterRecompute
  /\ UNCHANGED <<World, Histories>>

\* quarantineJob writes the status alone.
VerifyQuarantines ==
  /\ task["verify"] = "quarantine"
  /\ row' = [row EXCEPT !.status = "SecurityQuarantine"]
  /\ TaskTo("verify", "recompute")
  /\ Learns("verify", "nothing")
  /\ UNCHANGED <<World, Histories>>

-----------------------------------------------------------------------------
(* runFreshnessVerificationBatch, the worker and the maintenance             *)

\* The rows a batch chooses from, of which it takes at most 50.
Eligible == row.active /\ row.status = Verified /\ row.url # "none"

\* It probes for up to 8 s; an unknown state is not written, not even the time of
\* the check.
FreshnessProbes ==
  /\ Starts("freshness")
  /\ Eligible
  /\ \E answer \in PageAnswers(row.url) \ {"unknown"} : Learns("freshness", answer)
  /\ TaskTo("freshness", "probed")
  /\ UNCHANGED <<World, row, Histories>>

\* Faulty: a closed verdict only notes that the page was looked at.
FreshnessNotes ==
  /\ task["freshness"] = "probed"
  /\ row' = IF found["freshness"] = "closed" THEN row ELSE [row EXCEPT !.status = Verified]
  /\ Ends("freshness")
  /\ UNCHANGED <<World, Histories>>

\* The verdict is written to the row as it is by then.
FreshnessWrites ==
  /\ task["freshness"] = "probed"
  /\ row' = IF found["freshness"] = "closed"
            THEN [row EXCEPT !.status = "Closed", !.active = FALSE, !.qualifying = FALSE]
            ELSE [row EXCEPT !.status = Verified]
  /\ Ends("freshness")
  /\ UNCHANGED <<World, Histories>>

\* processApplicationRun opens verified rows only, and rechecks the URL.  It
\* writes the row when the page is gone, or its text shows fraud signals.
AgentRechecks ==
  /\ Starts("agent")
  /\ row.status = Verified /\ row.url # "none"
  /\ \E answer \in PageAnswers(row.url) \ {"open"} : Learns("agent", answer)
  /\ TaskTo("agent", "probed")
  /\ UNCHANGED <<World, row, Histories>>

\* Both stop the run, and both write the status alone.
AgentWrites ==
  /\ task["agent"] = "probed"
  /\ row' = [row EXCEPT !.status =
       IF found["agent"] = "closed" THEN "Closed" ELSE "SecurityQuarantine"]
  /\ Ends("agent")
  /\ UNCHANGED <<World, Histories>>

\* reconcileDirectOfficialFeed reads every row, hides visible aggregator rows and
\* promotes the rows of some vendors that are not verified and visible.
MaintenanceReads ==
  /\ Starts("maintenance")
  /\ IF row.source = "aggregator" THEN row.active
     ELSE Promotable /\ (row.status # Verified \/ ~row.active)
  /\ Learns("maintenance", IF row.source = "aggregator" THEN "current" ELSE "stale")
  /\ TaskTo("maintenance", "reconcile")
  /\ UNCHANGED <<World, row, Histories>>

MaintenanceWrites ==
  /\ task["maintenance"] = "reconcile"
  /\ row' = IF found["maintenance"] = "stale"
            THEN [row EXCEPT !.status = Verified, !.active = TRUE]
            ELSE [row EXCEPT !.active = FALSE]
  /\ Ends("maintenance")
  /\ UNCHANGED <<World, Histories>>

\* The employer removes the posting, or posts it again.
EmployerChanges ==
  /\ changes < MaxChanges
  /\ changes' = changes + 1
  /\ listed' = ~listed
  /\ wasGone' = (wasGone \/ listed)
  /\ UNCHANGED <<kind, row, task, found, Histories>>

-----------------------------------------------------------------------------
\* The first sighting: of an aggregator, with the URL of the posting (hidden,
\* pending), or of the board, which may have dropped the posting since.
FirstSightings ==
  {[source |-> "aggregator", id |-> "index", url |-> "own", status |-> "Pending",
    active |-> FALSE, qualifying |-> FALSE, tenant |-> FALSE, misses |-> 0,
    closedAt |-> FALSE],
   [source |-> "vendor", id |-> "board", url |-> "own", status |-> Verified,
    active |-> TRUE, qualifying |-> TRUE, tenant |-> TRUE, misses |-> 0,
    closedAt |-> FALSE]}

NoTasks ==
  /\ task = [t \in Tasks |-> "idle"]
  /\ found = [t \in Tasks |-> "nothing"]
  /\ absences = 0 /\ misread = FALSE /\ strayed = FALSE

PostingInit ==
  /\ kind \in Kinds
  /\ listed \in BOOLEAN /\ changes = 0
  /\ row \in FirstSightings
  /\ NoTasks /\ wasGone = ~listed

\* A row whose posting is gone, and no task at work on it.
NotPosted ==
  /\ kind = "legacy"
  /\ listed = FALSE /\ changes = MaxChanges
  /\ row \in FirstSightings /\ ~row.active
  /\ NoTasks /\ wasGone = TRUE

CheckSteps(c) ==
  Ingests(c) \/ DeltaReads(c) \/ DeltaPresent(c) \/ DeltaMisses(c) \/ DeltaCloses(c)

VerifySteps ==
  RecheckWrites \/ VerifyWrites \/ RecomputeReads \/ RecomputeWrites \/ VerifyQuarantines

PostingNext ==
  \/ \E c \in Checks : ListBoard(c) \/ CheckSteps(c)
  \/ IndexNames \/ ResolutionLooks \/ LaneSteps
  \/ VerifyLooks \/ VerifySteps
  \/ FreshnessProbes \/ FreshnessWrites
  \/ AgentRechecks \/ AgentWrites
  \/ MaintenanceReads \/ MaintenanceWrites
  \/ EmployerChanges

\* A task that has begun ends.  Nothing says that one begins, or that it reaches
\* this row: the properties name what they need of that.
PostingFairness ==
  /\ \A c \in Checks : WF_postingVars(CheckSteps(c))
  /\ WF_postingVars(VerifySteps) /\ WF_postingVars(FreshnessWrites)

PostingSpec == PostingInit /\ [][PostingNext]_postingVars /\ PostingFairness

-----------------------------------------------------------------------------
(* Properties                                                                *)

\* Every variable has its type.
PostingTypeOK ==
  /\ kind \in Kinds
  /\ listed \in BOOLEAN /\ changes \in 0..MaxChanges
  /\ row \in Row
  /\ task \in [Tasks -> TaskSteps]
  /\ found \in [Tasks -> Findings]
  /\ absences \in 0..BOARD_MISSES_BEFORE_CLOSE
  /\ misread \in BOOLEAN /\ strayed \in BOOLEAN /\ wasGone \in BOOLEAN

\* sourcePolicy.ts: "never canonical feed rows": a row whose source is an
\* aggregator is not in the Discover feed, whichever tasks overlap.  (An index of an
\* aggregator gets a posting shown all the same, under the employer's name.)
AggregatorsStayHidden == row.source = "aggregator" => ~row.active

\* officialBoardDelta.ts: the board closes a posting only after two accepted
\* listings without the id of its row, also when checks interleave their reads and
\* counts, and other lanes rename the row between them.
ClosedForTwoAbsences == row.closedAt => absences >= BOARD_MISSES_BEFORE_CLOSE

\* "A transient failure ... never falsely closed": a row becomes Closed only when
\* its posting was off the board at some time, or the row was taken for another
\* posting, or the board closed it for an id that is not its own.
ClosedWasGone ==
  row.status = "Closed" => wasGone \/ strayed \/ (misread /\ row.closedAt)

\* What is shown is vouched for, and what is closed was gone.
FeedFollowsEvidence == AggregatorsStayHidden /\ ClosedForTwoAbsences /\ ClosedWasGone

\* The batch reaches the row: if it is one to choose from again and again, it is
\* probed, with a verdict, again and again.  (The code does not promise it: rows
\* whose verdict is unknown keep their place at the head of the batch.)
BatchReaches == []<>Eligible => []<>(task["freshness"] = "probed")

\* A posting the employer took off for good, whose row the batch reaches, is hidden
\* again and again, however often an index, the resolution or the maintenance shows
\* it again; or it ends up closed or quarantined by a writer of the status alone.
GoneIsHidden ==
  <>[](~listed /\ row.url = "own") /\ BatchReaches =>
    \/ []<>~row.active
    \/ <>[](row.status \in {"Closed", "SecurityQuarantine"})

\* A posting that stays on the board, and that checks of the company find there
\* again and again, is shown again and again, verified: no stale verdict hides it for
\* good.  (It need not stay shown: a verification that read an unverified row may
\* overwrite each promotion.)
PresentIsShown ==
  <>[](listed /\ row.url = "own") /\ []<>(\E c \in Checks : task[c] # "idle") =>
    []<>(row.active /\ row.status = Verified)

\* The feed follows the employer's board in both directions.
FeedFollowsTheBoard == GoneIsHidden /\ PresentIsShown
=============================================================================
