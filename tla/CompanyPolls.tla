------------------------------ MODULE CompanyPolls ------------------------------
(***************************************************************************)
(* The rotation of the company checks: sweeps of the whole registry, the   *)
(* least recently checked company first, and polls of the companies of a   *)
(* tier that are due.  Both work in waves, stop between two waves when     *)
(* they are out of time, and may overlap.  The check of a company detects  *)
(* its board, has the tenant approved, lists, ingests and keeps the books. *)
(***************************************************************************)
EXTENDS Integers, SequencesExt

CONSTANTS Companies, Sweeps, Polls,
          TiersOf,      \* the tiers each poll wants
          Concurrency,
          MaxFaults,    \* bound: requests and writes that fail
          MaxEdits,     \* bound: edits of an administrator, runs of ats:resolve
          MaxChanges,   \* bound: changes of the pages
          None

VARIABLES site,      \* whether the careers page leads to a vendor's board; it stays
          page,      \* what is listed there
          changes,
          company,   \* the rows
          order,     \* the companies by lastCheckedAt, the least recent first
          approved,  \* the companies with an ApprovedAtsTenant for their board
          taken,     \* those whose openings were ingested
          run, check,
          resolving, \* the candidates a run of ats:resolve has read
          crossed,   \* history: a row was written under the check of another
          faults, edits

companyVars == <<site, page, changes, company, order, approved, taken, run, check, resolving,
  crossed, faults, edits>>
pageVars == <<site, page, changes>>

Runs == Sweeps \union Polls
\* Openings; a complete listing without any; a page no listing can be read from.
Contents == {"roles", "empty", "shell"}
Rank == [A |-> 0, B |-> 1, C |-> 2]
Idle == [step |-> "idle"]
Done == [step |-> "done"]
NoRun == [wave |-> {}, todo |-> <<>>]
New == [ats |-> None, hash |-> None, tier |-> "C", ever |-> FALSE, due |-> TRUE]

Init ==
  /\ site \in [Companies -> {"vendor", "page"}] /\ page \in [Companies -> Contents] /\ changes = 0
  /\ company = [c \in Companies |-> New] /\ order \in SetToSeqs(Companies)
  /\ approved = {} /\ taken = {}
  /\ run = [r \in Runs |-> NoRun] /\ check = [r \in Runs |-> [c \in Companies |-> Idle]]
  /\ resolving = {} /\ crossed = FALSE /\ faults = 0 /\ edits = 0

Fault == faults < MaxFaults /\ faults' = faults + 1
Sound == UNCHANGED faults

\* Another check of the company is between its look at the row and its end.
UnderWay(r, c) == \E q \in Runs \ {r} : check[q][c].step \notin {"idle", "ready", "done"}

PageChanges(c) ==
  /\ changes < MaxChanges /\ changes' = changes + 1
  /\ \E new \in Contents \ {page[c]} : page' = [page EXCEPT ![c] = new]
  /\ UNCHANGED <<site, company, order, approved, taken, run, check, resolving, crossed, faults,
                 edits>>

\* nextCheckAt passes.
ComesDue(c) ==
  /\ ~company[c].due /\ company' = [company EXCEPT ![c].due = TRUE]
  /\ UNCHANGED <<pageVars, order, approved, taken, run, check, resolving, crossed, faults, edits>>

Writes(c, ats) ==
  /\ company' = [company EXCEPT ![c].ats = ats]
  /\ crossed' = (crossed \/ UnderWay(None, c))

\* PATCH of a company: the administrator names a board, or takes the name away.
AdminSets(c) ==
  /\ edits < MaxEdits /\ edits' = edits + 1
  /\ \E ats \in {None, "vendor"} : Writes(c, ats)
  /\ UNCHANGED <<pageVars, order, approved, taken, run, check, resolving, faults>>

\* ats:resolve --apply: the companies without a tenant ...
ResolveReads ==
  /\ edits < MaxEdits /\ edits' = edits + 1 /\ resolving = {}
  /\ resolving' = {c \in Companies : company[c].ats # "vendor"}
  /\ UNCHANGED <<pageVars, company, order, approved, taken, run, check, crossed, faults>>

\* ... each of which is found by its page, which approves it, by a guess, or not at all.
ResolveWrites(c) ==
  /\ c \in resolving /\ resolving' = resolving \ {c}
  /\ \/ /\ Writes(c, "vendor")
        /\ approved' = IF site[c] = "vendor" THEN approved \union {c} ELSE approved
     \/ UNCHANGED <<company, crossed, approved>>
  /\ UNCHANGED <<pageVars, order, taken, run, check, faults, edits>>

-----------------------------------------------------------------------------
(* Runs.                                                                     *)

\* pollingTierFor: without an adapter the activity does not count.
Tier(c) == IF company[c].ats = "vendor" THEN company[c].tier ELSE "C"

\* A sweep takes all, the least recently checked first; a poll those due, by tier.
RunOrder(r) ==
  IF r \in Sweeps THEN {order}
  ELSE {list \in SetToSeqs({c \in Companies : company[c].due /\ Tier(c) \in TiersOf[r]}) :
          \A i, j \in DOMAIN list : i < j => Rank[Tier(list[i])] <= Rank[Tier(list[j])]}

Least(m, n) == IF m < n THEN m ELSE n

StartWave(r, list) ==
  LET size == Least(Concurrency, Len(list))
      wave == {list[i] : i \in 1..size} IN
  /\ run' = [run EXCEPT ![r] = [wave |-> wave, todo |-> SubSeq(list, size + 1, Len(list))]]
  /\ check' = [check EXCEPT ![r] =
       [c \in Companies |-> IF c \in wave THEN [step |-> "ready"] ELSE Idle]]

Begin(r) ==
  /\ run[r] = NoRun /\ \E list \in RunOrder(r) : list # <<>> /\ StartWave(r, list)
  /\ UNCHANGED <<pageVars, company, order, approved, taken, resolving, crossed, faults, edits>>

\* The time is looked at between two waves.
WaveEnds(r) ==
  /\ run[r].wave # {} /\ \A c \in run[r].wave : check[r][c] = Done
  /\ \/ run[r].todo # <<>> /\ StartWave(r, run[r].todo)
     \/ /\ run' = [run EXCEPT ![r] = NoRun]
        /\ check' = [check EXCEPT ![r] = [c \in Companies |-> Idle]]
  /\ UNCHANGED <<pageVars, company, order, approved, taken, resolving, crossed, faults, edits>>

\* The platform kills the function at its limit, with the checks of the wave.
Killed(r) ==
  /\ run[r] # NoRun /\ Fault
  /\ run' = [run EXCEPT ![r] = NoRun]
  /\ check' = [check EXCEPT ![r] = [c \in Companies |-> Idle]]
  /\ UNCHANGED <<pageVars, company, order, approved, taken, resolving, crossed, edits>>

-----------------------------------------------------------------------------
(* checkCompany.                                                             *)

Goes(r, c, next) == check' = [check EXCEPT ![r][c] = next]

\* MUTANT of Detects: whatever is known of the board.
DetectsAlways(was) == TRUE
\* An employer is looked at for a vendor until something is known of it.
Detects(was) == was.ats = None

\* Only a vendor's board needs a tenant.
AfterDetection(was, ats) ==
  [step |-> IF ats = "vendor" THEN "approve" ELSE "list", was |-> was, ats |-> ats]

Read(r, c) ==
  /\ check[r][c].step = "ready"
  /\ LET was == company[c] IN
     Goes(r, c, IF Detects(was) THEN [step |-> "detect", was |-> was]
                ELSE AfterDetection(was, was.ats))
  /\ Sound
  /\ UNCHANGED <<pageVars, company, order, approved, taken, run, resolving, crossed, edits>>

\* A page that cannot be fetched leads nowhere, as one without a vendor's link.
Detect(r, c) ==
  /\ check[r][c].step = "detect"
  /\ \/ Sound /\ Goes(r, c, AfterDetection(check[r][c].was,
                              IF site[c] = "vendor" THEN "vendor" ELSE "custom"))
     \/ site[c] = "vendor" /\ Fault /\ Goes(r, c, AfterDetection(check[r][c].was, "custom"))
  /\ UNCHANGED <<pageVars, company, order, approved, taken, run, resolving, crossed, edits>>

Approve(r, c) ==
  /\ check[r][c].step = "approve"
  /\ Goes(r, c, [check[r][c] EXCEPT !.step = IF c \in approved THEN "list" ELSE "confirm"])
  /\ Sound
  /\ UNCHANGED <<pageVars, company, order, approved, taken, run, resolving, crossed, edits>>

\* MUTANT of Booked: the company takes a second place.
BookedTwice(row, c) ==
  company' = [company EXCEPT ![c] = [row EXCEPT !.due = FALSE]] /\ order' = Append(order, c)
\* MUTANT of Booked: the company keeps its place.
BookedInPlace(row, c) ==
  company' = [company EXCEPT ![c] = [row EXCEPT !.due = FALSE]] /\ UNCHANGED order
\* A write of the books sets lastCheckedAt and nextCheckAt.
Booked(row, c) ==
  /\ company' = [company EXCEPT ![c] = [row EXCEPT !.due = FALSE]]
  /\ \E place \in DOMAIN order :
       order[place] = c /\ order' = Append(RemoveAt(order, place), c)

Unbooked == UNCHANGED <<company, order>>

\* The second crawl confirms the tenant, or the check ends without a look at the board; a
\* write that fails before the try block leaves no trace.
Confirm(r, c) ==
  /\ check[r][c].step = "confirm"
  /\ \/ /\ site[c] = "vendor" /\ Sound /\ Unbooked
        /\ Goes(r, c, [check[r][c] EXCEPT !.step = "create"])
     \/ /\ IF site[c] = "vendor" THEN Fault ELSE Sound
        /\ Booked(company[c], c) /\ Goes(r, c, Done)
     \/ Fault /\ Unbooked /\ Goes(r, c, Done)
  /\ UNCHANGED <<pageVars, approved, taken, run, resolving, crossed, edits>>

\* The approval is unique: of two checks that create it one throws, and keeps no books.
Create(r, c) ==
  /\ check[r][c].step = "create"
  /\ approved' = approved \union {c}
  /\ Goes(r, c, IF c \in approved THEN Done ELSE [check[r][c] EXCEPT !.step = "list"])
  /\ Sound
  /\ UNCHANGED <<pageVars, company, order, taken, run, resolving, crossed, edits>>

\* A page of the employer's own that has not changed is not read again.
NotModified(was, content) == was.hash = content

\* listJobsForCompany: only a page of the employer's own has a hash, and one that cannot be
\* fetched lists nothing, without a hash; a vendor's board that cannot be fetched throws.
List(r, c) ==
  /\ check[r][c].step = "list"
  /\ LET k == check[r][c]
         found(relevant, hash) ==
           [step |-> "ingest", was |-> k.was, ats |-> k.ats, relevant |-> relevant,
            hash |-> hash] IN
     \/ /\ k.ats = "vendor" /\ Sound
        /\ Goes(r, c, found(page[c] = "roles", None))
     \/ k.ats = "vendor" /\ Fault /\ Goes(r, c, [step |-> "fail", hash |-> None])
     \/ /\ k.ats = "custom" /\ Sound
        /\ Goes(r, c, found(page[c] = "roles" /\ ~NotModified(k.was, page[c]), page[c]))
     \/ k.ats = "custom" /\ Fault /\ Goes(r, c, found(FALSE, None))
  /\ UNCHANGED <<pageVars, company, order, approved, taken, run, resolving, crossed, edits>>

Ingest(r, c) ==
  /\ check[r][c].step = "ingest"
  /\ \/ /\ Sound /\ taken' = IF check[r][c].relevant THEN taken \union {c} ELSE taken
        /\ Goes(r, c, [check[r][c] EXCEPT !.step = "write"])
     \/ check[r][c].relevant /\ Fault /\ UNCHANGED taken
        /\ Goes(r, c, [step |-> "fail", hash |-> check[r][c].hash])
  /\ UNCHANGED <<pageVars, company, order, approved, run, resolving, crossed, edits>>

\* MUTANT of Activity: openings of the past do not count.
ActivityNow(k) == IF k.relevant THEN "A" ELSE "C"
\* MUTANT of Activity: openings of the past alone count.
ActivityThen(k) == IF k.was.ever THEN "B" ELSE "C"
\* A for openings, B for some in the past, by the row the check began with.
Activity(k) == IF k.relevant THEN "A" ELSE IF k.was.ever THEN "B" ELSE "C"

\* What was found is written, over what the row holds by now: the board, too.
Write(r, c) ==
  /\ check[r][c].step = "write"
  /\ LET k == check[r][c] IN
     \/ /\ Sound /\ Goes(r, c, Done) /\ crossed' = (crossed \/ UnderWay(r, c))
        /\ Booked([company[c] EXCEPT !.ats = k.ats, !.tier = Activity(k), !.ever = @ \/ k.relevant,
             !.hash = IF k.ats = "vendor" THEN @ ELSE k.hash], c)
     \/ /\ Fault /\ Goes(r, c, [step |-> "fail", hash |-> k.hash]) /\ Unbooked /\ UNCHANGED crossed
  /\ UNCHANGED <<pageVars, approved, taken, run, resolving, edits>>

\* MUTANT of Failed: the hash of the page is kept.
FailedWithHash(row, k) == [row EXCEPT !.hash = IF k.hash = None THEN @ ELSE k.hash]
\* A failure changes nothing that is known of the company.
Failed(row, k) == row

\* The failure is booked; when that fails, too, checkCompanySafely lets the others go on.
Fail(r, c) ==
  /\ check[r][c].step = "fail" /\ Goes(r, c, Done)
  /\ \/ Sound /\ Booked(Failed(company[c], check[r][c]), c)
     \/ Fault /\ Unbooked
  /\ UNCHANGED <<pageVars, approved, taken, run, resolving, crossed, edits>>

CheckSteps(r, c) ==
  \/ Read(r, c) \/ Detect(r, c) \/ Approve(r, c) \/ Confirm(r, c) \/ Create(r, c)
  \/ List(r, c) \/ Ingest(r, c) \/ Write(r, c) \/ Fail(r, c)
RunSteps(r) == Begin(r) \/ WaveEnds(r) \/ \E c \in Companies : CheckSteps(r, c)

Next ==
  \/ ResolveReads
  \/ \E c \in Companies : PageChanges(c) \/ ComesDue(c) \/ AdminSets(c) \/ ResolveWrites(c)
  \/ \E r \in Runs : RunSteps(r) \/ Killed(r)

Spec == Init /\ [][Next]_companyVars /\ \A r \in Runs : WF_companyVars(RunSteps(r))

-----------------------------------------------------------------------------
\* Every company has its place in the order of the checks, whatever fails.
CompaniesTypeOK ==
  /\ \A c \in Companies :
       /\ company[c].ats \in {None, "vendor", "custom"} /\ company[c].tier \in DOMAIN Rank
       /\ company[c].hash \in Contents \union {None}
       /\ company[c].ever \in BOOLEAN /\ company[c].due \in BOOLEAN
  /\ order \in SetToSeqs(Companies)
  /\ approved \union taken \union resolving \subseteq Companies /\ crossed \in BOOLEAN

\* A page is skipped as unchanged only when its openings were ingested, although the
\* ingest or the write of the books may fail, and checks overlap.
UnchangedIsIngested == \A c \in Companies : company[c].hash = "roles" => c \in taken

\* The tier tells of the past: only a company that never had an opening is left to the
\* sweeps - unless checks cross, whose later write knows less than the row.
TierRemembers == crossed \/ \A c \in Companies : company[c].tier = "C" <=> ~company[c].ever

\* A check takes no vendor's board from a company, whatever it can and cannot fetch -
\* unless it began before the board was set, and writes what it began with.
KnownBoardStays ==
  [][\A c \in Companies : company[c].ats = "vendor" /\ company'[c].ats # "vendor" =>
       crossed' \/ edits' # edits]_companyVars

\* No company is left out: each is checked again and again, although sweeps run out of
\* time, requests fail, and a company may never be confirmed.
LastChecked(c) == order[Len(order)] = c
CheckedAgain == \A c \in Companies : []<>LastChecked(c)

\* A vendor's board with openings ends among the companies polled first.
Watched(c) == site[c] = "vendor" /\ page[c] = "roles" /\ company[c].ats = "vendor" =>
                Tier(c) = "A"
EndsWatched == \A c \in Companies : <>[]Watched(c)
=============================================================================
