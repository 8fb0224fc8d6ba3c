------------------------------- MODULE GmailRadar --------------------------------
(***************************************************************************)
(* One mailbox and the syncs that read it: each lists what came since the  *)
(* last one, and tracks, classifies and applies every mail in turn.  Time  *)
(* is counted in mails: lastSyncAt is how many had come by then.           *)
(***************************************************************************)
EXTENDS Integers, Sequences

CONSTANTS None,
          MaxSyncs,    \* bound: the syncs that start
          MaxMails,    \* bound: the mails that come
          PageSize     \* the most that one list holds: 100 in the code

VARIABLES arrived,     \* the mails that have come, oldest first
          lastSyncAt,  \* GmailAccount.lastSyncAt
          tracked,     \* TrackedEmail: the classification recorded for each mail
          status,      \* UserJobState.applicationStatus of the job they are about
          entries,     \* AssessmentInboxEntry: how many each mail has
          sync,        \* the syncs
          unread,      \* history: mails a sync passed over
          broken,      \* history: mails whose sync failed or died after tracking them
          crossed      \* history: two syncs were at work at once

gmailVars == <<arrived, lastSyncAt, tracked, status, entries, sync, unread, broken, crossed>>

Mails == 1..MaxMails
Syncs == 1..MaxSyncs

\* What a mail is taken for.  An assessment comes with its details or with none: the
\* schema lets them be null.  An alert stands for every class without a status.
Classes == {"alert", "assessment", "bareAssessment", "interview", "rejection", "withdrawal"}

\* The statuses that a mail sets whatever the job has reached.
Ends == {"REJECTED", "CLOSED"}

Rank(s) == CASE s = "ASSESSMENT_REQUIRED" -> 2 [] s = "INTERVIEW" -> 3 [] OTHER -> 0

Target(class) ==
  CASE class \in {"assessment", "bareAssessment"} -> "ASSESSMENT_REQUIRED"
    [] class = "interview" -> "INTERVIEW"
    [] class = "withdrawal" -> "CLOSED"
    [] OTHER -> "REJECTED"

Waiting == [at |-> "new", since |-> 0, listed |-> 0, todo |-> <<>>, class |-> None,
            apply |-> None]
Done == [Waiting EXCEPT !.at = "done"]
Working(s) == sync[s].at \notin {"new", "done"}

Init ==
  /\ arrived = 0 /\ lastSyncAt = 0
  /\ tracked = [m \in Mails |-> None]
  /\ status = "none"
  /\ entries = [m \in Mails |-> 0]
  /\ sync = [s \in Syncs |-> Waiting]
  /\ unread = {} /\ broken = {} /\ crossed = FALSE

Arrive ==
  /\ arrived < MaxMails /\ arrived' = arrived + 1
  /\ UNCHANGED <<lastSyncAt, tracked, status, entries, sync, unread, broken, crossed>>

\* The scheduler's sync, or one the user asks for.
Start(s) ==
  /\ sync[s].at = "new" /\ \A r \in 1..(s - 1) : sync[r].at # "new"
  /\ sync' = [sync EXCEPT ![s].at = "list", ![s].since = lastSyncAt]
  /\ crossed' = (crossed \/ \E r \in Syncs : Working(r))
  /\ UNCHANGED <<arrived, lastSyncAt, tracked, status, entries, unread, broken>>

\* MUTANT of NewestFirst: the list has no limit.
WholeList(since) == [i \in 1..(arrived - since) |-> arrived + 1 - i]

\* Gmail lists the newest first, up to a page of them.
NewestFirst(since) ==
  LET count == IF arrived - since > PageSize THEN PageSize ELSE arrived - since
  IN [i \in 1..count |-> arrived + 1 - i]

\* A list that fails leaves nothing to do.
List(s) ==
  /\ sync[s].at = "list"
  /\ \/ sync' = [sync EXCEPT ![s].at = "look", ![s].todo = NewestFirst(sync[s].since),
                             ![s].listed = arrived]
     \/ sync' = [sync EXCEPT ![s].at = "look", ![s].listed = sync[s].since]
  /\ UNCHANGED <<arrived, lastSyncAt, tracked, status, entries, unread, broken, crossed>>

Mail(s) == Head(sync[s].todo)

\* The sync goes on with the next mail.
GoOn(s) == sync' = [sync EXCEPT ![s].at = "look", ![s].todo = Tail(@),
                                ![s].class = None, ![s].apply = None]

Look(s) ==
  /\ sync[s].at = "look" /\ sync[s].todo # <<>>
  /\ \/ tracked[Mail(s)] # None /\ GoOn(s)
     \/ tracked[Mail(s)] = None /\ sync' = [sync EXCEPT ![s].at = "fetch"]
  /\ UNCHANGED <<arrived, lastSyncAt, tracked, status, entries, unread, broken, crossed>>

\* MUTANT of StatusApplied: the status of the mail, whatever the job has reached.
StatusAnyway(class) == {Target(class), None}

\* A status only moves up, but a rejection or a withdrawal always counts.  The mail may
\* match no job.
StatusApplied(class) ==
  {None} \union (IF Target(class) \in Ends \/ Rank(Target(class)) > Rank(status)
                   THEN {Target(class)} ELSE {})

\* Fetching and classifying: an alert of a job site goes to the radar queue instead.
Classify(s) ==
  /\ sync[s].at = "fetch"
  /\ \E class \in Classes :
     \E apply \in IF class = "alert" THEN {None} ELSE StatusApplied(class) :
       sync' = [sync EXCEPT ![s].at = "create", ![s].class = class, ![s].apply = apply]
  /\ UNCHANGED <<arrived, lastSyncAt, tracked, status, entries, unread, broken, crossed>>

\* MUTANT of Create: the row of another sync is replaced.
CreateOrReplace(s) ==
  /\ sync[s].at = "create"
  /\ tracked' = [tracked EXCEPT ![Mail(s)] = sync[s].class]
  /\ IF sync[s].class = "alert" THEN GoOn(s) ELSE sync' = [sync EXCEPT ![s].at = "status"]
  /\ UNCHANGED <<arrived, lastSyncAt, status, entries, unread, broken, crossed>>

\* The row is unique: the create fails when another sync was faster.
Create(s) ==
  /\ sync[s].at = "create"
  /\ \/ /\ tracked[Mail(s)] # None /\ GoOn(s)
        /\ UNCHANGED tracked
     \/ /\ tracked[Mail(s)] = None
        /\ tracked' = [tracked EXCEPT ![Mail(s)] = sync[s].class]
        /\ IF sync[s].class = "alert" THEN GoOn(s) ELSE sync' = [sync EXCEPT ![s].at = "status"]
  /\ UNCHANGED <<arrived, lastSyncAt, status, entries, unread, broken, crossed>>

\* Only an assessment with details goes on to the inbox.
ApplyStatus(s) ==
  /\ sync[s].at = "status"
  /\ status' = IF sync[s].apply = None THEN status ELSE sync[s].apply
  /\ IF sync[s].class = "assessment" THEN sync' = [sync EXCEPT ![s].at = "entry"] ELSE GoOn(s)
  /\ UNCHANGED <<arrived, lastSyncAt, tracked, entries, unread, broken, crossed>>

AddEntry(s) ==
  /\ sync[s].at = "entry"
  /\ entries' = [entries EXCEPT ![Mail(s)] = @ + 1]
  /\ GoOn(s)
  /\ UNCHANGED <<arrived, lastSyncAt, tracked, status, unread, broken, crossed>>

Tracking(s) == sync[s].at \in {"status", "entry"}

\* MUTANT of Fail: an error ends the whole list.
FailAll(s) ==
  /\ sync[s].at \in {"fetch", "create", "status", "entry"}
  /\ sync' = [sync EXCEPT ![s] = [Waiting EXCEPT !.at = "look", !.since = sync[s].since, !.listed = sync[s].listed]]
  /\ IF Tracking(s) THEN broken' = broken \union {Mail(s)} /\ UNCHANGED unread
                    ELSE unread' = unread \union {Mail(s)} /\ UNCHANGED broken
  /\ UNCHANGED <<arrived, lastSyncAt, tracked, status, entries, crossed>>

\* An error is counted, and the sync goes on with the next mail.
Fail(s) ==
  /\ sync[s].at \in {"fetch", "create", "status", "entry"}
  /\ GoOn(s)
  /\ IF Tracking(s) THEN broken' = broken \union {Mail(s)} /\ UNCHANGED unread
                    ELSE unread' = unread \union {Mail(s)} /\ UNCHANGED broken
  /\ UNCHANGED <<arrived, lastSyncAt, tracked, status, entries, crossed>>

\* What this sync never saw: below its page, or after its list.
PassedOver(s) ==
  {m \in (sync[s].since + 1)..(sync[s].listed - PageSize) : TRUE}
    \union ((sync[s].listed + 1)..arrived)

\* The new mark is the time of the end, also when something failed.
Finish(s) ==
  /\ sync[s].at = "look" /\ sync[s].todo = <<>>
  /\ lastSyncAt' = arrived
  /\ unread' = unread \union PassedOver(s)
  /\ sync' = [sync EXCEPT ![s] = Done]
  /\ UNCHANGED <<arrived, tracked, status, entries, broken, crossed>>

Die(s) ==
  /\ Working(s)
  /\ sync' = [sync EXCEPT ![s] = Done]
  /\ broken' = IF Tracking(s) THEN broken \union {Mail(s)} ELSE broken
  /\ UNCHANGED <<arrived, lastSyncAt, tracked, status, entries, unread, crossed>>

Next ==
  \/ Arrive
  \/ \E s \in Syncs : \/ Start(s) \/ List(s) \/ Look(s) \/ Classify(s) \/ Create(s)
                      \/ ApplyStatus(s) \/ AddEntry(s) \/ Fail(s) \/ Finish(s) \/ Die(s)

Spec == Init /\ [][Next]_gmailVars

-----------------------------------------------------------------------------

\* Every sync is at one of its steps, with a mail in hand when the step needs one.
GmailTypeOK ==
  /\ arrived \in 0..MaxMails /\ lastSyncAt \in 0..arrived
  /\ tracked \in [Mails -> Classes \union {None}]
  /\ status \in {"none", "ASSESSMENT_REQUIRED", "INTERVIEW"} \union Ends
  /\ entries \in [Mails -> 0..1]
  /\ unread \subseteq Mails /\ broken \subseteq Mails /\ crossed \in BOOLEAN
  /\ \A s \in Syncs :
       /\ sync[s].at \in {"new", "list", "look", "fetch", "create", "status", "entry", "done"}
       /\ sync[s].at \in {"fetch", "create", "status", "entry"} => sync[s].todo # <<>>
       /\ Len(sync[s].todo) <= PageSize

\* A mail that lies behind lastSyncAt, where no later list looks, is tracked, unless a
\* sync passed it over: it came after the list, lay below the page, or its turn failed.
NothingUnread ==
  \A m \in 1..lastSyncAt : tracked[m] # None \/ m \in unread

\* An assessment with details has one entry in the inbox and no second one, whichever
\* syncs met it, unless its sync failed or died half-way.  (One that the classifier gave
\* no details is tracked and raises the status, and never reaches the inbox.)
OneEntryPerAssessment ==
  \A m \in Mails :
    /\ entries[m] <= 1
    /\ tracked[m] = "assessment" /\ m \notin broken
         => entries[m] = 1 \/ \E s \in Syncs : Tracking(s) /\ Mail(s) = m

\* A mail never takes a job back to an earlier stage, short of a rejection or a
\* withdrawal, unless two syncs were at work at once.
NeverTakenBack ==
  [][~crossed /\ status' # status =>
       status' \in Ends \/ Rank(status') > Rank(status)]_gmailVars
=============================================================================
