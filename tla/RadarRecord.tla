------------------------------ MODULE RadarRecord ------------------------------
(***************************************************************************)
(* The queue record of one radar signal, from the statement that creates   *)
(* it to its removal (liveDiscoveryQueue.ts, liveDiscoveryMaintenance.ts;  *)
(* supplementalRadarQueue.ts processes its records in the same way).       *)
(*                                                                         *)
(* A pass takes a snapshot of the due records, resolves each signal for    *)
(* seconds or minutes, and writes the record back whole, made from the     *)
(* snapshot.  Nothing claims a record: two passes that overlap work on the *)
(* same ones, and overwrite each other.  The platform may kill a pass.     *)
(* A pass lasts minutes at most, much less than the ages below.            *)
(***************************************************************************)
EXTENDS Integers, FiniteSets

CONSTANTS
  Passes,       \* passes that may overlap
  MAX_ATTEMPTS, \* attempts at a signal
  NoRecord,     \* no record, no snapshot
  MaxDeaths     \* bound on the passes killed

VARIABLES
  record,   \* the record of the signal, or NoRecord
  age,      \* of the signal: "fresh" (at most 7 days), then "old", then
            \* "expired" (no write to the record for 14 days)
  work,     \* per pass, the statement it executes next, its snapshot, its answer
  deaths,   \* passes killed so far
  queuings  \* history: how often a record was created; the last value: or more

recordVars == <<record, age, work, deaths, queuings>>

Terminal == {"resolved", "closed", "abandoned"}

Record == [state : {"pending", "retry"} \cup Terminal,
           attempts : 0..MAX_ATTEMPTS,
           due : BOOLEAN]  \* nextAttemptAt is past

Work == [step : {"idle", "create", "resolve", "write"},
         snapshot : Record \cup {NoRecord},
         answer : {"none", "resolved", "closed", "retry"}]

Idle == [step |-> "idle", snapshot |-> NoRecord, answer |-> "none"]

-----------------------------------------------------------------------------
(* enqueueJobrightFreshSignals                                               *)

\* The signal is on the feed, and no record is found for it.
EnqueueReads(p) ==
  /\ work[p] = Idle
  /\ age = "fresh" /\ record = NoRecord
  /\ work' = [work EXCEPT ![p].step = "create"]
  /\ UNCHANGED <<record, age, deaths, queuings>>

\* createMany with skipDuplicates.
CreateMany(p) ==
  /\ work[p].step = "create"
  /\ IF record = NoRecord
     THEN /\ record' = [state |-> "pending", attempts |-> 0, due |-> TRUE]
          /\ queuings' = IF queuings = 2 THEN 2 ELSE queuings + 1
     ELSE UNCHANGED <<record, queuings>>
  /\ work' = [work EXCEPT ![p] = Idle]
  /\ UNCHANGED <<age, deaths>>

-----------------------------------------------------------------------------
(* processLiveDiscoveryQueue                                                 *)

Snapshot(p) ==
  /\ work[p] = Idle
  /\ record # NoRecord /\ record.state \notin Terminal /\ record.due
  /\ work' = [work EXCEPT ![p] = [step |-> "resolve", snapshot |-> record, answer |-> "none"]]
  /\ UNCHANGED <<record, age, deaths, queuings>>

\* resolveSignal: the posting may be closed, saved, or not found yet.
Resolve(p) ==
  /\ work[p].step = "resolve"
  /\ \E answer \in {"resolved", "closed", "retry"} :
       work' = [work EXCEPT ![p].step = "write", ![p].answer = answer]
  /\ UNCHANGED <<record, age, deaths, queuings>>

\* Faulty: the attempts are compared before they are counted.
AbandonLate(p, tooOld) ==
  work[p].answer = "retry" /\ (work[p].snapshot.attempts >= MAX_ATTEMPTS \/ tooOld)

ShouldAbandon(p, tooOld) ==
  work[p].answer = "retry" /\ (work[p].snapshot.attempts + 1 >= MAX_ATTEMPTS \/ tooOld)

\* Faulty: the attempt is not counted.
WriteUncounted(p) ==
  /\ work[p].step = "write"
  /\ IF record = NoRecord THEN UNCHANGED <<record, age>>
     ELSE /\ \E tooOld \in IF age = "fresh" THEN {FALSE} ELSE BOOLEAN :
               LET state == IF ShouldAbandon(p, tooOld) THEN "abandoned" ELSE work[p].answer IN
                 record' = [state |-> state,
                            attempts |-> work[p].snapshot.attempts,
                            due |-> state # "retry"]
          /\ age' = IF age = "expired" THEN "old" ELSE age
  /\ work' = [work EXCEPT ![p] = Idle]
  /\ UNCHANGED <<deaths, queuings>>

\* The record is the snapshot with the outcome; the update of a record that does
\* not exist any more throws.  tooOld is judged by the start of the pass.
Write(p) ==
  /\ work[p].step = "write"
  /\ IF record = NoRecord THEN UNCHANGED <<record, age>>
     ELSE /\ \E tooOld \in IF age = "fresh" THEN {FALSE} ELSE BOOLEAN :
               LET state == IF ShouldAbandon(p, tooOld) THEN "abandoned" ELSE work[p].answer IN
                 record' = [state |-> state,
                            attempts |-> work[p].snapshot.attempts + 1,
                            due |-> state # "retry"]
          /\ age' = IF age = "expired" THEN "old" ELSE age
  /\ work' = [work EXCEPT ![p] = Idle]
  /\ UNCHANGED <<deaths, queuings>>

\* nextAttemptAt comes.
ComesDue ==
  /\ record # NoRecord /\ ~record.due
  /\ record' = [record EXCEPT !.due = TRUE]
  /\ UNCHANGED <<age, work, deaths, queuings>>

Dies(p) ==
  /\ work[p] # Idle /\ deaths < MaxDeaths
  /\ work' = [work EXCEPT ![p] = Idle]
  /\ deaths' = deaths + 1
  /\ UNCHANGED <<record, age, queuings>>

-----------------------------------------------------------------------------
(* pruneTerminalLiveDiscoveryEvents and the clock                            *)

\* Faulty: terminal records are removed whatever their age.
PruneNow ==
  /\ record # NoRecord /\ record.state \in Terminal
  /\ record' = NoRecord
  /\ UNCHANGED <<age, work, deaths, queuings>>

\* It reads the expired records and deletes the terminal ones.
Prune ==
  /\ age = "expired"
  /\ record # NoRecord /\ record.state \in Terminal
  /\ record' = NoRecord
  /\ UNCHANGED <<age, work, deaths, queuings>>

GrowsOld ==
  /\ age = "fresh"
  /\ age' = "old"
  /\ UNCHANGED <<record, work, deaths, queuings>>

\* No pass that began before the last write is still at work after 14 days.
Expires ==
  /\ age = "old" /\ \A p \in Passes : work[p] = Idle
  /\ age' = "expired"
  /\ UNCHANGED <<record, work, deaths, queuings>>

RecordInit ==
  /\ record = NoRecord /\ age = "fresh"
  /\ work = [p \in Passes |-> Idle]
  /\ deaths = 0 /\ queuings = 0

PassSteps(p) == CreateMany(p) \/ Resolve(p) \/ Write(p)

RecordNext ==
  \/ \E p \in Passes : EnqueueReads(p) \/ Snapshot(p) \/ PassSteps(p) \/ Dies(p)
  \/ ComesDue \/ Prune \/ GrowsOld \/ Expires

\* A pass that is not killed comes to an end.  Nothing says that it takes this record:
\* it reads a number of them, and keeps the newest.
RecordFairness ==
  /\ \A p \in Passes : WF_recordVars(PassSteps(p))
  /\ WF_recordVars(ComesDue)

RecordSpec == RecordInit /\ [][RecordNext]_recordVars /\ RecordFairness

-----------------------------------------------------------------------------
(* Properties                                                                *)

\* Every variable has its type; in particular no interleaving of two passes takes
\* the attempts of a record beyond their limit.
RecordTypeOK ==
  /\ record \in Record \cup {NoRecord}
  /\ age \in {"fresh", "old", "expired"}
  /\ work \in [Passes -> Work]
  /\ deaths \in 0..MaxDeaths /\ queuings \in 0..2

\* liveDiscoveryMaintenance.ts: a removed record does not come back: when it goes,
\* the signal has left the feed and no pass remembers it.
QueuedOnce == queuings <= 1

Unsettled == record # NoRecord /\ record.state \notin Terminal

\* A signal that is taken up again and again, as long as its record asks for it again
\* and again, is settled in the end.  Two passes may revive a settled record, or take
\* attempts back, with a stale snapshot; but not for ever.
Settles ==
  ([]<>(Unsettled /\ record.due) => []<>(\E p \in Passes : work[p].step = "resolve"))
    => <>[]~Unsettled
=============================================================================
