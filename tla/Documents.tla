-------------------------------- MODULE Documents --------------------------------
(***************************************************************************)
(* The tailored documents of one user and one job: generations that        *)
(* compile, check, store, record and deliver a resume and then a cover     *)
(* letter, the resend of what is stored, and the hand-over to the          *)
(* extension with its identity guard.                                      *)
(***************************************************************************)
EXTENDS Integers, FiniteSets

CONSTANTS MaxGenerations, None,
          MaxOthers   \* bound: resends and requests of the extension

VARIABLES docs,        \* GeneratedDocument: the rows
          pdf,         \* the .pdf file at each kind and version
          agent,       \* what the local agent holds as its latest of each kind
          profile,     \* the identity saved in the candidate profile
          gen,         \* the generations
          sender,      \* deliverLatestDocumentsForJob
          reader,      \* the extension's request for a document
          others,      \* what happened besides the generations, counted
          overlapped   \* history: two generations were at work at once

documentVars == <<docs, pdf, agent, profile, gen, sender, reader, others, overlapped>>

Kinds == {"resume", "coverLetter"}
Generations == 1..MaxGenerations
Identities == {"old", "new"}
Versions == 1..MaxGenerations

\* What a compiled file holds: whose content, what a check of it finds, and the
\* identity printed on it.
Content == [by : Generations, verdict : {"pass", "layout", "fail"}, identity : Identities]
Row == [by : Generations, kind : Kinds, version : Versions, bytes : Content,
        qa : {"pass", "fail", "INVALID_TEST_DATA"}, identityVerified : BOOLEAN]

Idle == [at |-> "new", kind |-> "resume", version |-> 1, form |-> "tailored",
         attempt |-> None, identity |-> "old"]
Done == [Idle EXCEPT !.at = "done"]
Waiting == [at |-> "idle", kind |-> "resume", row |-> None, bytes |-> None]
NoRequest == [at |-> "idle", row |-> None, issues |-> FALSE, profile |-> "old",
              bytes |-> None]

Init ==
  /\ docs = {}
  /\ pdf = [k \in Kinds |-> [v \in Versions |-> None]]
  /\ agent = [k \in Kinds |-> None]
  /\ profile = "old"
  /\ gen = [g \in Generations |-> Idle]
  /\ sender = Waiting
  /\ reader = NoRequest
  /\ others = 0
  /\ overlapped = FALSE

Working(g) == gen[g].at \notin {"new", "done"}

\* A request for documents: the profile is loaded.  The page gives up after 90 seconds
\* and offers its button again while the request goes on.
Begin(g) ==
  /\ gen[g].at = "new" /\ \A h \in 1..(g - 1) : gen[h].at # "new"
  /\ gen' = [gen EXCEPT ![g].at = "count", ![g].identity = profile]
  /\ overlapped' = (overlapped \/ \E h \in Generations : Working(h))
  /\ UNCHANGED <<docs, pdf, agent, profile, sender, reader, others>>

\* MUTANT of NextVersion: it counts the rows of every type.
NextVersionOfAll(kind) == Cardinality(docs) + 1

\* MUTANT of NextVersion: only the versions that passed count.
NextVersionOfPassed(kind) == Cardinality({r \in docs : r.kind = kind /\ r.qa = "pass"}) + 1

NextVersion(kind) == Cardinality({r \in docs : r.kind = kind}) + 1

Count(g) ==
  /\ gen[g].at = "count"
  /\ gen' = [gen EXCEPT ![g].at = "compile", ![g].version = NextVersion(gen[g].kind),
                        ![g].form = "tailored"]
  /\ UNCHANGED <<docs, pdf, agent, profile, sender, reader, others, overlapped>>

\* The source is written and compiled.  Whatever another generation writes to the same
\* source in between, the file is the one of the last to write, and whoever checks it
\* finds the same.
Compile(g) ==
  /\ gen[g].at = "compile"
  /\ \E verdict \in {"pass", "fail"} \union (IF gen[g].kind = "resume" THEN {"layout"} ELSE {}) :
       pdf' = [pdf EXCEPT ![gen[g].kind][gen[g].version] =
         [by |-> g, verdict |-> verdict, identity |-> gen[g].identity]]
  /\ gen' = [gen EXCEPT ![g].at = "check"]
  /\ UNCHANGED <<docs, agent, profile, sender, reader, others, overlapped>>

Theirs(g, bytes) == bytes.identity = gen[g].identity

\* A resume that only does not fit the page is compiled again from the master, in the
\* same files, unless tailoring changed nothing or the master cannot be corrected.
\* The master replaces it when there is nothing to say against it.
Check(g) ==
  /\ gen[g].at = "check"
  /\ LET bytes == pdf[gen[g].kind][gen[g].version]
     IN \/ /\ gen[g].form = "tailored"
           /\ \E at \in IF gen[g].kind = "resume" /\ bytes.verdict = "layout" /\ Theirs(g, bytes)
                          THEN {"compile", "store"} ELSE {"store"} :
                gen' = [gen EXCEPT ![g].at = at, ![g].attempt = bytes,
                                   ![g].form = IF at = "compile" THEN "master" ELSE @]
        \/ /\ gen[g].form = "master"
           /\ gen' = [gen EXCEPT ![g].at = "store",
                ![g].attempt = IF bytes.verdict = "pass" /\ Theirs(g, bytes) THEN bytes ELSE @]
  /\ UNCHANGED <<docs, pdf, agent, profile, sender, reader, others, overlapped>>

\* writeStoredObject: on the local disk the key is the path Typst wrote to.
Store(g) ==
  /\ gen[g].at = "store"
  /\ pdf' = [pdf EXCEPT ![gen[g].kind][gen[g].version] = gen[g].attempt]
  /\ gen' = [gen EXCEPT ![g].at = "row"]
  /\ UNCHANGED <<docs, agent, profile, sender, reader, others, overlapped>>

QaStatus(g) ==
  IF ~Theirs(g, gen[g].attempt) THEN "INVALID_TEST_DATA"
  ELSE IF gen[g].attempt.verdict = "pass" THEN "pass" ELSE "fail"

\* The row is created whatever the checks said; the request fails when they failed.
CreateRow(g) ==
  /\ gen[g].at = "row"
  /\ docs' = docs \union
       {[by |-> g, kind |-> gen[g].kind, version |-> gen[g].version, bytes |-> gen[g].attempt,
         qa |-> QaStatus(g), identityVerified |-> Theirs(g, gen[g].attempt)]}
  /\ gen' = [gen EXCEPT ![g] = IF QaStatus(g) = "pass" THEN [@ EXCEPT !.at = "deliver"] ELSE Done]
  /\ UNCHANGED <<pdf, agent, profile, sender, reader, others, overlapped>>

\* The agent may be away, and may have stored what it could not acknowledge in time.
Deliver(g) ==
  /\ gen[g].at = "deliver"
  /\ \E stored \in BOOLEAN :
       agent' = IF stored THEN [agent EXCEPT ![gen[g].kind] = gen[g].attempt] ELSE agent
  /\ \E cover \in IF gen[g].kind = "resume" THEN BOOLEAN ELSE {FALSE} :
       gen' = [gen EXCEPT ![g] = IF cover
         THEN [Idle EXCEPT !.at = "count", !.kind = "coverLetter", !.identity = gen[g].identity] ELSE Done]
  /\ UNCHANGED <<docs, pdf, profile, sender, reader, others, overlapped>>

\* A stage throws, a compilation fails or the process dies.
Fail(g) ==
  /\ Working(g)
  /\ gen' = [gen EXCEPT ![g] = Done]
  /\ UNCHANGED <<docs, pdf, agent, profile, sender, reader, others, overlapped>>

\* The newest version that passed, if there is one.
Eligible(kind) ==
  {r \in docs : r.kind = kind /\ r.qa = "pass"}

\* MUTANT of LatestRow: the newest version, whatever its checks said.
LatestOfAny(kind) ==
  {r \in docs : r.kind = kind /\ \A s \in docs : s.kind = kind => s.version <= r.version}

LatestRow(kind) ==
  {r \in Eligible(kind) : \A s \in Eligible(kind) : s.version <= r.version}

AfterKind(kind) ==
  IF kind = "resume" THEN [Waiting EXCEPT !.at = "find", !.kind = "coverLetter"] ELSE Waiting

Asks ==
  /\ others < MaxOthers
  /\ others' = others + 1

Resend ==
  /\ Asks
  /\ sender.at = "idle"
  /\ sender' = [sender EXCEPT !.at = "find"]
  /\ UNCHANGED <<docs, pdf, agent, profile, gen, reader, overlapped>>

FindLatest ==
  /\ sender.at = "find"
  /\ \/ \E r \in LatestRow(sender.kind) : sender' = [sender EXCEPT !.at = "read", !.row = r]
     \/ LatestRow(sender.kind) = {} /\ sender' = AfterKind(sender.kind)
  /\ UNCHANGED <<docs, pdf, agent, profile, gen, reader, others, overlapped>>

ReadStored ==
  /\ sender.at = "read"
  /\ sender' = [sender EXCEPT !.at = "send", !.bytes = pdf[sender.kind][sender.row.version]]
  /\ UNCHANGED <<docs, pdf, agent, profile, gen, reader, others, overlapped>>

Send ==
  /\ sender.at = "send"
  /\ \E stored \in BOOLEAN :
       agent' = IF stored THEN [agent EXCEPT ![sender.kind] = sender.bytes] ELSE agent
  /\ sender' = AfterKind(sender.kind)
  /\ UNCHANGED <<docs, pdf, profile, gen, reader, others, overlapped>>

\* Once: the bound on what the owner changes.
ProfileChanges ==
  /\ profile = "old" /\ profile' = "new"
  /\ UNCHANGED <<docs, pdf, agent, gen, sender, reader, others, overlapped>>

\* The extension asks for a document of its run: only a passed, verified one.
Request ==
  /\ Asks
  /\ reader.at = "idle"
  /\ \E r \in docs :
       /\ r.qa = "pass" /\ r.identityVerified
       /\ reader' = [NoRequest EXCEPT !.at = "look", !.row = r]
  /\ UNCHANGED <<docs, pdf, agent, profile, gen, sender, overlapped>>

\* MUTANT of Look: the mark of an earlier check is trusted.
LookTrusting ==
  /\ reader.at = "look"
  /\ reader' = [reader EXCEPT !.at = "mark", !.profile = profile]
  /\ UNCHANGED <<docs, pdf, agent, profile, gen, sender, others, overlapped>>

\* verifyGeneratedDocumentIdentity reads the stored file and the profile of its owner...
Look ==
  /\ reader.at = "look"
  /\ reader' = [reader EXCEPT !.at = "mark", !.profile = profile,
       !.issues = pdf[reader.row.kind][reader.row.version].identity # profile]
  /\ UNCHANGED <<docs, pdf, agent, profile, gen, sender, others, overlapped>>

\* ... and then marks the row.
Mark ==
  /\ reader.at = "mark"
  /\ docs' = {IF <<r.by, r.kind>> # <<reader.row.by, reader.row.kind>> THEN r
              ELSE IF reader.issues
                THEN [r EXCEPT !.qa = "INVALID_TEST_DATA", !.identityVerified = FALSE]
                ELSE [r EXCEPT !.identityVerified = TRUE] : r \in docs}
  /\ reader' = IF reader.issues THEN NoRequest ELSE [reader EXCEPT !.at = "open"]
  /\ UNCHANGED <<pdf, agent, profile, gen, sender, others, overlapped>>

\* The route reads the file again for its answer.
HandOver ==
  /\ reader.at = "open"
  /\ reader' = [reader EXCEPT !.at = "handed", !.bytes = pdf[reader.row.kind][reader.row.version]]
  /\ UNCHANGED <<docs, pdf, agent, profile, gen, sender, others, overlapped>>

Answered ==
  /\ reader.at = "handed"
  /\ reader' = NoRequest
  /\ UNCHANGED <<docs, pdf, agent, profile, gen, sender, others, overlapped>>

GenerationSteps(g) ==
  \/ Begin(g) \/ Count(g) \/ Compile(g) \/ Check(g)
  \/ Store(g) \/ CreateRow(g) \/ Deliver(g) \/ Fail(g)

Next ==
  \/ \E g \in Generations : GenerationSteps(g)
  \/ Resend \/ FindLatest \/ ReadStored \/ Send
  \/ ProfileChanges
  \/ Request \/ Look \/ Mark \/ HandOver \/ Answered

Spec == Init /\ [][Next]_documentVars

-----------------------------------------------------------------------------

\* Every version is one the files exist for, and every request is at one of its steps.
DocumentsTypeOK ==
  /\ docs \subseteq Row
  /\ pdf \in [Kinds -> [Versions -> Content \union {None}]]
  /\ agent \in [Kinds -> Content \union {None}]
  /\ profile \in Identities /\ overlapped \in BOOLEAN
  /\ \A g \in Generations :
       /\ gen[g].at \in {"new", "count", "compile", "check", "store", "row",
                         "deliver", "done"}
       /\ gen[g].kind \in Kinds /\ gen[g].version \in Versions
       /\ gen[g].attempt \in Content \union {None}
  /\ sender.at \in {"idle", "find", "read", "send"}
  /\ reader.at \in {"idle", "look", "mark", "open", "handed"}

\* Every row's file stays the one that was checked for it, across failed generations
\* and repeated ones, unless two generations were at work at once: "existing versions
\* were kept" (src/src/lib/documents/client.ts).
KeptAsChecked ==
  ~overlapped => \A r \in docs : pdf[r.kind][r.version] = r.bytes

\* The agent holds only files that passed QA and that a row records, whether they came
\* from a generation or from a resend, unless a resend met overlapping generations.
AgentHoldsPassed ==
  ~overlapped \/ others = 0 =>
    \A k \in Kinds : agent[k] # None =>
      agent[k].verdict = "pass" /\ \E r \in docs : r.kind = k /\ r.bytes = agent[k]

\* What the extension is handed passed QA and carries the identity of the profile as
\* it was at the request, unless two generations were at work at once.
HandedOverIsTheirs ==
  reader.at = "handed" /\ ~overlapped =>
    reader.bytes.verdict = "pass" /\ reader.bytes.identity = reader.profile
=============================================================================
