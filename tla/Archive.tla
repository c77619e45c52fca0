------------------------------- MODULE Archive -------------------------------
(***************************************************************************)
(* Retention, purge, backup and restore of one scope (retention/service.ts,*)
(* db/repositories/retention*.ts, backup/), over scheduled jobs with their *)
(* attempts and over contacts with their consent.  Previews live in the    *)
(* memory of the process; a purge is a READ COMMITTED transaction whose    *)
(* statements interleave with the rest of the system, in which messages    *)
(* are scheduled, sent and deleted and contacts are looked up and decide.  *)
(* One purge, one document and one lookup of each contact are followed.    *)
(***************************************************************************)
EXTENDS Integers, Sequences, FiniteSets

CONSTANTS
  Jobs,         \* ids of scheduled jobs
  KeyOf,        \* the idempotency key of each
  People,       \* ids of contacts
  Tokens,       \* the random tokens previews may get
  Categories,   \* the RETENTION_CATEGORIES with a policy, of "messages" and "contacts"
  None,
  Batch,        \* DEFAULT_BATCH_SIZE
  MaxPreviews,  \* previews kept in memory
  TokenTTL,     \* life of a preview
  MaxDays,      \* bound of the days of a policy
  MaxLookups,   \* bound of the lookups at once
  MaxTime       \* bound of the clock

VARIABLES
  job,        \* scheduled_jobs
  attempted,  \* jobs with a row in dispatch_attempts
  referred,   \* jobs a campaign refers to
  contact,    \* contacts
  policy,     \* retention_policies: days for each category
  previews,   \* previews in memory, oldest first
  purge,      \* the local variables of the purge in progress
  backup,     \* an exported document, or None
  sending,    \* jobs whose dispatch waits for WAHA
  asked,      \* the consent the lookup of each contact has read and is to save, or None
  now,
  sent,       \* history: how often each job was sent
  revived,    \* history: jobs restored to a state from before they were sent
  deleted,    \* history: jobs whose row was deleted
  decided,    \* history: the last decision of each person
  reverted,   \* history: people whose consent is a restored one
  overtaken,  \* history: people whose row went, with their decision, while a lookup
              \* was to save the consent of before
  begun       \* history: the purges each token started

jobVars == <<job, attempted, referred, sending, sent, revived, deleted>>
contactVars == <<contact, asked, decided, reverted, overtaken>>
purgeVars == <<policy, previews, purge, begun>>
vars == <<jobVars, contactVars, purgeVars, backup, now>>

MaxSends == 2   \* bound of the sends of one job

Consents == {"granted", "withheld"}
JobRow == [state : {"scheduled", "attempting", "submitted"}, born : 0..MaxTime]
ContactRow == [consent : Consents, born : 0..MaxTime]
PreviewRow == [token : Tokens, category : Categories, cutoff : Int, count : Nat, until : Nat]
PurgeState == [step : {"idle", "select", "delete", "jobs"}, category : Categories \cup {None},
               cutoff : Int, count : Nat, picked : SUBSET (Jobs \cup People),
               detached : SUBSET Jobs, disturbed : BOOLEAN, result : Nat \cup {None}]
Document == [jobs : [Jobs -> JobRow \cup {None}], attempted : SUBSET Jobs,
             contacts : [People -> ContactRow \cup {None}], sent : [Jobs -> Nat]]
NoPurge == [step |-> "idle", category |-> None, cutoff |-> 0, count |-> 0, picked |-> {},
            detached |-> {}, disturbed |-> FALSE, result |-> None]

TypeOK ==
  /\ job \in [Jobs -> JobRow \cup {None}]
  /\ attempted \subseteq Jobs /\ referred \subseteq Jobs /\ sending \subseteq Jobs
  /\ contact \in [People -> ContactRow \cup {None}]
  /\ policy \in [Categories -> (1..MaxDays) \cup {None}]
  /\ previews \in Seq(PreviewRow)
  /\ purge \in PurgeState
  /\ backup \in Document \cup {None}
  /\ now \in 0..MaxTime
  /\ sent \in [Jobs -> Nat] /\ begun \in [Tokens -> Nat]
  /\ revived \subseteq Jobs /\ deleted \subseteq Jobs
  /\ reverted \subseteq People /\ overtaken \subseteq People
  /\ decided \in [People -> Consents \cup {None}] /\ asked \in [People -> Consents \cup {None}]

Init ==
  /\ job = [j \in Jobs |-> None] /\ attempted = {} /\ referred = {}
  /\ contact = [p \in People |-> None]
  /\ policy = [c \in Categories |-> None]
  /\ previews = <<>> /\ purge = NoPurge /\ backup = None /\ sending = {}
  /\ now = 0
  /\ sent = [j \in Jobs |-> 0] /\ revived = {} /\ deleted = {}
  /\ decided = [p \in People |-> None] /\ reverted = {} /\ overtaken = {}
  /\ asked = [p \in People |-> None]
  /\ begun = [t \in Tokens |-> 0]

Stored(table) == {r \in DOMAIN table : table[r] # None}
(* a purge between its count and its end sees what others commit *)
Disturb == purge' = IF purge.step = "idle" THEN purge ELSE [purge EXCEPT !.disturbed = TRUE]

-----------------------------------------------------------------------------
(* The rest of the system: messages and contacts, and time passes.           *)

KeyTaken(j) == \E i \in Stored(job) : KeyOf[i] = KeyOf[j]

(* A job gets a new id; its key is free again when the job that had it is    *)
(* deleted.                                                                  *)
Schedule(j, forCampaign) ==
  /\ job[j] = None /\ j \notin deleted /\ ~KeyTaken(j)
  /\ job' = [job EXCEPT ![j] = [state |-> "scheduled", born |-> now]]
  /\ referred' = IF forCampaign THEN referred \cup {j} ELSE referred
  /\ Disturb
  /\ UNCHANGED <<attempted, sending, sent, revived, deleted, contactVars, policy, previews, begun,
                 backup, now>>

Claim(j) ==
  /\ job[j] # None /\ job[j].state = "scheduled"
  /\ job' = [job EXCEPT ![j].state = "attempting"]
  /\ attempted' = attempted \cup {j}
  /\ sending' = sending \cup {j}
  /\ Disturb
  /\ UNCHANGED <<referred, sent, revived, deleted, contactVars, policy, previews, begun, backup, now>>

(* WAHA sends it; its row is settled if it is still there and attempted. *)
Deliver(j) ==
  /\ j \in sending /\ sent[j] < MaxSends
  /\ sending' = sending \ {j}
  /\ sent' = [sent EXCEPT ![j] = @ + 1]
  /\ job' = IF job[j] # None /\ job[j].state = "attempting"
            THEN [job EXCEPT ![j].state = "submitted"] ELSE job
  /\ UNCHANGED <<attempted, referred, revived, deleted, contactVars, purgeVars, backup, now>>

(* A user deletes a settled job; its attempts may be locked by a purge. *)
Remove(j) ==
  /\ job[j] # None /\ job[j].state = "submitted" /\ j \notin purge.detached
  /\ job' = [job EXCEPT ![j] = None]
  /\ attempted' = attempted \ {j} /\ referred' = referred \ {j}
  /\ deleted' = deleted \cup {j}
  /\ Disturb
  /\ UNCHANGED <<sending, sent, revived, contactVars, policy, previews, begun, backup, now>>

(* The contact of a number is read, and saved after WAHA answered: what was  *)
(* read is inserted if there is no row.                                      *)
FindContact(p) ==
  /\ asked[p] = None /\ Cardinality({q \in People : asked[q] # None}) < MaxLookups
  /\ asked' = [asked EXCEPT ![p] = IF contact[p] = None THEN "withheld" ELSE contact[p].consent]
  /\ UNCHANGED <<jobVars, contact, decided, reverted, overtaken, purgeVars, backup, now>>

SaveContact(p) ==
  /\ asked[p] # None
  /\ asked' = [asked EXCEPT ![p] = None]
  /\ IF contact[p] # None THEN UNCHANGED <<contact, purge>>
     ELSE contact' = [contact EXCEPT ![p] = [consent |-> asked[p], born |-> now]] /\ Disturb
  /\ UNCHANGED <<jobVars, decided, reverted, overtaken, policy, previews, begun, backup, now>>

(* updateConsent finds a row, or nothing is updated. *)
Decide(p, consent) ==
  /\ contact[p] # None
  /\ contact' = [contact EXCEPT ![p].consent = consent]
  /\ decided' = [decided EXCEPT ![p] = consent]
  /\ reverted' = reverted \ {p} /\ overtaken' = overtaken \ {p}
  /\ UNCHANGED <<jobVars, asked, purgeVars, backup, now>>

Tick ==
  /\ now < MaxTime
  /\ now' = now + 1
  /\ UNCHANGED <<jobVars, contactVars, purgeVars, backup>>

-----------------------------------------------------------------------------
(* updatePolicy: metadata only *)
UpdatePolicy(c, days) ==
  /\ policy[c] # days
  /\ policy' = [policy EXCEPT ![c] = days]
  /\ UNCHANGED <<jobVars, contactVars, previews, purge, begun, backup, now>>

(* The oldest rows under the cutoff, in the order of age and then of id. *)
TableOf(c) == IF c = "messages" THEN job ELSE contact
Candidates(c, cutoff) == {r \in Stored(TableOf(c)) : TableOf(c)[r].born < cutoff}

Before(c, r, q) ==
  LET t == TableOf(c) IN t[r].born < t[q].born \/ (t[r].born = t[q].born /\ r < q)
Selected(c, cutoff) ==
  {r \in Candidates(c, cutoff) : Cardinality({q \in Candidates(c, cutoff) : Before(c, q, r)}) < Batch}

(* countCandidates: messages count their attempts too *)
RowsOf(c, b) == Cardinality(b) + IF c = "messages" THEN Cardinality(b \cap attempted) ELSE 0
CountOf(c, cutoff) == RowsOf(c, Selected(c, cutoff))

Expired(p) == p.until <= now

(* They expire in the order in which they were made. *)
Unexpired(ps) == SubSeq(ps, Cardinality({k \in 1..Len(ps) : Expired(ps[k])}) + 1, Len(ps))
Newest(ps) == IF Len(ps) > MaxPreviews THEN SubSeq(ps, Len(ps) - MaxPreviews + 1, Len(ps)) ELSE ps

(* preview: counts, remembers, drops the expired and then the oldest *)
Preview(c, t) ==
  LET cutoff == now - policy[c]
      new == [token |-> t, category |-> c, cutoff |-> cutoff, count |-> CountOf(c, cutoff),
              until |-> now + TokenTTL] IN
  /\ policy[c] # None
  /\ begun[t] = 0 /\ \A k \in 1..Len(previews) : previews[k].token # t
  /\ previews' = Newest(Unexpired(Append(previews, new)))
  /\ UNCHANGED <<jobVars, contactVars, policy, purge, begun, backup, now>>

(* purge: the token is checked and spent, then the transaction counts again; *)
(* an error of the transaction does not give the token back.                 *)
Without(k) == SubSeq(previews, 1, k - 1) \o SubSeq(previews, k + 1, Len(previews))

(* Mutant: the rows are not counted again.                                   *)
MutPurgeCount(k, confirmed) ==
  LET p == previews[k] IN
  /\ confirmed /\ purge.step = "idle" /\ ~Expired(p)
  /\ previews' = Without(k)
  /\ begun' = [begun EXCEPT ![p.token] = @ + 1]
  /\ purge' = [NoPurge EXCEPT !.step = "select", !.category = p.category,
                              !.cutoff = p.cutoff, !.count = p.count]
  /\ UNCHANGED <<jobVars, contactVars, policy, backup, now>>

PurgeCount(k, confirmed) ==
  LET p == previews[k] IN
  /\ confirmed /\ purge.step = "idle" /\ ~Expired(p)
  /\ previews' = Without(k)
  /\ begun' = [begun EXCEPT ![p.token] = @ + 1]
  /\ purge' = IF CountOf(p.category, p.cutoff) # p.count THEN NoPurge
              ELSE [NoPurge EXCEPT !.step = "select", !.category = p.category,
                                   !.cutoff = p.cutoff, !.count = p.count]
  /\ UNCHANGED <<jobVars, contactVars, policy, backup, now>>

PurgeSelect ==
  /\ purge.step = "select"
  /\ purge' = [purge EXCEPT !.step = "delete", !.picked = Selected(purge.category, purge.cutoff)]
  /\ UNCHANGED <<jobVars, contactVars, policy, previews, begun, backup, now>>

(* The attempts of the jobs selected are deleted, which nobody sees yet, ... *)
PurgeAttempts ==
  /\ purge.step = "delete" /\ purge.category = "messages"
  /\ purge' = [purge EXCEPT !.step = "jobs", !.detached = purge.picked \cap attempted]
  /\ UNCHANGED <<jobVars, contactVars, policy, previews, begun, backup, now>>

Ended(rows, count) ==
  purge' = [purge EXCEPT !.step = "idle", !.picked = rows, !.detached = {}, !.result = count]

(* ... then the jobs by their ids, which a campaign's reference prevents, or *)
(* an attempt begun since, and the transaction is committed.                 *)
PurgeJobs ==
  LET rows == purge.picked \cap Stored(job) IN
  /\ purge.step = "jobs"
  /\ rows \cap referred = {} /\ rows \cap attempted \subseteq purge.detached
  /\ Ended(rows, Cardinality(purge.detached) + Cardinality(rows))
  /\ job' = [j \in Jobs |-> IF j \in rows THEN None ELSE job[j]]
  /\ attempted' = attempted \ purge.detached
  /\ deleted' = deleted \cup rows
  /\ UNCHANGED <<referred, sending, sent, revived, contactVars, policy, previews, begun, backup, now>>

PurgeContacts ==
  LET rows == purge.picked \cap Stored(contact) IN
  /\ purge.step = "delete" /\ purge.category = "contacts"
  /\ Ended(rows, Cardinality(rows))
  /\ contact' = [p \in People |-> IF p \in rows THEN None ELSE contact[p]]
  /\ reverted' = reverted \ rows
  /\ overtaken' = (overtaken \ rows) \cup {p \in rows : asked[p] = "granted" /\ decided[p] # "granted"}
  /\ UNCHANGED <<jobVars, asked, decided, policy, previews, begun, backup, now>>

(* A statement fails: the transaction is rolled back. *)
PurgeFails ==
  /\ purge.step # "idle"
  /\ purge' = NoPurge
  /\ UNCHANGED <<jobVars, contactVars, policy, previews, begun, backup, now>>

Restart ==
  /\ previews' = <<>> /\ purge' = NoPurge /\ sending' = {}
  /\ asked' = [p \in People |-> None]
  /\ UNCHANGED <<job, attempted, referred, sent, revived, deleted, contact, decided, reverted,
                 overtaken, policy, begun, backup, now>>

-----------------------------------------------------------------------------
(* exportScope: one read-only snapshot, without campaigns and groups.        *)
Export ==
  /\ backup = None
  /\ backup' = [jobs |-> job, attempted |-> attempted, contacts |-> contact, sent |-> sent]
  /\ UNCHANGED <<jobVars, contactVars, purgeVars, now>>

(* restoreScope: a row that conflicts with one that is there, by its id or   *)
(* by its key, is left out.                                                  *)
Added(table, from) == {r \in DOMAIN table : table[r] = None /\ from[r] # None}
Merge(table, from, added) == [r \in DOMAIN table |-> IF r \in added THEN from[r] ELSE table[r]]

(* Every attempt of the document finds its job, in it or in the database,    *)
(* and the job was not left out; otherwise nothing is restored.              *)
ReferencesValid(jobs) == \A j \in backup.attempted : jobs[j] # None

Restore ==
  LET jobsBack == {j \in Added(job, backup.jobs) : ~KeyTaken(j)}
      peopleBack == Added(contact, backup.contacts)
      jobs == Merge(job, backup.jobs, jobsBack) IN
  /\ backup # None /\ ReferencesValid(jobs)
  /\ job' = jobs /\ contact' = Merge(contact, backup.contacts, peopleBack)
  /\ attempted' = attempted \cup backup.attempted
  /\ revived' = revived \cup {j \in jobsBack : sent[j] > backup.sent[j] \/ j \in sending}
  /\ reverted' = reverted \cup {p \in peopleBack : decided[p] # backup.contacts[p].consent}
  /\ Disturb
  /\ UNCHANGED <<referred, sending, sent, deleted, asked, decided, overtaken, policy, previews, begun,
                 backup, now>>

Next ==
  \/ \E j \in Jobs :
       (\E forCampaign \in BOOLEAN : Schedule(j, forCampaign)) \/ Claim(j) \/ Deliver(j) \/ Remove(j)
  \/ \E p \in People :
       FindContact(p) \/ SaveContact(p) \/ \E consent \in Consents : Decide(p, consent)
  \/ Tick
  \/ \E c \in Categories :
       \/ \E days \in 1..MaxDays : UpdatePolicy(c, days)
       \/ \E t \in Tokens : Preview(c, t)
  \/ \E k \in 1..Len(previews), confirmed \in BOOLEAN : PurgeCount(k, confirmed)
  \/ PurgeSelect \/ PurgeAttempts \/ PurgeJobs \/ PurgeContacts \/ PurgeFails
  \/ Restart \/ Export \/ Restore

Spec == Init /\ [][Next]_vars

-----------------------------------------------------------------------------
(* The administrator's confirmation covers what is deleted: as many rows as  *)
(* the preview counted, unless rows changed between the transaction's own    *)
(* statements, and every token starts one purge (the recount of purge and    *)
(* previews.delete).                                                         *)
PurgeAsPreviewed ==
  /\ purge.result # None => purge.result = purge.count \/ purge.disturbed
  /\ \A t \in Tokens : begun[t] <= 1
  /\ Len(previews) <= MaxPreviews

(* An attempt and a campaign's reference always have their job (the order of *)
(* deleteCandidates, and a restore that keeps children with their parents).  *)
NothingDangles == attempted \cup referred \subseteq Stored(job)

(* A message goes out again only when a restore brought its job back from    *)
(* before it was sent, or its job was deleted, which frees the idempotency   *)
(* key for the same request (a purge deletes jobs by their age alone, so a   *)
(* job that is being sent may be among them).                                *)
SentAgainOnlyWhenLost ==
  /\ \A j \in Jobs : sent[j] > 1 => j \in revived
  /\ \A i, j \in Jobs : i # j /\ KeyOf[i] = KeyOf[j] /\ sent[i] > 0 /\ sent[j] > 0
                      => i \in deleted \/ j \in deleted

(* Nobody has consent whose last decision was another, unless a restore      *)
(* brought it back, or a purge deleted the contact with its decision and a   *)
(* lookup from before saved what it had read (contacts.save).                *)
ConsentIsGiven ==
  \A p \in People : contact[p] # None /\ contact[p].consent = "granted"
                    => decided[p] = "granted" \/ p \in reverted \cup overtaken

ArchiveInv ==
  TypeOK /\ PurgeAsPreviewed /\ NothingDangles /\ SentAgainOnlyWhenLost /\ ConsentIsGiven
=============================================================================
