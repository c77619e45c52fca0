----------------------------- MODULE ServerProofs -----------------------------
(***************************************************************************)
(* Proofs about the parts of the server that share no state with each      *)
(* other, for every value of their constants.  A part is an instance with  *)
(* variables and constants that carry its letter.                          *)
(***************************************************************************)
EXTENDS Integers, Sequences, FiniteSets, FiniteSetTheorems, SequenceTheorems, TLAPS

CONSTANTS
  None,
  CCalls, CSignalled,
  XJobs, XKeyOf, XPeople, XTokens, XCategories, XBatch, XMaxPreviews, XTokenTTL, XMaxDays,
  XMaxLookups, XMaxTime,
  GGroups, GTitles, GUsers, GSessions, GContacts, GSessionOf, GPhoneOf, GPhones, GRequests,
  NSecrets, NChats, NChannels, NForms, NMaxAttempts, NMaxSaves,
  AUsers, ATokens, ARequests, APasswords, AMaxFailures, AWindow, ABlock, ASessionTTL,
  AMaxTime, AMaxFaults,
  SRows, SNames, SUsers, SRolesOf, SRequests, SOps, SMaxTime

VARIABLES
  cCall, cCancelled, cCarriedOut,
  xJob, xAttempted, xReferred, xContact, xPolicy, xPreviews, xPurge, xBackup, xSending,
  xAsked, xNow, xSent, xRevived, xDeleted, xDecided, xReverted, xOvertaken, xBegun,
  gGroup, gMember, gContacts, gUsed, gRequest, gJoined, gEmptied,
  nSetting, nPreferred, nForm, nSaves, nTyped, nStale, nRow, nRun, nReceived, nLate,
  nAudits,
  aUser, aToken, aLimit, aLock, aRequest, aNow, aFaults, aBootstrapped, aExamined,
  sSession, sGranted, sReferred, sWaha, sEvents, sRequest, sNow, sLost, sOvertaken

C == INSTANCE WahaClient WITH
  call <- cCall, cancelled <- cCancelled, carriedOut <- cCarriedOut, Calls <- CCalls,
  Signalled <- CSignalled

X == INSTANCE Archive WITH
  job <- xJob, attempted <- xAttempted, referred <- xReferred, contact <- xContact, policy
  <- xPolicy, previews <- xPreviews, purge <- xPurge, backup <- xBackup, sending <-
  xSending, asked <- xAsked, now <- xNow, sent <- xSent, revived <- xRevived, deleted <-
  xDeleted, decided <- xDecided, reverted <- xReverted, overtaken <- xOvertaken, begun <-
  xBegun, Jobs <- XJobs, KeyOf <- XKeyOf, People <- XPeople, Tokens <- XTokens, Categories
  <- XCategories, Batch <- XBatch, MaxPreviews <- XMaxPreviews, TokenTTL <- XTokenTTL,
  MaxDays <- XMaxDays, MaxLookups <- XMaxLookups, MaxTime <- XMaxTime

G == INSTANCE ContactGroups WITH
  group <- gGroup, member <- gMember, contacts <- gContacts, used <- gUsed, request <-
  gRequest, joined <- gJoined, emptied <- gEmptied, Groups <- GGroups, Titles <- GTitles,
  Users <- GUsers, Sessions <- GSessions, Contacts <- GContacts, SessionOf <- GSessionOf,
  PhoneOf <- GPhoneOf, Phones <- GPhones, Requests <- GRequests

N == INSTANCE Notifications WITH
  setting <- nSetting, preferred <- nPreferred, form <- nForm, saves <- nSaves, typed <-
  nTyped, stale <- nStale, row <- nRow, run <- nRun, received <- nReceived, late <- nLate,
  audits <- nAudits, Secrets <- NSecrets, Chats <- NChats, Channels <- NChannels, Forms <-
  NForms, MaxAttempts <- NMaxAttempts, MaxSaves <- NMaxSaves

A == INSTANCE Accounts WITH
  user <- aUser, token <- aToken, limit <- aLimit, lock <- aLock, request <- aRequest, now
  <- aNow, faults <- aFaults, bootstrapped <- aBootstrapped, examined <- aExamined, Users
  <- AUsers, Tokens <- ATokens, Requests <- ARequests, Passwords <- APasswords,
  MaxFailures <- AMaxFailures, Window <- AWindow, Block <- ABlock, SessionTTL <-
  ASessionTTL, MaxTime <- AMaxTime, MaxFaults <- AMaxFaults

S == INSTANCE Sessions WITH
  session <- sSession, granted <- sGranted, referred <- sReferred, waha <- sWaha, events
  <- sEvents, request <- sRequest, now <- sNow, lost <- sLost, overtaken <- sOvertaken,
  Rows <- SRows, Names <- SNames, Users <- SUsers, RolesOf <- SRolesOf, Requests <-
  SRequests, Ops <- SOps, MaxTime <- SMaxTime

-----------------------------------------------------------------------------
(* WahaClient *)

(* None is no status and no outcome.                                       *)
ClientAssumption == None \notin C!Statuses \cup C!Outcomes

(* Where a call stands agrees with what is known of it: only a call that    *)
(* ended has an outcome, and one past its headers has WAHA's answer.        *)
StageSound ==
  \A c \in CCalls :
    /\ C!At(c, "done") <=> cCall[c].outcome # None
    /\ C!At(c, "body") => cCarriedOut[c] = "done"
    /\ C!At(c, "detail") => cCarriedOut[c] # "no"
    /\ cCall[c].timedOut => cCall[c].aborted

ClientIInv == C!TypeOK /\ StageSound /\ C!WaitsAreTimed /\ C!OutcomesAreTrue

LEMMA InitClient ==
  ASSUME ClientAssumption, C!Init
  PROVE  ClientIInv
BY DEF ClientAssumption, C!Init, C!Fresh, ClientIInv, C!TypeOK, StageSound, C!WaitsAreTimed,
   C!OutcomesAreTrue, C!At, C!Pending, C!Outcomes, C!HttpErrors

(* The call that settles: it is stamped with a true outcome, and neither    *)
(* timer nor listener is left.                                             *)
LEMMA SettleKeeps ==
  ASSUME ClientAssumption, ClientIInv, NEW c \in CCalls, NEW o \in C!Outcomes, C!Settle(c, o),
         UNCHANGED <<cCancelled, cCarriedOut>>,
         o = "timeout" => cCall[c].timedOut,
         o = "cancelled" => c \in CSignalled /\ cCancelled,
         o = "network" => ~cCall[c].timedOut,
         o = "fine" => cCarriedOut[c] = "done",
         o \in C!HttpErrors \cup {"malformed_response"} => cCarriedOut[c] # "no"
  PROVE  ClientIInv'
<1>1. cCall' = [cCall EXCEPT ![c] = [cCall[c] EXCEPT !.at = "done", !.outcome = o,
                                          !.armed = FALSE, !.listening = FALSE]]
  BY DEF C!Settle, ClientIInv, C!TypeOK
<1>2. o # None
  BY DEF ClientAssumption
<1>3. C!TypeOK'
  BY <1>1 DEF ClientIInv, C!TypeOK
<1>4. StageSound'
  BY <1>1, <1>2 DEF ClientIInv, C!TypeOK, StageSound, C!At
<1>5. C!WaitsAreTimed'
  BY <1>1 DEF ClientIInv, C!TypeOK, C!WaitsAreTimed, C!Pending
<1>6. C!OutcomesAreTrue'
  BY <1>1 DEF ClientIInv, C!TypeOK, C!OutcomesAreTrue
<1> QED
  BY <1>3, <1>4, <1>5, <1>6 DEF ClientIInv

LEMMA StartKeeps ==
  ASSUME ClientAssumption, ClientIInv, NEW c \in CCalls, C!Start(c)
  PROVE  ClientIInv'
<1>1. CASE c \in CSignalled /\ cCancelled
  BY <1>1, SettleKeeps DEF C!Start, C!Outcomes, C!HttpErrors
<1>2. CASE ~(c \in CSignalled /\ cCancelled)
  <2>1. PICK l \in BOOLEAN :
          cCall' = [cCall EXCEPT ![c] = [cCall[c] EXCEPT !.at = "fetch", !.armed = TRUE,
                                              !.listening = l]]
    <3>1. (c \in CSignalled) \in BOOLEAN
      OBVIOUS
    <3> QED
      BY <1>2, <3>1 DEF C!Start, ClientIInv, C!TypeOK
  <2>2. C!At(c, "new") /\ UNCHANGED <<cCancelled, cCarriedOut>>
    BY DEF C!Start
  <2>3. C!TypeOK'
    BY <2>1, <2>2 DEF ClientIInv, C!TypeOK
  <2>4. StageSound'
    <3>1. /\ cCall'[c].at = "fetch" /\ cCall'[c].outcome = cCall[c].outcome
          /\ cCall'[c].timedOut = cCall[c].timedOut /\ cCall'[c].aborted = cCall[c].aborted
      BY <2>1 DEF ClientIInv, C!TypeOK
    <3>2. \A d \in CCalls \ {c} : cCall'[d] = cCall[d]
      BY <2>1 DEF ClientIInv, C!TypeOK
    <3> QED
      BY <2>2, <3>1, <3>2 DEF ClientIInv, StageSound, C!At
  <2>5. C!WaitsAreTimed'
    BY <2>1 DEF ClientIInv, C!TypeOK, C!WaitsAreTimed, C!Pending
  <2>6. C!OutcomesAreTrue'
    BY <2>1, <2>2 DEF ClientIInv, C!TypeOK, C!OutcomesAreTrue
  <2> QED
    BY <2>3, <2>4, <2>5, <2>6 DEF ClientIInv
<1> QED
  BY <1>1, <1>2

(* WAHA may act late, but never takes back what it did.                    *)
LEMMA WahaActsKeeps ==
  ASSUME ClientIInv, NEW c \in CCalls, NEW what \in {"done", "refused"}, C!WahaActs(c, what)
  PROVE  ClientIInv'
<1>1. /\ cCarriedOut' = [cCarriedOut EXCEPT ![c] = what]
      /\ cCarriedOut[c] = "no" /\ UNCHANGED <<cCall, cCancelled>>
  BY DEF C!WahaActs
<1>2. \A d \in CCalls : cCarriedOut[d] # "no" => cCarriedOut'[d] = cCarriedOut[d]
  BY <1>1 DEF ClientIInv, C!TypeOK
<1>3. C!TypeOK'
  BY <1>1 DEF ClientIInv, C!TypeOK
<1>4. StageSound'
  BY <1>1, <1>2 DEF ClientIInv, C!TypeOK, StageSound, C!At
<1>5. C!WaitsAreTimed'
  BY <1>1 DEF ClientIInv, C!WaitsAreTimed, C!Pending
<1>6. C!OutcomesAreTrue'
  BY <1>1, <1>2 DEF ClientIInv, C!OutcomesAreTrue
<1> QED
  BY <1>3, <1>4, <1>5, <1>6 DEF ClientIInv

LEMMA HeadersKeeps ==
  ASSUME ClientAssumption, ClientIInv, NEW c \in CCalls, NEW status \in C!Statuses, C!Headers(c, status)
  PROVE  ClientIInv'
<1>1. PICK s \in {"body", "detail"} :
        /\ cCall' = [cCall EXCEPT ![c] = [cCall[c] EXCEPT !.at = s, !.status = status]]
        /\ s = "body" => cCarriedOut[c] = "done"
  BY DEF C!Headers, ClientIInv, C!TypeOK
<1>2. C!At(c, "fetch") /\ cCarriedOut[c] # "no" /\ UNCHANGED <<cCancelled, cCarriedOut>>
  BY DEF C!Headers
<1>3. C!TypeOK'
  BY <1>1, <1>2 DEF ClientIInv, C!TypeOK
<1>4. StageSound'
  BY <1>1, <1>2 DEF ClientIInv, C!TypeOK, StageSound, C!At
<1>5. C!WaitsAreTimed'
  BY <1>1, <1>2 DEF ClientIInv, C!TypeOK, C!WaitsAreTimed, C!Pending, C!At
<1>6. C!OutcomesAreTrue'
  BY <1>1, <1>2 DEF ClientIInv, C!TypeOK, C!OutcomesAreTrue
<1> QED
  BY <1>3, <1>4, <1>5, <1>6 DEF ClientIInv

(* The three ways a call that was sent ends.                               *)
LEMMA EndsKeep ==
  ASSUME ClientAssumption, ClientIInv, NEW c \in CCalls,
         C!Detail(c) \/ C!Breaks(c) \/ (\E body \in C!Bodies : C!Body(c, body))
  PROVE  ClientIInv'
<1>1. CASE C!Detail(c)
  <2>1. C!ClassifyHttpStatus(cCall[c].status) \in C!HttpErrors /\ cCarriedOut[c] # "no"
    BY <1>1 DEF C!Detail, C!ClassifyHttpStatus, C!HttpErrors, ClientIInv, StageSound
  <2> QED
    BY <1>1, <2>1, SettleKeeps DEF C!Detail, C!Outcomes, C!HttpErrors
<1>2. CASE C!Breaks(c)
  BY <1>2, SettleKeeps DEF C!Breaks, C!Fails, C!Outcomes, C!HttpErrors
<1>3. ASSUME NEW body \in C!Bodies, C!Body(c, body)
      PROVE  ClientIInv'
  <2>1. cCarriedOut[c] = "done"
    BY <1>3 DEF C!Body, ClientIInv, StageSound
  <2> QED
    BY <1>3, <2>1, SettleKeeps DEF C!Body, C!Outcomes, C!HttpErrors
<1> QED
  BY <1>1, <1>2, <1>3

(* The timer and the signal abort; what waits is rejected next.            *)
LEMMA AbortsKeep ==
  ASSUME ClientAssumption, ClientIInv, (\E c \in CCalls : C!TimerFires(c)) \/ C!CallerAborts
  PROVE  ClientIInv'
<1>1. ASSUME NEW c \in CCalls, C!TimerFires(c)
      PROVE  ClientIInv'
  <2>1. cCall' = [cCall EXCEPT ![c] = [cCall[c] EXCEPT !.armed = FALSE, !.timedOut = TRUE,
                                            !.aborted = TRUE]]
    BY <1>1 DEF C!TimerFires, ClientIInv, C!TypeOK
  <2>2. cCall[c].armed /\ C!Pending(c) /\ UNCHANGED <<cCancelled, cCarriedOut>>
    BY <1>1 DEF C!TimerFires, ClientIInv, C!WaitsAreTimed
  <2>3. C!TypeOK'
    BY <2>1, <2>2 DEF ClientIInv, C!TypeOK
  <2>4. StageSound'
    <3>1. /\ cCall'[c].at = cCall[c].at /\ cCall'[c].outcome = cCall[c].outcome
          /\ cCall'[c].aborted
      BY <2>1 DEF ClientIInv, C!TypeOK
    <3>2. \A d \in CCalls \ {c} : cCall'[d] = cCall[d]
      BY <2>1 DEF ClientIInv, C!TypeOK
    <3> QED
      BY <2>2, <3>1, <3>2 DEF ClientIInv, StageSound, C!At
  <2>5. C!WaitsAreTimed'
    BY <2>1, <2>2 DEF ClientIInv, C!TypeOK, C!WaitsAreTimed, C!Pending
  <2>6. cCall[c].outcome # "network"
    BY <2>2 DEF ClientAssumption, C!Outcomes, ClientIInv, StageSound, C!Pending, C!At
  <2>7. C!OutcomesAreTrue'
    BY <2>1, <2>2, <2>6 DEF ClientIInv, C!TypeOK, C!OutcomesAreTrue
  <2> QED
    BY <2>3, <2>4, <2>5, <2>7 DEF ClientIInv
<1>2. ASSUME C!CallerAborts
      PROVE  ClientIInv'
  <2>1. \A d \in CCalls : /\ cCall'[d] = [cCall[d] EXCEPT !.aborted = TRUE] \/ cCall'[d] = cCall[d]
                          /\ cCall[d].listening \/ cCall'[d] = cCall[d]
    BY <1>2 DEF C!CallerAborts
  <2>2. cCancelled' = TRUE /\ UNCHANGED cCarriedOut
    BY <1>2 DEF C!CallerAborts
  <2>3. C!TypeOK'
    BY <1>2 DEF C!CallerAborts, ClientIInv, C!TypeOK
  <2>4. StageSound'
    BY <2>1, <2>2 DEF ClientIInv, C!TypeOK, StageSound, C!At
  <2>5. C!WaitsAreTimed'
    BY <2>1 DEF ClientIInv, C!TypeOK, C!WaitsAreTimed, C!Pending
  <2>6. C!OutcomesAreTrue'
    BY <2>1, <2>2 DEF ClientIInv, C!TypeOK, C!OutcomesAreTrue
  <2> QED
    BY <2>3, <2>4, <2>5, <2>6 DEF ClientIInv
<1> QED
  BY <1>1, <1>2

LEMMA NextClient ==
  ASSUME ClientAssumption, ClientIInv, [C!Next]_C!vars
  PROVE  ClientIInv'
<1>1. CASE C!Next
  BY <1>1, StartKeeps, WahaActsKeeps, HeadersKeeps, EndsKeep, AbortsKeep DEF C!Next
<1>2. CASE UNCHANGED C!vars
  BY <1>2 DEF C!vars, ClientIInv, C!TypeOK, StageSound, C!WaitsAreTimed, C!OutcomesAreTrue, C!At, C!Pending
<1> QED
  BY <1>1, <1>2

(* A call that ended without WAHA's answer ended by a timeout, the network  *)
(* or a signal, and no signal reaches a message.                           *)
LEMMA ClientSuffices ==
  ASSUME ClientAssumption, ClientIInv
  PROVE  C!ClientInv
<1> SUFFICES ASSUME NEW c \in CCalls \ CSignalled, C!At(c, "done"),
                    C!ClassifyWahaDispatchError(cCall[c].outcome) = "failed"
             PROVE  cCarriedOut[c] # "no"
  BY DEF ClientIInv, C!ClientInv, C!UnknownWhenInDoubt
<1>1. cCall[c].outcome \in C!Outcomes /\ cCall[c].outcome \notin {"timeout", "network"}
  BY DEF ClientIInv, StageSound, C!TypeOK, C!ClassifyWahaDispatchError
<1> QED
  BY <1>1 DEF ClientIInv, C!OutcomesAreTrue, C!Outcomes

(* However the answers, the timers and the signal interleave, the outcome   *)
(* of every call is true, no timer or listener outlives it, and a message   *)
(* is recorded failed only if WAHA dealt with it (waha/adapter.ts).         *)
THEOREM ClientHolds ==
  ASSUME ClientAssumption
  PROVE  C!Spec => []C!ClientInv
<1>1. C!Init => ClientIInv
  BY InitClient
<1>2. ClientIInv /\ [C!Next]_C!vars => ClientIInv'
  BY NextClient
<1>3. ClientIInv => C!ClientInv
  BY ClientSuffices
<1> QED
  BY <1>1, <1>2, <1>3, PTL DEF C!Spec

-----------------------------------------------------------------------------
(* Archive *)

(* The cardinality is the library's. *)
LEMMA XCardinality == \A set : X!Cardinality(set) = Cardinality(set)
BY DEF X!Cardinality, Cardinality

(* None is no row; the sets of rows are finite, as a table is.             *)
ArchiveAssumption ==
  /\ IsFiniteSet(XJobs) /\ IsFiniteSet(XPeople)
  /\ XMaxTime \in Nat /\ XMaxDays \in Nat /\ XMaxPreviews \in Nat /\ XTokenTTL \in Nat
  /\ XCategories \subseteq {"messages", "contacts"}
  /\ None \notin X!JobRow \cup X!ContactRow \cup XCategories \cup X!Consents \cup (1..XMaxDays)

(* While nobody disturbs it, a purge is about the rows its preview counted;  *)
(* the attempts it has deleted stay, and locked, until it ends.              *)
AsCounted == xPurge.picked = X!Selected(xPurge.category, xPurge.cutoff)
             /\ X!RowsOf(xPurge.category, xPurge.picked) = xPurge.count
PurgeCounts ==
  /\ xPurge.step # "idle" => xPurge.category \in XCategories /\ xPurge.result = None
  /\ xPurge.step # "jobs" => xPurge.detached = {}
  /\ xPurge.step = "select" =>
       X!CountOf(xPurge.category, xPurge.cutoff) = xPurge.count \/ xPurge.disturbed
  /\ xPurge.step = "delete" => AsCounted \/ xPurge.disturbed
  /\ xPurge.step = "jobs" =>
       /\ xPurge.category = "messages" /\ xPurge.detached \subseteq xPurge.picked \cap xAttempted
       /\ \/ AsCounted /\ xPurge.detached = xPurge.picked \cap xAttempted
          \/ xPurge.disturbed

(* A token is in memory once, and no longer when its purge begins. *)
TokensUnspent ==
  /\ \A k \in 1..Len(xPreviews) : xBegun[xPreviews[k].token] = 0
  /\ \A k, l \in 1..Len(xPreviews) : xPreviews[k].token = xPreviews[l].token => k = l

(* What was sent, or is being sent, is not scheduled unless it was restored;  *)
(* an id that has no row and lost none was never used.                       *)
ArchiveUnsent(table, times, j) == table[j] # None /\ table[j].state = "scheduled" => times[j] = 0
SendsOnce ==
  /\ \A j \in XJobs \ xRevived :
       /\ ArchiveUnsent(xJob, xSent, j)
       /\ j \in xSending => xSent[j] = 0
       /\ xJob[j] # None /\ xJob[j].state = "scheduled" => j \notin xSending
  /\ xBackup # None => \A j \in XJobs : /\ xBackup.sent[j] <= xSent[j]
                                        /\ j \notin xRevived => ArchiveUnsent(xBackup.jobs, xBackup.sent, j)
  /\ \A j \in XJobs : xJob[j] = None /\ j \notin xDeleted =>
       xSent[j] = 0 /\ j \notin xSending /\ (xBackup # None => xBackup.jobs[j] = None)

(* The keys of the jobs there are, and of those of a document, are distinct. *)
Distinct(table) == \A i, j \in XJobs : i # j /\ XKeyOf[i] = XKeyOf[j] /\ table[i] # None => table[j] = None
KeysDistinct == Distinct(xJob) /\ (xBackup # None => Distinct(xBackup.jobs))

(* A lookup that will insert consent was overtaken, or the consent is given. *)
LookupsKnown ==
  \A p \in XPeople : xContact[p] = None /\ xAsked[p] = "granted" => xDecided[p] = "granted" \/ p \in xOvertaken

ArchiveIInv == X!ArchiveInv /\ PurgeCounts /\ TokensUnspent /\ SendsOnce /\ KeysDistinct /\ LookupsKnown

LEMMA PurgeStates ==
  /\ X!NoPurge \in X!PurgeState
  /\ \A c \in XCategories, k \in Int, n \in Nat :
       [X!NoPurge EXCEPT !.step = "select", !.category = c, !.cutoff = k, !.count = n] \in X!PurgeState
  /\ \A p \in X!PurgeState :
       /\ [p EXCEPT !.disturbed = TRUE] \in X!PurgeState
       /\ \A b \in SUBSET (XJobs \cup XPeople) :
            /\ [p EXCEPT !.step = "delete", !.picked = b] \in X!PurgeState
            /\ \A n \in Nat :
                 [p EXCEPT !.step = "idle", !.picked = b, !.detached = {}, !.result = n] \in X!PurgeState
       /\ \A b \in SUBSET XJobs : [p EXCEPT !.step = "jobs", !.detached = b] \in X!PurgeState
<1>1. {} \in SUBSET (XJobs \cup XPeople) /\ {} \in SUBSET XJobs
  OBVIOUS
<1>2. X!NoPurge \in X!PurgeState
  BY <1>1 DEF X!NoPurge, X!PurgeState
<1>3. \A c \in XCategories, k \in Int, n \in Nat :
        [X!NoPurge EXCEPT !.step = "select", !.category = c, !.cutoff = k, !.count = n] \in X!PurgeState
  <2> TAKE c \in XCategories, k \in Int, n \in Nat
  <2>1. [X!NoPurge EXCEPT !.step = "select"] \in X!PurgeState
    BY <1>2 DEF X!PurgeState
  <2>2. \A p \in X!PurgeState : [p EXCEPT !.category = c, !.cutoff = k, !.count = n] \in X!PurgeState
    BY DEF X!PurgeState
  <2>3. [X!NoPurge EXCEPT !.step = "select", !.category = c, !.cutoff = k, !.count = n]
          = [[X!NoPurge EXCEPT !.step = "select"] EXCEPT !.category = c, !.cutoff = k, !.count = n]
    OBVIOUS
  <2> QED
    BY <2>1, <2>2, <2>3
<1>4. \A p \in X!PurgeState :
       /\ [p EXCEPT !.disturbed = TRUE] \in X!PurgeState
       /\ \A b \in SUBSET (XJobs \cup XPeople) :
            /\ [p EXCEPT !.step = "delete", !.picked = b] \in X!PurgeState
            /\ \A n \in Nat :
                 [p EXCEPT !.step = "idle", !.picked = b, !.detached = {}, !.result = n] \in X!PurgeState
       /\ \A b \in SUBSET XJobs : [p EXCEPT !.step = "jobs", !.detached = b] \in X!PurgeState
  BY DEF X!PurgeState
<1> QED
  BY <1>2, <1>3, <1>4

LEMMA InitArchive ==
  ASSUME ArchiveAssumption, X!Init
  PROVE  ArchiveIInv
<1> USE DEF ArchiveAssumption, X!Init
<1>1. X!TypeOK
  <2>1. xPreviews \in Seq(X!PreviewRow)
    OBVIOUS
  <2> QED
    <3>1. X!NoPurge \in X!PurgeState
      BY PurgeStates
    <3> QED
      BY <2>1, <3>1 DEF X!TypeOK
<1>2. X!PurgeAsPreviewed /\ X!NothingDangles /\ X!SentAgainOnlyWhenLost /\ X!ConsentIsGiven
  BY DEF X!PurgeAsPreviewed, X!NothingDangles, X!SentAgainOnlyWhenLost, X!ConsentIsGiven, X!NoPurge, X!Stored
<1>3. PurgeCounts /\ TokensUnspent
  BY DEF PurgeCounts, TokensUnspent, X!NoPurge
<1>4. SendsOnce /\ KeysDistinct /\ LookupsKnown
  BY DEF SendsOnce, ArchiveUnsent, KeysDistinct, Distinct, LookupsKnown
<1> QED
  BY <1>1, <1>2, <1>3, <1>4 DEF ArchiveIInv, X!ArchiveInv

(* What is counted is finite, and a batch is made of candidates. *)
LEMMA BatchesAreFinite ==
  ASSUME ArchiveAssumption, X!TypeOK, NEW c \in XCategories, NEW cutoff \in Int
  PROVE  /\ X!Selected(c, cutoff) \subseteq X!Candidates(c, cutoff)
         /\ X!Candidates(c, cutoff) \subseteq IF c = "messages" THEN XJobs ELSE XPeople
         /\ X!CountOf(c, cutoff) \in Nat
<1>1. X!Selected(c, cutoff) \subseteq X!Candidates(c, cutoff)
  BY DEF X!Selected
<1>2. X!Candidates(c, cutoff) \subseteq IF c = "messages" THEN XJobs ELSE XPeople
  BY DEF X!Candidates, X!Stored, X!TableOf, X!TypeOK
<1>3. IsFiniteSet(X!Selected(c, cutoff)) /\ IsFiniteSet(X!Selected(c, cutoff) \cap xAttempted)
  BY <1>1, <1>2, FS_Subset DEF ArchiveAssumption
<1>4. X!CountOf(c, cutoff) \in Nat
  BY <1>3, FS_CardinalityType, XCardinality DEF X!CountOf, X!RowsOf
<1> QED
  BY <1>1, <1>2, <1>4

(* Where the rows keep their age, the same rows are selected. *)
KeepsAge(old, new, ids) ==
  \A r \in ids : /\ (new[r] = None) <=> (old[r] = None)
                 /\ old[r] # None => new[r].born = old[r].born

LEMMA SameBatch ==
  ASSUME X!TypeOK, X!TypeOK', NEW c \in XCategories, NEW cutoff \in Int,
         xAttempted' = xAttempted, KeepsAge(xJob, xJob', XJobs), KeepsAge(xContact, xContact', XPeople)
  PROVE  /\ X!Selected(c, cutoff)' = X!Selected(c, cutoff)
         /\ X!CountOf(c, cutoff)' = X!CountOf(c, cutoff)
         /\ \A b : X!RowsOf(c, b)' = X!RowsOf(c, b)
<1>0. /\ DOMAIN xJob = XJobs /\ DOMAIN xJob' = XJobs
      /\ DOMAIN xContact = XPeople /\ DOMAIN xContact' = XPeople
  BY DEF X!TypeOK
<1>1. /\ {r \in DOMAIN X!TableOf(c)' : X!TableOf(c)'[r] # None} = X!Stored(X!TableOf(c))
      /\ \A r \in X!Stored(X!TableOf(c)) : X!TableOf(c)'[r].born = X!TableOf(c)[r].born
  <2>1. CASE c = "messages"
    <3>1. X!TableOf(c) = xJob /\ X!TableOf(c)' = xJob'
      BY <2>1 DEF X!TableOf
    <3>2. {r \in XJobs : xJob'[r] # None} = {r \in XJobs : xJob[r] # None}
      BY DEF KeepsAge
    <3> QED
      BY <1>0, <3>1, <3>2 DEF X!Stored, KeepsAge
  <2>2. CASE c # "messages"
    <3>1. X!TableOf(c) = xContact /\ X!TableOf(c)' = xContact'
      BY <2>2 DEF X!TableOf
    <3>2. {r \in XPeople : xContact'[r] # None} = {r \in XPeople : xContact[r] # None}
      BY DEF KeepsAge
    <3> QED
      BY <1>0, <3>1, <3>2 DEF X!Stored, KeepsAge
  <2> QED
    BY <2>1, <2>2
<1>2. X!Candidates(c, cutoff)' = {r \in {r \in DOMAIN X!TableOf(c)' : X!TableOf(c)'[r] # None} : X!TableOf(c)'[r].born < cutoff}
  BY DEF X!Candidates, X!Stored
<1>3. X!Candidates(c, cutoff)' = X!Candidates(c, cutoff)
  BY <1>1, <1>2 DEF X!Candidates
<1>4. \A r, q \in X!Candidates(c, cutoff) : X!Before(c, q, r)' <=> X!Before(c, q, r)
  BY <1>1 DEF X!Candidates, X!Before
<1>5. \A r \in X!Candidates(c, cutoff) :
        {q \in X!Candidates(c, cutoff) : X!Before(c, q, r)'} = {q \in X!Candidates(c, cutoff) : X!Before(c, q, r)}
  BY <1>4
<1>6. X!Selected(c, cutoff)' = X!Selected(c, cutoff)
  BY <1>3, <1>5 DEF X!Selected
<1>7. \A b : X!RowsOf(c, b)' = X!RowsOf(c, b)
  BY DEF X!RowsOf
<1> QED
  BY <1>6, <1>7 DEF X!CountOf

------------------------------------------------------------------------------
(* The end of the previews, and the previews without one of them. *)
LEMMA EndIsKept ==
  ASSUME NEW Rec, NEW qs \in Seq(Rec), NEW n \in Nat,
         NEW ps, ps = SubSeq(qs, n + 1, Len(qs))
  PROVE  /\ ps \in Seq(Rec)
         /\ \A k \in 1..Len(ps) : k + n \in 1..Len(qs) /\ ps[k] = qs[k + n]
<1>1. Len(qs) \in Nat
  BY LenProperties
<1> QED
  BY <1>1, SubSeqProperties

LEMMA RestIsKept ==
  ASSUME NEW Rec, xPreviews \in Seq(Rec), NEW n \in 1..Len(xPreviews)
  PROVE  /\ X!Without(n) \in Seq(Rec)
         /\ Len(X!Without(n)) = Len(xPreviews) - 1
         /\ \A k \in 1..Len(X!Without(n)) :
              IF k < n THEN X!Without(n)[k] = xPreviews[k] ELSE k + 1 \in 1..Len(xPreviews) /\ X!Without(n)[k] = xPreviews[k + 1]
<1> DEFINE a == SubSeq(xPreviews, 1, n - 1)
           b == SubSeq(xPreviews, n + 1, Len(xPreviews))
<1>1. Len(xPreviews) \in Nat
  BY LenProperties
<1>2. a \in Seq(Rec) /\ Len(a) = n - 1 /\ \A k \in 1..(n - 1) : a[k] = xPreviews[k]
  BY <1>1, SubSeqProperties
<1>3. b \in Seq(Rec) /\ Len(b) = Len(xPreviews) - n /\ \A k \in 1..(Len(xPreviews) - n) : b[k] = xPreviews[n + k]
  BY <1>1, SubSeqProperties
<1> HIDE DEF a, b
<1>4. X!Without(n) \in Seq(Rec) /\ Len(X!Without(n)) = Len(a) + Len(b)
      /\ \A k \in 1..(Len(a) + Len(b)) : X!Without(n)[k] = IF k <= Len(a) THEN a[k] ELSE b[k - Len(a)]
  BY <1>2, <1>3, ConcatProperties DEF X!Without, a, b
<1>a. Len(X!Without(n)) = Len(xPreviews) - 1
  <2>1. n \in Nat
    BY <1>1
  <2> QED
    BY <1>1, <1>2, <1>3, <1>4, <2>1
<1>5. ASSUME NEW k \in 1..Len(X!Without(n))
      PROVE  IF k < n THEN X!Without(n)[k] = xPreviews[k] ELSE k + 1 \in 1..Len(xPreviews) /\ X!Without(n)[k] = xPreviews[k + 1]
  <2>1. CASE k < n
    BY <1>1, <1>2, <1>3, <1>4, <2>1
  <2>2. CASE k >= n
    <3>0. k \in Nat /\ n \in Nat /\ k <= Len(xPreviews) - 1 /\ n >= 1
      BY <1>1, <1>a
    <3>1. k - Len(a) \in 1..(Len(xPreviews) - n) /\ n + (k - Len(a)) = k + 1 /\ ~(k <= Len(a))
      BY <1>1, <1>2, <2>2, <3>0
    <3>2. X!Without(n)[k] = b[k - Len(a)]
      BY <1>2, <1>3, <1>4, <3>1
    <3>3. b[k - Len(a)] = xPreviews[k + 1]
      BY <1>3, <3>1
    <3> QED
      BY <1>1, <2>2, <3>0, <3>2, <3>3
  <2> QED
    BY <1>1, <2>1, <2>2
<1> QED
  BY <1>4, <1>a, <1>5


LEMMA NewPreviews ==
  ASSUME ArchiveAssumption, ArchiveIInv, NEW c \in XCategories, NEW t \in XTokens, X!Preview(c, t)
  PROVE  /\ xPreviews' \in Seq(X!PreviewRow)
         /\ Len(xPreviews') <= XMaxPreviews
         /\ \A k \in 1..Len(xPreviews') :
              xPreviews'[k].token = t \/ \E l \in 1..Len(xPreviews) : xPreviews'[k] = xPreviews[l]
         /\ \A k, l \in 1..Len(xPreviews') : xPreviews'[k].token = xPreviews'[l].token => k = l
<1> DEFINE cutoff == xNow - xPolicy[c]
           new == [token |-> t, category |-> c, cutoff |-> cutoff, count |-> X!CountOf(c, cutoff),
                   until |-> xNow + XTokenTTL]
           all == Append(xPreviews, new)
           young == X!Unexpired(all)
<1>1. xNow \in Nat /\ xPolicy[c] \in Nat
  BY DEF X!Preview, ArchiveIInv, X!ArchiveInv, X!TypeOK, ArchiveAssumption
<1>2. cutoff \in Int /\ xNow + XTokenTTL \in Nat
  BY <1>1 DEF ArchiveAssumption
<1>3. new \in X!PreviewRow
  BY <1>2, BatchesAreFinite DEF ArchiveIInv, X!ArchiveInv, X!PreviewRow
<1>4. xPreviews \in Seq(X!PreviewRow) /\ Len(xPreviews) \in Nat
  BY LenProperties DEF ArchiveIInv, X!ArchiveInv, X!TypeOK, X!PreviewRow
<1> HIDE DEF new
<1>5. /\ all \in Seq(X!PreviewRow) /\ Len(all) = Len(xPreviews) + 1 /\ all[Len(all)] = new
      /\ \A k \in 1..Len(xPreviews) : all[k] = xPreviews[k]
  BY <1>3, <1>4, AppendProperties
<1>6. new.token = t /\ \A k \in 1..Len(xPreviews) : xPreviews[k].token # t
  BY DEF new, X!Preview
<1> HIDE DEF all
<1>7. \A k, l \in 1..Len(all) : all[k].token = all[l].token => k = l
  BY <1>4, <1>5, <1>6 DEF ArchiveIInv, TokensUnspent
<1>8. \A k \in 1..Len(all) : all[k].token = t \/ \E l \in 1..Len(xPreviews) : all[k] = xPreviews[l]
  BY <1>4, <1>5, <1>6
<1>9. PICK n \in Nat : young = SubSeq(all, n + 1, Len(all))
  <2> DEFINE gone == {k \in 1..Len(all) : X!Expired(all[k])}
  <2>1. IsFiniteSet(gone)
    <3>1. IsFiniteSet(1..Len(all)) /\ gone \subseteq 1..Len(all)
      BY <1>4, <1>5, FS_Interval
    <3> QED
      BY <3>1, FS_Subset
  <2>2. Cardinality(gone) \in Nat
    BY <2>1, FS_CardinalityType, XCardinality
  <2> QED
    BY <2>2, XCardinality DEF X!Unexpired
<1> HIDE DEF young
<1>10. young \in Seq(X!PreviewRow) /\ \A k \in 1..Len(young) : k + n \in 1..Len(all) /\ young[k] = all[k + n]
  BY <1>5, <1>9, EndIsKept
<1>11. Len(young) \in Nat
  BY <1>10, LenProperties
<1>12. PICK m \in Nat : /\ xPreviews' = SubSeq(young, m + 1, Len(young))
                        /\ Len(young) - m <= XMaxPreviews
                        /\ m <= Len(young)
  <2>1. xPreviews' = X!Newest(young)
    BY DEF X!Preview, young, all, new
  <2>2. CASE Len(young) > XMaxPreviews
    <3> DEFINE m == Len(young) - XMaxPreviews
    <3>0. XMaxPreviews \in Nat
      BY DEF ArchiveAssumption
    <3>1. m \in Nat /\ Len(young) - m = XMaxPreviews /\ m <= Len(young)
      BY <1>11, <2>2, <3>0
    <3>2. xPreviews' = SubSeq(young, m + 1, Len(young))
      BY <2>1, <2>2 DEF X!Newest
    <3> HIDE DEF m
    <3> QED
      BY <3>0, <3>1, <3>2
  <2>3. CASE Len(young) <= XMaxPreviews
    <3>1. young = SubSeq(young, 1, Len(young))
      BY <1>10, SubSeqFull
    <3>2. xPreviews' = SubSeq(young, 0 + 1, Len(young))
      BY <1>11, <2>1, <2>3, <3>1 DEF X!Newest, ArchiveAssumption
    <3> QED
      BY <1>11, <2>3, <3>2
  <2> QED
    BY <1>11, <2>2, <2>3 DEF ArchiveAssumption
<1>13. /\ xPreviews' \in Seq(X!PreviewRow)
       /\ \A k \in 1..Len(xPreviews') : k + m \in 1..Len(young) /\ xPreviews'[k] = young[k + m]
  BY <1>10, <1>12, EndIsKept
<1>14. Len(xPreviews') = Len(young) - m
  <2>1. \A i \in m + 1..Len(young) : young[i] \in X!PreviewRow
    BY <1>10, <1>11, ElementOfSeq
  <2>2. Len(xPreviews') = IF m + 1 <= Len(young) THEN Len(young) - (m + 1) + 1 ELSE 0
    BY <1>11, <1>12, <2>1, SubSeqProperties
  <2> QED
    BY <1>11, <1>12, <2>2
<1>15. \A k \in 1..Len(xPreviews') : (k + m) + n \in 1..Len(all) /\ xPreviews'[k] = all[(k + m) + n]
  BY <1>10, <1>13
<1>16. \A k, l \in 1..Len(xPreviews') : xPreviews'[k].token = xPreviews'[l].token => k = l
  <2> SUFFICES ASSUME NEW k \in 1..Len(xPreviews'), NEW l \in 1..Len(xPreviews'),
                      xPreviews'[k].token = xPreviews'[l].token
               PROVE  k = l
    OBVIOUS
  <2>1. (k + m) + n = (l + m) + n
    BY <1>7, <1>15
  <2> QED
    BY <2>1
<1>17. \A k \in 1..Len(xPreviews') :
         xPreviews'[k].token = t \/ \E l \in 1..Len(xPreviews) : xPreviews'[k] = xPreviews[l]
  BY <1>8, <1>15
<1>18. Len(xPreviews') <= XMaxPreviews
  BY <1>12, <1>14
<1> QED
  BY <1>13, <1>16, <1>17, <1>18

------------------------------------------------------------------------------
LEMMA TypeKept ==
  ASSUME ArchiveAssumption, ArchiveIInv, [X!Next]_X!vars
  PROVE  X!TypeOK'
<1> USE DEF ArchiveIInv, X!ArchiveInv, X!TypeOK, X!jobVars, X!contactVars, X!purgeVars
<1>1. ASSUME NEW j \in XJobs, NEW forCampaign \in BOOLEAN, X!Schedule(j, forCampaign) PROVE X!TypeOK'
  BY <1>1, PurgeStates DEF X!Schedule, X!Disturb, X!JobRow
<1>2. ASSUME NEW j \in XJobs, X!Claim(j) PROVE X!TypeOK'
  BY <1>2, PurgeStates DEF X!Claim, X!Disturb, X!JobRow
<1>3. ASSUME NEW j \in XJobs, X!Deliver(j) PROVE X!TypeOK'
  <2>1. xJob[j] # None => [xJob[j] EXCEPT !.state = "submitted"] \in X!JobRow
    <3>1. xJob[j] \in X!JobRow \cup {None}
      OBVIOUS
    <3> QED
      BY <3>1 DEF X!JobRow
  <2> QED
    BY <1>3, <2>1 DEF X!Deliver
<1>4. ASSUME NEW j \in XJobs, X!Remove(j) PROVE X!TypeOK'
  BY <1>4, PurgeStates DEF X!Remove, X!Disturb
<1>5. ASSUME NEW p \in XPeople, X!FindContact(p) \/ X!SaveContact(p) \/ \E consent \in X!Consents : X!Decide(p, consent)
      PROVE  X!TypeOK'
  <2>1. CASE X!FindContact(p)
    BY <2>1 DEF X!FindContact, X!ContactRow, X!Consents
  <2>2. CASE X!SaveContact(p)
    <3>1. xAsked[p] \in X!Consents
      BY <2>2 DEF X!SaveContact
    <3>2. [consent |-> xAsked[p], born |-> xNow] \in X!ContactRow
      BY <3>1 DEF X!ContactRow
    <3> QED
      BY <2>2, <3>2, PurgeStates DEF X!SaveContact, X!Disturb
  <2>3. ASSUME NEW consent \in X!Consents, X!Decide(p, consent) PROVE X!TypeOK'
    <3>1. [xContact[p] EXCEPT !.consent = consent] \in X!ContactRow
      <4>1. xContact[p] \in X!ContactRow
        BY <2>3 DEF X!Decide
      <4> QED
        BY <4>1 DEF X!ContactRow
    <3> QED
      BY <2>3, <3>1 DEF X!Decide
  <2> QED
    BY <1>5, <2>1, <2>2, <2>3
<1>6. ASSUME X!Tick PROVE X!TypeOK'
  BY <1>6 DEF X!Tick, ArchiveAssumption
<1>7. ASSUME NEW c \in XCategories, NEW days \in 1..XMaxDays, X!UpdatePolicy(c, days) PROVE X!TypeOK'
  BY <1>7 DEF X!UpdatePolicy
<1>8. ASSUME NEW c \in XCategories, NEW t \in XTokens, X!Preview(c, t) PROVE X!TypeOK'
  <2>1. xPreviews' \in Seq(X!PreviewRow)
    BY <1>8, NewPreviews
  <2> QED
    BY <1>8, <2>1 DEF X!Preview
<1>9. ASSUME NEW k \in 1..Len(xPreviews), NEW confirmed \in BOOLEAN, X!PurgeCount(k, confirmed)
      PROVE  X!TypeOK'
  <2>1. xPreviews[k] \in X!PreviewRow
    BY ElementOfSeq
  <2>2. xPreviews' \in Seq(X!PreviewRow)
    BY <1>9, RestIsKept DEF X!PurgeCount
  <2>3. xPurge' \in X!PurgeState
    <3>1. xPreviews[k].category \in XCategories /\ xPreviews[k].cutoff \in Int /\ xPreviews[k].count \in Nat
      BY <2>1 DEF X!PreviewRow
    <3> QED
      BY <1>9, <3>1, PurgeStates DEF X!PurgeCount
  <2>4. /\ xPreviews[k].token \in XTokens /\ xBegun' = [xBegun EXCEPT ![xPreviews[k].token] = @ + 1]
        /\ UNCHANGED <<X!jobVars, X!contactVars, xPolicy, xBackup, xNow>>
    BY <1>9, <2>1 DEF X!PurgeCount, X!PreviewRow
  <2>5. xBegun' \in [XTokens -> Nat]
    BY <2>4
  <2> QED
    BY <2>2, <2>3, <2>4, <2>5
<1>10. ASSUME X!PurgeSelect PROVE X!TypeOK'
  <2>1. X!Selected(xPurge.category, xPurge.cutoff) \subseteq XJobs \cup XPeople
    BY <1>10, BatchesAreFinite DEF X!PurgeSelect, PurgeCounts, X!PurgeState
  <2> QED
    BY <1>10, <2>1, PurgeStates DEF X!PurgeSelect
<1>11. ASSUME X!PurgeAttempts PROVE X!TypeOK'
  BY <1>11, PurgeStates DEF X!PurgeAttempts
<1>12. ASSUME X!PurgeJobs PROVE X!TypeOK'
  <2> DEFINE rows == xPurge.picked \cap X!Stored(xJob)
  <2>1. rows \in SUBSET (XJobs \cup XPeople) /\ rows \subseteq XJobs /\ xPurge.detached \subseteq XJobs
    BY DEF X!PurgeState, X!Stored
  <2>2. Cardinality(xPurge.detached) + Cardinality(rows) \in Nat
    <3>1. IsFiniteSet(rows) /\ IsFiniteSet(xPurge.detached)
      BY <2>1, FS_Subset DEF ArchiveAssumption
    <3>2. Cardinality(rows) \in Nat /\ Cardinality(xPurge.detached) \in Nat
      BY <3>1, FS_CardinalityType, XCardinality
    <3> QED
      BY <3>2
  <2> HIDE DEF rows
  <2>3. /\ xPurge' = [xPurge EXCEPT !.step = "idle", !.picked = rows, !.detached = {},
                                    !.result = Cardinality(xPurge.detached) + Cardinality(rows)]
        /\ xJob' = [j \in XJobs |-> IF j \in rows THEN None ELSE xJob[j]]
        /\ xAttempted' = xAttempted \ xPurge.detached /\ xDeleted' = xDeleted \cup rows
        /\ UNCHANGED <<xReferred, xSending, xSent, xRevived, X!contactVars, xPolicy, xPreviews, xBegun, xBackup, xNow>>
    BY <1>12, XCardinality DEF X!PurgeJobs, rows, X!Ended
  <2> QED
    BY <2>1, <2>2, <2>3, PurgeStates
<1>13. ASSUME X!PurgeContacts PROVE X!TypeOK'
  <2> DEFINE rows == xPurge.picked \cap X!Stored(xContact)
  <2>1. rows \in SUBSET (XJobs \cup XPeople) /\ rows \subseteq XPeople
    BY DEF X!PurgeState, X!Stored
  <2>2. Cardinality(rows) \in Nat
    BY <2>1, FS_Subset, FS_CardinalityType, XCardinality DEF ArchiveAssumption
  <2> HIDE DEF rows
  <2>3. /\ xPurge' = [xPurge EXCEPT !.step = "idle", !.picked = rows, !.detached = {},
                                    !.result = Cardinality(rows)]
        /\ xContact' = [p \in XPeople |-> IF p \in rows THEN None ELSE xContact[p]]
        /\ xReverted' = xReverted \ rows
        /\ xOvertaken' = (xOvertaken \ rows) \cup {p \in rows : xAsked[p] = "granted" /\ xDecided[p] # "granted"}
        /\ UNCHANGED <<X!jobVars, xAsked, xDecided, xPolicy, xPreviews, xBegun, xBackup, xNow>>
    BY <1>13, XCardinality DEF X!PurgeContacts, rows, X!Ended
  <2> QED
    BY <2>1, <2>2, <2>3, PurgeStates
<1>14. ASSUME X!PurgeFails PROVE X!TypeOK'
  BY <1>14, PurgeStates DEF X!PurgeFails
<1>15. ASSUME X!Restart PROVE X!TypeOK'
  <2>1. X!NoPurge \in X!PurgeState
    BY PurgeStates
  <2>2. xPreviews' \in Seq(X!PreviewRow)
    BY <1>15 DEF X!Restart
  <2> QED
    BY <1>15, <2>1, <2>2 DEF X!Restart
<1>16. ASSUME X!Export PROVE X!TypeOK'
  BY <1>16 DEF X!Export, X!Document
<1>17. ASSUME X!Restore PROVE X!TypeOK'
  <2>1. xBackup \in X!Document
    BY <1>17 DEF X!Restore
  <2>2. PICK jobsBack \in SUBSET XJobs, peopleBack \in SUBSET XPeople :
          /\ xJob' = X!Merge(xJob, xBackup.jobs, jobsBack)
          /\ xContact' = X!Merge(xContact, xBackup.contacts, peopleBack)
          /\ xRevived' \subseteq xRevived \cup jobsBack /\ xReverted' \subseteq xReverted \cup peopleBack
    BY <1>17 DEF X!Restore, X!Added
  <2>3. xJob' \in [XJobs -> X!JobRow \cup {None}] /\ xContact' \in [XPeople -> X!ContactRow \cup {None}]
    BY <2>1, <2>2 DEF X!Merge, X!Document
  <2> QED
    BY <1>17, <2>1, <2>2, <2>3, PurgeStates DEF X!Restore, X!Disturb, X!Document
<1>18. ASSUME UNCHANGED X!vars PROVE X!TypeOK'
  BY <1>18 DEF X!vars
<1> QED
  BY <1>1, <1>2, <1>3, <1>4, <1>5, <1>6, <1>7, <1>8, <1>9, <1>10, <1>11, <1>12, <1>13, <1>14, <1>15,
     <1>16, <1>17, <1>18
  DEF X!Next

(* References, sends and consent. *)
LEMMA RowsKept ==
  ASSUME ArchiveAssumption, ArchiveIInv, [X!Next]_X!vars
  PROVE  /\ X!NothingDangles' /\ X!SentAgainOnlyWhenLost' /\ X!ConsentIsGiven'
         /\ SendsOnce' /\ KeysDistinct' /\ LookupsKnown'
<1> DEFINE Goal == /\ X!NothingDangles /\ X!SentAgainOnlyWhenLost /\ X!ConsentIsGiven
                   /\ SendsOnce /\ KeysDistinct /\ LookupsKnown
<1> USE DEF ArchiveIInv, X!ArchiveInv, X!TypeOK, X!NothingDangles, X!SentAgainOnlyWhenLost, X!ConsentIsGiven,
        SendsOnce, ArchiveUnsent, KeysDistinct, Distinct, LookupsKnown, X!Stored,
        X!jobVars, X!contactVars, X!purgeVars
<1>a. /\ DOMAIN xJob = XJobs /\ DOMAIN xContact = XPeople /\ None \notin X!JobRow /\ None \notin X!ContactRow
      /\ \A row \in X!JobRow : row.state \in {"scheduled", "attempting", "submitted"}
  BY DEF ArchiveAssumption, X!JobRow
<1>1. ASSUME NEW j \in XJobs, NEW forCampaign \in BOOLEAN, X!Schedule(j, forCampaign) PROVE Goal'
  <2>1. [state |-> "scheduled", born |-> xNow] \in X!JobRow
    BY DEF X!JobRow
  <2>2. \A i \in XJobs : XKeyOf[i] = XKeyOf[j] => xJob[i] = None
    BY <1>1, <1>a DEF X!Schedule, X!KeyTaken
  <2>3. /\ xJob'[j] # None /\ \A i \in XJobs : i # j => xJob'[i] = xJob[i]
        /\ xSent[j] = 0 /\ j \notin xSending
        /\ UNCHANGED <<xAttempted, xSending, xSent, xRevived, xDeleted, X!contactVars, xBackup>>
    BY <1>1, <1>a, <2>1 DEF X!Schedule
  <2>4. X!NothingDangles'
    BY <1>1, <1>a, <2>1 DEF X!Schedule
  <2>5. X!SentAgainOnlyWhenLost' /\ X!ConsentIsGiven' /\ LookupsKnown'
    BY <2>3
  <2>6. SendsOnce'
    BY <2>3
  <2>7. KeysDistinct'
    BY <2>2, <2>3
  <2> QED
    BY <2>4, <2>5, <2>6, <2>7
<1>2. ASSUME NEW j \in XJobs, X!Claim(j) PROVE Goal'
  <2>1. /\ [xJob[j] EXCEPT !.state = "attempting"] \in X!JobRow
        /\ [xJob[j] EXCEPT !.state = "attempting"].state = "attempting"
    <3>1. xJob[j] \in X!JobRow
      BY <1>2 DEF X!Claim
    <3> QED
      BY <3>1 DEF X!JobRow
  <2>2. /\ xJob[j] # None /\ xJob'[j] # None /\ xJob'[j].state = "attempting" /\ xJob[j].state = "scheduled"
        /\ \A i \in XJobs : i # j => xJob'[i] = xJob[i]
    BY <1>2, <1>a, <2>1 DEF X!Claim
  <2>3. X!NothingDangles' /\ X!SentAgainOnlyWhenLost' /\ X!ConsentIsGiven' /\ LookupsKnown'
    BY <1>2, <1>a, <2>2 DEF X!Claim
  <2>4. SendsOnce'
    BY <1>2, <1>a, <2>2 DEF X!Claim
  <2>5. KeysDistinct'
    BY <1>2, <1>a, <2>2 DEF X!Claim
  <2> QED
    BY <2>3, <2>4, <2>5
<1>3. ASSUME NEW j \in XJobs, X!Deliver(j) PROVE Goal'
  <2> USE DEF X!Document
  <2>1. xJob[j] # None => /\ [xJob[j] EXCEPT !.state = "submitted"] \in X!JobRow
                          /\ [xJob[j] EXCEPT !.state = "submitted"].state = "submitted"
    <3>1. xJob[j] \in X!JobRow \cup {None}
      OBVIOUS
    <3> QED
      BY <3>1 DEF X!JobRow
  <2>2. \A i \in XJobs : /\ xJob'[i] = None <=> xJob[i] = None
                         /\ i # j => xJob'[i] = xJob[i]
                         /\ i = j /\ xJob[i] # None => xJob'[i].state = "submitted" \/ xJob'[i] = xJob[i]
    BY <1>3, <1>a, <2>1 DEF X!Deliver
  <2>3. /\ j \in xSending /\ xSending' = xSending \ {j}
        /\ xSent'[j] = xSent[j] + 1 /\ \A i \in XJobs : i # j => xSent'[i] = xSent[i]
        /\ UNCHANGED <<xAttempted, xReferred, xRevived, xDeleted, X!contactVars, xBackup>>
    BY <1>3 DEF X!Deliver
  <2>4. X!SentAgainOnlyWhenLost'
    <3>0. \A i \in XJobs : xSent[i] \in Nat
      OBVIOUS
    <3>1. \A i \in XJobs : xSent'[i] > 1 => i \in xRevived'
      <4>1. xSent'[j] > 1 => j \in xRevived
        BY <2>3, <3>0
      <4> QED
        BY <2>3, <4>1
    <3>2. ASSUME NEW i \in XJobs, i # j, XKeyOf[i] = XKeyOf[j], xSent[i] > 0
          PROVE  i \in xDeleted \/ j \in xDeleted
      <4>1. i \in xDeleted \/ xJob[i] # None
        BY <3>0, <3>2
      <4>2. j \in xDeleted \/ xJob[j] # None
        BY <2>3
      <4> QED
        BY <3>2, <4>1, <4>2
    <3>3. ASSUME NEW i \in XJobs, NEW k \in XJobs, i # k, XKeyOf[i] = XKeyOf[k], xSent'[i] > 0, xSent'[k] > 0
          PROVE  i \in xDeleted' \/ k \in xDeleted'
      <4>1. CASE i = j
        BY <2>3, <3>2, <3>3, <4>1
      <4>2. CASE k = j
        BY <2>3, <3>2, <3>3, <4>2
      <4>3. CASE i # j /\ k # j
        BY <2>3, <3>3, <4>3
      <4> QED
        BY <4>1, <4>2, <4>3
    <3> QED
      BY <3>1, <3>3
  <2>5. X!NothingDangles' /\ X!ConsentIsGiven' /\ LookupsKnown' /\ KeysDistinct'
    BY <1>a, <1>3, <2>2, <2>3 DEF X!Deliver
  <2>6. SendsOnce'
    <3>1. ASSUME NEW i \in XJobs \ xRevived
          PROVE  /\ ArchiveUnsent(xJob, xSent, i)' /\ (i \in xSending' => xSent'[i] = 0)
                 /\ xJob'[i] # None /\ xJob'[i].state = "scheduled" => i \notin xSending'
      BY <2>2, <2>3
    <3>2. xBackup # None => \A i \in XJobs : xBackup.sent[i] <= xSent'[i]
      <4>1. xBackup # None => xBackup.sent \in [XJobs -> Nat]
        OBVIOUS
      <4>2. xSent[j] \in Nat
        OBVIOUS
      <4>3. ASSUME xBackup # None, NEW i \in XJobs PROVE xBackup.sent[i] <= xSent'[i]
        <5>1. xBackup.sent[i] \in Nat /\ xSent[i] \in Nat /\ xBackup.sent[i] <= xSent[i]
          BY <4>1, <4>3
        <5>2. CASE i = j
          BY <2>3, <5>1, <5>2
        <5>3. CASE i # j
          BY <2>3, <5>1, <5>3
        <5> QED
          BY <5>2, <5>3
      <4> QED
        BY <4>3
    <3> QED
      BY <2>2, <2>3, <3>1, <3>2
  <2> QED
    BY <2>4, <2>5, <2>6
<1>4. ASSUME NEW j \in XJobs, X!Remove(j) PROVE Goal'
  <2>1. /\ xJob'[j] = None /\ \A i \in XJobs : i # j => xJob'[i] = xJob[i]
        /\ j \in xDeleted' /\ xDeleted \subseteq xDeleted'
        /\ xAttempted' = xAttempted \ {j} /\ xReferred' = xReferred \ {j}
        /\ UNCHANGED <<xSending, xSent, xRevived, X!contactVars, xBackup>>
    BY <1>4, <1>a DEF X!Remove
  <2>2. X!NothingDangles'
    BY <1>4, <1>a, <2>1 DEF X!Remove
  <2>3. X!SentAgainOnlyWhenLost' /\ X!ConsentIsGiven' /\ LookupsKnown'
    BY <2>1
  <2>4. SendsOnce'
    <3>1. \A i \in XJobs : xJob'[i] # None => xJob'[i] = xJob[i]
      BY <2>1
    <3>2. \A i \in XJobs : xJob'[i] = None /\ i \notin xDeleted' => xJob[i] = None /\ i \notin xDeleted
      BY <2>1
    <3>3. \A i \in XJobs \ xRevived' :
            /\ ArchiveUnsent(xJob, xSent, i)'
            /\ i \in xSending' => xSent'[i] = 0
            /\ xJob'[i] # None /\ xJob'[i].state = "scheduled" => i \notin xSending'
      BY <2>1, <3>1
    <3> QED
      BY <2>1, <3>2, <3>3
  <2>5. KeysDistinct'
    BY <2>1
  <2> QED
    BY <2>2, <2>3, <2>4, <2>5
<1>5. ASSUME NEW p \in XPeople, X!FindContact(p) \/ X!SaveContact(p) \/ \E consent \in X!Consents : X!Decide(p, consent)
      PROVE  Goal'
  <2>0. UNCHANGED X!jobVars /\ UNCHANGED xBackup
    BY <1>5 DEF X!FindContact, X!SaveContact, X!Decide
  <2>1. CASE X!FindContact(p)
    BY <2>0, <2>1 DEF X!FindContact
  <2>2. CASE X!SaveContact(p)
    <3>1. /\ \A q \in XPeople : q # p => xContact'[q] = xContact[q] /\ xAsked'[q] = xAsked[q]
          /\ xAsked'[p] = None /\ xAsked[p] \in X!Consents
          /\ xContact'[p] = IF xContact[p] # None THEN xContact[p] ELSE [consent |-> xAsked[p], born |-> xNow]
          /\ UNCHANGED <<xDecided, xReverted, xOvertaken>>
      BY <1>a, <2>2 DEF X!SaveContact
    <3>2. [consent |-> xAsked[p], born |-> xNow] \in X!ContactRow
      BY <3>1 DEF X!ContactRow
    <3>3. LookupsKnown'
      BY <3>1, <3>2, <1>a DEF X!Consents, ArchiveAssumption
    <3>4. X!ConsentIsGiven'
      BY <3>1
    <3> QED
      BY <2>0, <3>3, <3>4
  <2>3. ASSUME NEW consent \in X!Consents, X!Decide(p, consent) PROVE Goal'
    <3>1. /\ xContact[p] # None /\ xContact[p] \in X!ContactRow
          /\ xContact' = [xContact EXCEPT ![p].consent = consent]
          /\ xDecided' = [xDecided EXCEPT ![p] = consent]
          /\ xReverted' = xReverted \ {p} /\ xOvertaken' = xOvertaken \ {p} /\ xAsked' = xAsked
      BY <2>3 DEF X!Decide
    <3>2. /\ xContact'[p] = [xContact[p] EXCEPT !.consent = consent] /\ xContact'[p].consent = consent
          /\ xContact'[p] \in X!ContactRow
          /\ \A q \in XPeople : q # p => xContact'[q] = xContact[q] /\ xDecided'[q] = xDecided[q]
          /\ xDecided'[p] = consent
      BY <3>1, <1>a DEF X!ContactRow
    <3>3. LookupsKnown' /\ X!ConsentIsGiven'
      BY <3>1, <3>2, <1>a
    <3> QED
      BY <2>0, <3>3
  <2> QED
    BY <1>5, <2>1, <2>2, <2>3
<1>6. ASSUME UNCHANGED <<X!jobVars, X!contactVars, xBackup>> PROVE Goal'
  BY <1>6
<1>7. ASSUME X!PurgeJobs PROVE Goal'
  <2> DEFINE rows == xPurge.picked \cap X!Stored(xJob)
  <2>1. /\ rows \subseteq XJobs
        /\ xJob' = [j \in XJobs |-> IF j \in rows THEN None ELSE xJob[j]]
        /\ xAttempted' = xAttempted \ xPurge.detached /\ rows \cap xAttempted \subseteq xPurge.detached
        /\ rows \cap xReferred = {} /\ xDeleted' = xDeleted \cup rows
        /\ UNCHANGED <<xReferred, xSending, xSent, xRevived, X!contactVars, xBackup>>
    BY <1>7, <1>a DEF X!PurgeJobs
  <2> HIDE DEF rows
  <2>2. \A j \in XJobs : xJob'[j] = IF j \in rows THEN None ELSE xJob[j]
    BY <2>1
  <2>3. X!NothingDangles'
    BY <1>a, <2>1, <2>2
  <2> QED
    BY <2>1, <2>2, <2>3
<1>8. ASSUME X!PurgeContacts PROVE Goal'
  <2> DEFINE rows == xPurge.picked \cap X!Stored(xContact)
  <2>1. /\ xContact' = [p \in XPeople |-> IF p \in rows THEN None ELSE xContact[p]]
        /\ xReverted' = xReverted \ rows
        /\ xOvertaken' = (xOvertaken \ rows) \cup {p \in rows : xAsked[p] = "granted" /\ xDecided[p] # "granted"}
        /\ UNCHANGED <<X!jobVars, xAsked, xDecided, xBackup>>
    BY <1>8 DEF X!PurgeContacts
  <2> HIDE DEF rows
  <2>2. \A p \in XPeople : xContact'[p] = IF p \in rows THEN None ELSE xContact[p]
    BY <2>1
  <2>3. X!ConsentIsGiven'
    BY <2>1, <2>2
  <2>4. LookupsKnown'
    BY <2>1, <2>2
  <2>5. X!NothingDangles' /\ X!SentAgainOnlyWhenLost' /\ SendsOnce' /\ KeysDistinct'
    BY <2>1
  <2> QED
    BY <2>3, <2>4, <2>5
<1>9. ASSUME X!Restart PROVE Goal'
  <2>1. \A p \in XPeople : xAsked'[p] # "granted"
    <3>1. None # "granted"
      BY DEF ArchiveAssumption, X!Consents
    <3> QED
      BY <1>9, <3>1 DEF X!Restart
  <2> QED
    BY <1>9, <2>1 DEF X!Restart
<1>10. ASSUME X!Export PROVE Goal'
  BY <1>10 DEF X!Export, X!Document
<1>11. ASSUME X!Restore PROVE Goal'
  <2>0. xBackup # None /\ xBackup \in X!Document
    BY <1>11 DEF X!Restore
  <2> USE DEF X!Document
  <2> DEFINE jobsBack == {j \in XJobs : xJob[j] = None /\ xBackup.jobs[j] # None /\ ~X!KeyTaken(j)}
             peopleBack == {p \in XPeople : xContact[p] = None /\ xBackup.contacts[p] # None}
  <2>1. /\ xJob' = [j \in XJobs |-> IF j \in jobsBack THEN xBackup.jobs[j] ELSE xJob[j]]
        /\ xContact' = [p \in XPeople |-> IF p \in peopleBack THEN xBackup.contacts[p] ELSE xContact[p]]
        /\ xAttempted' = xAttempted \cup xBackup.attempted
        /\ \A j \in xBackup.attempted : xJob'[j] # None
        /\ UNCHANGED <<xReferred, xSending, xSent, xDeleted, xAsked, xDecided, xOvertaken, xBackup>>
    BY <1>11, <1>a DEF X!Restore, X!Merge, X!Added, X!ReferencesValid
  <2>2. /\ xRevived \subseteq xRevived' /\ xReverted \subseteq xReverted'
        /\ \A j \in jobsBack : xSent[j] > xBackup.sent[j] \/ j \in xSending => j \in xRevived'
        /\ \A p \in peopleBack : xDecided[p] # xBackup.contacts[p].consent => p \in xReverted'
    BY <1>11, <1>a DEF X!Restore, X!Added
  <2>3. /\ \A j \in jobsBack : /\ xJob[j] = None /\ xBackup.jobs[j] # None
                               /\ \A i \in XJobs : XKeyOf[i] = XKeyOf[j] => xJob[i] = None
        /\ \A p \in peopleBack : xContact[p] = None /\ xBackup.contacts[p] # None
        /\ jobsBack \subseteq XJobs
    BY <1>a DEF X!KeyTaken
  <2> HIDE DEF jobsBack, peopleBack
  <2>4. X!NothingDangles'
    BY <2>0, <2>1, <2>3
  <2>5. X!ConsentIsGiven' /\ LookupsKnown'
    BY <2>0, <2>1, <2>2, <2>3
  <2>6. X!SentAgainOnlyWhenLost'
    BY <2>0, <2>1, <2>2
  <2>7. KeysDistinct'
    BY <2>0, <2>1, <2>3
  <2>8. SendsOnce'
    <3>1. ASSUME NEW j \in XJobs, j \notin xRevived'
          PROVE  /\ ArchiveUnsent(xJob, xSent, j)' /\ (j \in xSending => xSent[j] = 0)
                 /\ xJob'[j] # None /\ xJob'[j].state = "scheduled" => j \notin xSending
      <4>1. CASE j \notin jobsBack
        BY <2>0, <2>1, <2>2, <3>1, <4>1
      <4>2. CASE j \in jobsBack
        <5>1. xSent[j] <= xBackup.sent[j] /\ j \notin xSending /\ xSent[j] >= xBackup.sent[j]
          BY <2>0, <2>1, <2>2, <3>1, <4>2
        <5>2. xSent[j] = xBackup.sent[j]
          BY <2>0, <5>1
        <5> QED
          BY <2>0, <2>1, <2>2, <3>1, <4>2, <5>1, <5>2
      <4> QED
        BY <4>1, <4>2
    <3>2. ASSUME NEW j \in XJobs
          PROVE  /\ xBackup.sent[j] <= xSent[j]
                 /\ j \notin xRevived' => ArchiveUnsent(xBackup.jobs, xBackup.sent, j)
      BY <2>0, <2>1, <2>2
    <3>3. ASSUME NEW j \in XJobs, xJob'[j] = None, j \notin xDeleted
          PROVE  xSent[j] = 0 /\ j \notin xSending /\ xBackup.jobs[j] = None
      BY <2>0, <2>1, <2>3, <3>3
    <3> QED
      BY <2>1, <3>1, <3>2, <3>3
  <2> QED
    BY <2>4, <2>5, <2>6, <2>7, <2>8
<1>12. ASSUME \/ X!Tick \/ X!PurgeSelect \/ X!PurgeAttempts \/ X!PurgeFails \/ UNCHANGED X!vars
              \/ \E c \in XCategories, days \in 1..XMaxDays : X!UpdatePolicy(c, days)
              \/ \E c \in XCategories, t \in XTokens : X!Preview(c, t)
              \/ \E k \in 1..Len(xPreviews), confirmed \in BOOLEAN : X!PurgeCount(k, confirmed)
       PROVE  Goal'
  <2>1. UNCHANGED <<X!jobVars, X!contactVars, xBackup>>
    BY <1>12 DEF X!Tick, X!PurgeSelect, X!PurgeAttempts, X!PurgeFails, X!vars, X!UpdatePolicy, X!Preview, X!PurgeCount
  <2> QED
    BY <1>6, <2>1
<1>99. Goal'
  <2> HIDE DEF Goal, ArchiveIInv, X!ArchiveInv, X!TypeOK, X!NothingDangles, X!SentAgainOnlyWhenLost, X!ConsentIsGiven,
           SendsOnce, ArchiveUnsent, KeysDistinct, Distinct, LookupsKnown, X!Stored
  <2> QED
    BY <1>1, <1>2, <1>3, <1>4, <1>5, <1>7, <1>8, <1>9, <1>10, <1>11, <1>12 DEF X!Next
<1> QED
  BY <1>99

(* A purge that others disturb, or whose rows keep their age, goes on. *)
LEMMA PurgeGoesOn ==
  ASSUME ArchiveAssumption, ArchiveIInv, X!TypeOK', xPreviews' = xPreviews, xBegun' = xBegun,
         xPurge.detached \cap xAttempted \subseteq xAttempted',
         \/ X!Disturb
         \/ /\ xPurge' \in {xPurge, X!NoPurge} /\ xAttempted' = xAttempted
            /\ KeepsAge(xJob, xJob', XJobs) /\ KeepsAge(xContact, xContact', XPeople)
  PROVE  X!PurgeAsPreviewed' /\ PurgeCounts' /\ TokensUnspent'
<1> USE DEF ArchiveIInv, X!ArchiveInv
<1>0. xPurge \in X!PurgeState /\ X!NoPurge.step = "idle" /\ X!NoPurge.result = None /\ X!NoPurge.detached = {}
  BY DEF X!TypeOK, X!NoPurge
<1>1. TokensUnspent'
  BY DEF TokensUnspent
<1>2. CASE X!Disturb /\ xPurge.step # "idle"
  <2>1. /\ xPurge'.disturbed = TRUE /\ xPurge'.step = xPurge.step /\ xPurge'.result = xPurge.result
        /\ xPurge'.category = xPurge.category /\ xPurge'.count = xPurge.count
        /\ xPurge'.detached = xPurge.detached /\ xPurge'.picked = xPurge.picked
    BY <1>0, <1>2 DEF X!Disturb, X!PurgeState
  <2>2. xPurge.result = None /\ xPurge.category \in XCategories
    BY <1>2 DEF PurgeCounts
  <2>3. PurgeCounts'
    BY <2>1, <2>2 DEF PurgeCounts
  <2> QED
    BY <1>1, <1>2, <2>1, <2>2, <2>3 DEF X!PurgeAsPreviewed
<1>3. CASE xPurge' \in {xPurge, X!NoPurge} /\ xPurge'.step = "idle"
  BY <1>0, <1>1, <1>3 DEF X!PurgeAsPreviewed, PurgeCounts
<1>4. CASE /\ xPurge' = xPurge /\ xPurge.step # "idle" /\ xAttempted' = xAttempted
           /\ KeepsAge(xJob, xJob', XJobs) /\ KeepsAge(xContact, xContact', XPeople)
  <2>1. xPurge.category \in XCategories /\ xPurge.cutoff \in Int
    BY <1>0, <1>4 DEF PurgeCounts, X!PurgeState
  <2>2. /\ X!Selected(xPurge.category, xPurge.cutoff)' = X!Selected(xPurge.category, xPurge.cutoff)
        /\ X!CountOf(xPurge.category, xPurge.cutoff)' = X!CountOf(xPurge.category, xPurge.cutoff)
        /\ X!RowsOf(xPurge.category, xPurge.picked)' = X!RowsOf(xPurge.category, xPurge.picked)
    BY <1>4, <2>1, SameBatch
  <2>3. AsCounted' <=> AsCounted
    BY <1>4, <2>2 DEF AsCounted
  <2> QED
    BY <1>1, <1>4, <2>2, <2>3 DEF X!PurgeAsPreviewed, PurgeCounts
<1> QED
  BY <1>0, <1>2, <1>3, <1>4 DEF X!Disturb

LEMMA PurgeKept ==
  ASSUME ArchiveAssumption, ArchiveIInv, [X!Next]_X!vars
  PROVE  X!PurgeAsPreviewed' /\ PurgeCounts' /\ TokensUnspent'
<1> DEFINE Goal == X!PurgeAsPreviewed /\ PurgeCounts /\ TokensUnspent
<1> USE DEF X!jobVars, X!contactVars, X!purgeVars
<1>a. X!TypeOK' /\ X!TypeOK
  BY TypeKept DEF ArchiveIInv, X!ArchiveInv
<1>b. /\ xPurge \in X!PurgeState /\ xPreviews \in Seq(X!PreviewRow) /\ xBegun \in [XTokens -> Nat]
      /\ DOMAIN xJob = XJobs /\ DOMAIN xContact = XPeople
  BY <1>a DEF X!TypeOK
<1>c. /\ X!NoPurge.step = "idle" /\ X!NoPurge.result = None /\ X!NoPurge.detached = {}
      /\ Len(xPreviews) \in Nat /\ Len(xPreviews) <= XMaxPreviews /\ XMaxPreviews \in Nat
      /\ \A k \in 1..Len(xPreviews) : xPreviews[k].token \in XTokens
  <2>1. \A k \in 1..Len(xPreviews) : xPreviews[k] \in X!PreviewRow
    BY <1>b, ElementOfSeq
  <2>2. Len(xPreviews) \in Nat
    BY <1>b, LenProperties
  <2> QED
    BY <2>1, <2>2 DEF X!NoPurge, X!PreviewRow, ArchiveIInv, X!ArchiveInv, X!PurgeAsPreviewed, ArchiveAssumption
<1>d. KeepsAge(xJob, xJob, XJobs) /\ KeepsAge(xContact, xContact, XPeople)
  BY DEF KeepsAge
<1>1. ASSUME NEW j \in XJobs, NEW forCampaign \in BOOLEAN, X!Schedule(j, forCampaign) PROVE Goal'
  BY <1>1, <1>a, PurgeGoesOn DEF X!Schedule
<1>2. ASSUME NEW j \in XJobs, X!Claim(j) PROVE Goal'
  BY <1>2, <1>a, PurgeGoesOn DEF X!Claim
<1>3. ASSUME NEW j \in XJobs, X!Deliver(j) PROVE Goal'
  <2>1. xJob[j] \in X!JobRow \cup {None} /\ None \notin X!JobRow
    BY <1>a DEF X!TypeOK, ArchiveAssumption
  <2>2. xJob[j] # None => /\ [xJob[j] EXCEPT !.state = "submitted"] \in X!JobRow
                          /\ [xJob[j] EXCEPT !.state = "submitted"].born = xJob[j].born
    BY <2>1 DEF X!JobRow
  <2>3. KeepsAge(xJob, xJob', XJobs)
    BY <1>3, <1>b, <2>1, <2>2 DEF X!Deliver, KeepsAge
  <2> QED
    BY <1>3, <1>a, <1>d, <2>3, PurgeGoesOn DEF X!Deliver
<1>4. ASSUME NEW j \in XJobs, X!Remove(j) PROVE Goal'
  BY <1>4, <1>a, PurgeGoesOn DEF X!Remove
<1>5. ASSUME UNCHANGED <<xPreviews, xBegun, xPurge, xJob, xAttempted, xContact>> PROVE Goal'
  BY <1>5, <1>a, <1>d, PurgeGoesOn
<1>6. ASSUME NEW c \in XCategories, NEW t \in XTokens, X!Preview(c, t) PROVE Goal'
  <2>1. xBegun[t] = 0 /\ UNCHANGED <<xJob, xAttempted, xContact, xPurge, xBegun>>
    BY <1>6 DEF X!Preview
  <2>2. PurgeCounts'
    <3>1. CASE xPurge.step = "idle"
      BY <2>1, <3>1 DEF ArchiveIInv, PurgeCounts
    <3>2. CASE xPurge.step # "idle"
      <4>1. xPurge.category \in XCategories /\ xPurge.cutoff \in Int
        BY <1>b, <3>2 DEF PurgeCounts, X!PurgeState, ArchiveIInv
      <4>2. /\ X!Selected(xPurge.category, xPurge.cutoff)' = X!Selected(xPurge.category, xPurge.cutoff)
            /\ X!CountOf(xPurge.category, xPurge.cutoff)' = X!CountOf(xPurge.category, xPurge.cutoff)
            /\ X!RowsOf(xPurge.category, xPurge.picked)' = X!RowsOf(xPurge.category, xPurge.picked)
        BY <1>a, <1>d, <2>1, <4>1, SameBatch
      <4>3. AsCounted' <=> AsCounted
        BY <2>1, <4>2 DEF AsCounted
      <4> QED
        BY <2>1, <4>2, <4>3 DEF ArchiveIInv, PurgeCounts
    <3> QED
      BY <3>1, <3>2
  <2>3. /\ Len(xPreviews') <= XMaxPreviews
        /\ \A k \in 1..Len(xPreviews') :
             xPreviews'[k].token = t \/ \E l \in 1..Len(xPreviews) : xPreviews'[k] = xPreviews[l]
        /\ \A k, l \in 1..Len(xPreviews') : xPreviews'[k].token = xPreviews'[l].token => k = l
    BY <1>6, NewPreviews
  <2>4. TokensUnspent'
    BY <2>1, <2>3 DEF ArchiveIInv, TokensUnspent
  <2>5. X!PurgeAsPreviewed'
    BY <2>1, <2>3 DEF ArchiveIInv, X!ArchiveInv, X!PurgeAsPreviewed
  <2> QED
    BY <2>2, <2>4, <2>5
<1>7. ASSUME NEW k \in 1..Len(xPreviews), NEW confirmed \in BOOLEAN, X!PurgeCount(k, confirmed)
      PROVE  Goal'
  <2> DEFINE p == xPreviews[k]
  <2>1. /\ p.token \in XTokens /\ xBegun[p.token] = 0 /\ p.category \in XCategories /\ p.cutoff \in Int
    <3>1. p \in X!PreviewRow
      BY <1>b, ElementOfSeq
    <3> QED
      BY <3>1 DEF X!PreviewRow, ArchiveIInv, TokensUnspent
  <2>2. /\ xBegun' = [xBegun EXCEPT ![p.token] = @ + 1] /\ xPreviews' = X!Without(k)
        /\ UNCHANGED <<xJob, xAttempted, xContact>>
    BY <1>7 DEF X!PurgeCount
  <2>3. xBegun'[p.token] = 1 /\ \A t \in XTokens \ {p.token} : xBegun'[t] = xBegun[t]
    BY <1>b, <2>1, <2>2
  <2>4. /\ Len(xPreviews') = Len(xPreviews) - 1
        /\ \A l \in 1..Len(xPreviews') :
             IF l < k THEN xPreviews'[l] = xPreviews[l]
                      ELSE l + 1 \in 1..Len(xPreviews) /\ xPreviews'[l] = xPreviews[l + 1]
    BY <1>b, <2>2, RestIsKept
  <2>5. \A l \in 1..Len(xPreviews') : LET i == IF l < k THEN l ELSE l + 1 IN
          i \in 1..Len(xPreviews) /\ i # k /\ xPreviews'[l] = xPreviews[i]
    BY <1>c, <2>4
  <2>6. TokensUnspent'
    <3>1. \A l, i \in 1..Len(xPreviews) : xPreviews[l].token = xPreviews[i].token => l = i
      BY DEF ArchiveIInv, TokensUnspent
    <3>2. ASSUME NEW l \in 1..Len(xPreviews') PROVE xBegun'[xPreviews'[l].token] = 0
      <4> DEFINE i == IF l < k THEN l ELSE l + 1
      <4>1. i \in 1..Len(xPreviews) /\ i # k /\ xPreviews'[l] = xPreviews[i]
        BY <2>5
      <4> HIDE DEF i
      <4>2. xPreviews[i].token \in XTokens \ {p.token} /\ xBegun[xPreviews[i].token] = 0
        BY <1>c, <3>1, <4>1 DEF ArchiveIInv, TokensUnspent
      <4> QED
        BY <2>3, <4>1, <4>2
    <3>3. ASSUME NEW l \in 1..Len(xPreviews'), NEW m \in 1..Len(xPreviews'),
                 xPreviews'[l].token = xPreviews'[m].token
          PROVE  l = m
      <4> DEFINE i == IF l < k THEN l ELSE l + 1
                 j == IF m < k THEN m ELSE m + 1
      <4>1. i \in 1..Len(xPreviews) /\ i # k /\ xPreviews'[l] = xPreviews[i]
        BY <2>5
      <4>2. j \in 1..Len(xPreviews) /\ j # k /\ xPreviews'[m] = xPreviews[j]
        BY <2>5
      <4>3. i = j
        <5> HIDE DEF i, j
        <5> QED
          BY <3>1, <3>3, <4>1, <4>2
      <4> QED
        BY <1>c, <2>4, <4>3
    <3> QED
      BY <3>2, <3>3 DEF TokensUnspent
  <2>7. /\ \A t \in XTokens : xBegun'[t] <= 1
        /\ Len(xPreviews') <= XMaxPreviews
    BY <1>b, <1>c, <2>1, <2>3, <2>4 DEF ArchiveIInv, X!ArchiveInv, X!PurgeAsPreviewed
  <2>8. CASE xPurge' = X!NoPurge
    BY <1>c, <2>6, <2>7, <2>8 DEF X!PurgeAsPreviewed, PurgeCounts
  <2>9. CASE /\ X!CountOf(p.category, p.cutoff) = p.count
             /\ xPurge' = [X!NoPurge EXCEPT !.step = "select", !.category = p.category,
                                            !.cutoff = p.cutoff, !.count = p.count]
    <3>1. PICK c \in XCategories, cutoff \in Int : c = p.category /\ cutoff = p.cutoff
      BY <2>1
    <3>2. /\ xPurge'.step = "select" /\ xPurge'.category = c /\ xPurge'.cutoff = cutoff
          /\ xPurge'.count = X!CountOf(c, cutoff) /\ xPurge'.result = None /\ xPurge'.detached = {}
      BY <2>9, <3>1 DEF X!NoPurge
    <3>3. X!CountOf(c, cutoff)' = X!CountOf(c, cutoff)
      BY <2>2 DEF X!CountOf, X!RowsOf, X!Selected, X!Candidates, X!TableOf, X!Stored, X!Before
    <3>4. PurgeCounts'
      BY <3>2, <3>3 DEF PurgeCounts
    <3>5. X!PurgeAsPreviewed'
      BY <2>7, <3>2 DEF X!PurgeAsPreviewed
    <3> QED
      BY <2>6, <3>4, <3>5
  <2> QED
    BY <1>7, <2>8, <2>9 DEF X!PurgeCount
<1>8. ASSUME X!PurgeSelect PROVE Goal'
  <2>1. /\ xPurge.step = "select" /\ UNCHANGED <<xJob, xAttempted, xContact, xPreviews, xBegun>>
        /\ xPurge'.step = "delete" /\ xPurge'.picked = X!Selected(xPurge.category, xPurge.cutoff)
        /\ xPurge'.category = xPurge.category /\ xPurge'.cutoff = xPurge.cutoff
        /\ xPurge'.count = xPurge.count /\ xPurge'.disturbed = xPurge.disturbed
        /\ xPurge'.result = xPurge.result /\ xPurge'.detached = xPurge.detached
    BY <1>8, <1>b DEF X!PurgeSelect, X!PurgeState
  <2>2. /\ X!Selected(xPurge.category, xPurge.cutoff) = X!Selected(xPurge.category, xPurge.cutoff)'
        /\ \A b : X!RowsOf(xPurge.category, b) = X!RowsOf(xPurge.category, b)'
    BY <2>1 DEF X!RowsOf, X!Selected, X!Candidates, X!TableOf, X!Stored, X!Before
  <2> QED
    BY <2>1, <2>2 DEF ArchiveIInv, X!ArchiveInv, X!PurgeAsPreviewed, PurgeCounts, TokensUnspent, X!CountOf, AsCounted
<1>9. ASSUME X!PurgeAttempts PROVE Goal'
  <2>1. /\ xPurge.step = "delete" /\ UNCHANGED <<xJob, xAttempted, xContact, xPreviews, xBegun>>
        /\ xPurge.category = "messages"
        /\ xPurge'.step = "jobs" /\ xPurge'.detached = xPurge.picked \cap xAttempted
        /\ xPurge'.picked = xPurge.picked
        /\ xPurge'.category = xPurge.category /\ xPurge'.cutoff = xPurge.cutoff
        /\ xPurge'.count = xPurge.count /\ xPurge'.disturbed = xPurge.disturbed
        /\ xPurge'.result = xPurge.result
    BY <1>9, <1>b DEF X!PurgeAttempts, X!PurgeState
  <2>2. AsCounted' <=> AsCounted
    BY <2>1 DEF AsCounted, X!RowsOf, X!Selected, X!Candidates, X!TableOf, X!Stored, X!Before
  <2> QED
    BY <2>1, <2>2 DEF ArchiveIInv, X!ArchiveInv, X!PurgeAsPreviewed, PurgeCounts, TokensUnspent
<1>10. ASSUME X!PurgeJobs PROVE Goal'
  <2> DEFINE rows == xPurge.picked \cap X!Stored(xJob)
  <2>1. /\ xPurge.step = "jobs" /\ UNCHANGED <<xPreviews, xBegun>>
        /\ xPurge'.step = "idle" /\ xPurge'.detached = {}
        /\ xPurge'.result = Cardinality(xPurge.detached) + Cardinality(rows)
        /\ xPurge'.count = xPurge.count /\ xPurge'.disturbed = xPurge.disturbed
    BY <1>10, <1>b, XCardinality DEF X!PurgeJobs, X!PurgeState, X!Ended
  <2>2. xPurge.category = "messages" /\ xPurge.cutoff \in Int
    BY <1>b, <2>1 DEF ArchiveIInv, PurgeCounts, X!PurgeState
  <2>3. ~xPurge.disturbed => rows = xPurge.picked /\ xPurge.detached = xPurge.picked \cap xAttempted
    <3>1. X!Selected("messages", xPurge.cutoff) \subseteq X!Stored(xJob)
      BY <2>2 DEF X!Selected, X!Candidates, X!TableOf
    <3> QED
      BY <2>1, <2>2, <3>1 DEF ArchiveIInv, PurgeCounts, AsCounted
  <2>4. IsFiniteSet(rows) /\ IsFiniteSet(xPurge.detached)
    BY <1>a, <1>b, FS_Subset DEF ArchiveAssumption, X!Stored, X!PurgeState
  <2>5. ~xPurge.disturbed => Cardinality(xPurge.detached) + Cardinality(rows) = xPurge.count
    <3>1. Cardinality(rows) \in Nat /\ Cardinality(xPurge.detached) \in Nat
      BY <2>4, FS_CardinalityType, XCardinality
    <3>2. ~xPurge.disturbed => X!RowsOf("messages", xPurge.picked) = xPurge.count
      BY <2>1, <2>2 DEF ArchiveIInv, PurgeCounts, AsCounted
    <3>3. ~xPurge.disturbed => Cardinality(xPurge.picked) + Cardinality(xPurge.picked \cap xAttempted) = xPurge.count
      BY <3>2, XCardinality DEF X!RowsOf
    <3> HIDE DEF rows
    <3>4. ~xPurge.disturbed => Cardinality(rows) + Cardinality(xPurge.detached) = xPurge.count
      BY <2>3, <3>3
    <3> QED
      BY <3>1, <3>4
  <2> HIDE DEF rows
  <2> QED
    BY <2>1, <2>5 DEF ArchiveIInv, X!ArchiveInv, X!PurgeAsPreviewed, PurgeCounts, TokensUnspent
<1>11. ASSUME X!PurgeContacts PROVE Goal'
  <2> DEFINE rows == xPurge.picked \cap X!Stored(xContact)
  <2>1. /\ xPurge.step = "delete" /\ xPurge.category = "contacts" /\ UNCHANGED <<xPreviews, xBegun>>
        /\ xPurge'.step = "idle" /\ xPurge'.detached = {} /\ xPurge'.result = Cardinality(rows)
        /\ xPurge'.count = xPurge.count /\ xPurge'.disturbed = xPurge.disturbed
    BY <1>11, <1>b, XCardinality DEF X!PurgeContacts, X!PurgeState, X!Ended
  <2>2. ~xPurge.disturbed => rows = xPurge.picked /\ X!RowsOf("contacts", xPurge.picked) = xPurge.count
    <3>1. X!Selected("contacts", xPurge.cutoff) \subseteq X!Stored(xContact)
      BY DEF X!Selected, X!Candidates, X!TableOf
    <3> QED
      BY <2>1, <3>1 DEF ArchiveIInv, PurgeCounts, AsCounted
  <2>3. Cardinality(rows) \in Nat
    <3>1. IsFiniteSet(rows)
      BY <1>b, FS_Subset DEF ArchiveAssumption, X!Stored
    <3> QED
      BY <3>1, FS_CardinalityType, XCardinality
  <2>4. ~xPurge.disturbed => Cardinality(rows) = xPurge.count
    <3> HIDE DEF rows
    <3>1. ~xPurge.disturbed => X!RowsOf("contacts", rows) = xPurge.count
      BY <2>2
    <3>2. X!RowsOf("contacts", rows) = Cardinality(rows)
      BY <2>3, XCardinality DEF X!RowsOf
    <3> QED
      BY <3>1, <3>2
  <2> HIDE DEF rows
  <2> QED
    BY <2>1, <2>4 DEF ArchiveIInv, X!ArchiveInv, X!PurgeAsPreviewed, PurgeCounts, TokensUnspent
<1>12. ASSUME X!PurgeFails PROVE Goal'
  BY <1>12, <1>a, <1>d, PurgeGoesOn DEF X!PurgeFails
<1>13. ASSUME X!Restart PROVE Goal'
  <2>1. Len(xPreviews') = 0 /\ xBegun' = xBegun /\ xPurge' = X!NoPurge
    BY <1>13 DEF X!Restart
  <2> QED
    BY <1>c, <2>1 DEF ArchiveIInv, X!ArchiveInv, X!PurgeAsPreviewed, PurgeCounts, TokensUnspent
<1>14. ASSUME X!Restore PROVE Goal'
  BY <1>14, <1>a, PurgeGoesOn DEF X!Restore
<1>15. ASSUME NEW p \in XPeople, X!FindContact(p) \/ X!SaveContact(p) \/ \E consent \in X!Consents : X!Decide(p, consent)
       PROVE  Goal'
  <2>1. CASE X!FindContact(p)
    BY <1>5, <2>1 DEF X!FindContact
  <2>2. CASE X!SaveContact(p)
    <3>1. CASE xContact[p] # None
      BY <1>5, <2>2, <3>1 DEF X!SaveContact
    <3>2. CASE xContact[p] = None
      BY <1>a, <2>2, <3>2, PurgeGoesOn DEF X!SaveContact
    <3> QED
      BY <3>1, <3>2
  <2>3. ASSUME NEW consent \in X!Consents, X!Decide(p, consent) PROVE Goal'
    <3>1. xContact[p] \in X!ContactRow /\ None \notin X!ContactRow
      BY <1>a, <2>3 DEF X!Decide, X!TypeOK, ArchiveAssumption
    <3>2. /\ [xContact[p] EXCEPT !.consent = consent] \in X!ContactRow
          /\ [xContact[p] EXCEPT !.consent = consent].born = xContact[p].born
      BY <3>1 DEF X!ContactRow
    <3>3. KeepsAge(xContact, xContact', XPeople)
      BY <1>b, <2>3, <3>1, <3>2 DEF X!Decide, KeepsAge
    <3> QED
      BY <1>a, <1>d, <2>3, <3>3, PurgeGoesOn DEF X!Decide
  <2> QED
    BY <1>15, <2>1, <2>2, <2>3
<1>16. ASSUME \/ X!Tick \/ X!Export \/ UNCHANGED X!vars
              \/ \E c \in XCategories, days \in 1..XMaxDays : X!UpdatePolicy(c, days)
       PROVE  Goal'
  BY <1>5, <1>16 DEF X!Tick, X!Export, X!vars, X!UpdatePolicy
<1> HIDE DEF Goal
<1>17. Goal'
  BY <1>1, <1>2, <1>3, <1>4, <1>6, <1>7, <1>8, <1>9, <1>10, <1>11, <1>12, <1>13, <1>14, <1>15, <1>16
  DEF X!Next
<1> QED
  BY <1>17 DEF Goal

LEMMA NextArchive ==
  ASSUME ArchiveAssumption, ArchiveIInv, [X!Next]_X!vars
  PROVE  ArchiveIInv'
BY TypeKept, RowsKept, PurgeKept DEF ArchiveIInv, X!ArchiveInv

(* A purge nobody disturbs deletes what its preview counted, nothing        *)
(* dangles, nothing is sent again and nobody has a consent not given, but   *)
(* for what a restore, a deletion or a lookup overtaken by a purge brings.  *)
THEOREM ArchiveHolds ==
  ASSUME ArchiveAssumption
  PROVE  X!Spec => []X!ArchiveInv
<1>1. X!Init => ArchiveIInv
  BY InitArchive
<1>2. ArchiveIInv /\ [X!Next]_X!vars => ArchiveIInv'
  BY NextArchive
<1>3. ArchiveIInv => X!ArchiveInv
  BY DEF ArchiveIInv
<1> QED
  BY <1>1, <1>2, <1>3, PTL DEF X!Spec

-----------------------------------------------------------------------------
(* ContactGroups *)

(* None is no row and no group.                                            *)
GroupsAssumption ==
  /\ None \notin [name : GTitles, by : GUsers]
  /\ None \notin GGroups

(* The inductive invariant, from which MembersStay follows.                *)
GroupsIInv ==
  /\ G!TypeOK /\ G!RequestsSound /\ G!JoinedAreMembers
  /\ G!NothingDangles /\ G!NamesUnique /\ G!ActsOnOwnGroup

LEMMA InitGroups ==
  ASSUME GroupsAssumption, G!Init
  PROVE  GroupsIInv
BY DEF GroupsAssumption, G!Init, GroupsIInv, G!TypeOK, G!Idle, G!RequestsSound, G!JoinedAreMembers,
   G!NothingDangles, G!Stored, G!NamesUnique, G!ActsOnOwnGroup

(* That members stay follows from the rest: a member is found by its phone.*)
LEMMA GroupsSuffices ==
  ASSUME GroupsAssumption, GroupsIInv
  PROVE  G!GroupsInv
<1> SUFFICES ASSUME NEW m \in gJoined, m[1] \in G!Stored \ gEmptied
             PROVE  IF m[2] \in GContacts THEN G!HasMember(m[1], GSessionOf[m[2]], GPhoneOf[m[2]])
                    ELSE \A s \in GSessions : G!HasMember(m[1], s, m[2])
  BY DEF G!MembersStay, GroupsIInv, G!GroupsInv
<1>1. m \in gMember /\ m \in GGroups \X G!Targets
  BY DEF GroupsIInv, G!JoinedAreMembers, G!TypeOK
<1>2. m = <<m[1], m[2]>> /\ m[2] \in GContacts \cup GPhones
  BY <1>1 DEF G!Targets
<1>3. CASE m[2] \in GContacts
  BY <1>1, <1>2, <1>3 DEF GroupsIInv, G!NothingDangles, G!HasMember
<1>4. CASE m[2] \notin GContacts
  BY <1>1, <1>2, <1>4 DEF G!HasMember
<1> QED
  BY <1>3, <1>4

(* A request that ends, or goes on about the same group, leaves the        *)
(* requests as sound as they were, if no group it is about is created or   *)
(* changes hands.                                                          *)
LEMMA GroupsRequestMoves ==
  ASSUME GroupsAssumption, GroupsIInv, NEW r \in GRequests,
         \/ G!Become(r, G!Idle)
         \/ \E s \in {"insert", "drop"} :
              /\ G!GoTo(r, s) /\ gRequest[r].step # "idle"
              /\ s = "insert" => gRequest[r].target \in G!Targets,
         \A g \in GGroups : gGroup'[g] \in {gGroup[g], None}
  PROVE  /\ gRequest' \in [GRequests -> [step : {"idle", "contact", "insert", "remove", "empty", "drop"},
                                         by : GUsers \cup {None}, group : GGroups \cup {None},
                                         target : G!Targets \cup {None}]]
         /\ G!RequestsSound' /\ G!ActsOnOwnGroup'
<1> DEFINE Request == [step : {"idle", "contact", "insert", "remove", "empty", "drop"},
                       by : GUsers \cup {None}, group : GGroups \cup {None},
                       target : G!Targets \cup {None}]
<1>1. gRequest \in [GRequests -> Request]
  BY DEF GroupsIInv, G!TypeOK
<1>2. PICK q \in Request :
        /\ gRequest' = [gRequest EXCEPT ![r] = q]
        /\ \/ q.step = "idle"
           \/ /\ q.by = gRequest[r].by /\ q.group = gRequest[r].group /\ q.target = gRequest[r].target
              /\ gRequest[r].step # "idle" /\ q.step \in {"insert", "drop"}
              /\ q.step = "insert" => q.target \in G!Targets
  <2>1. CASE G!Become(r, G!Idle)
    <3>1. G!Idle \in Request /\ G!Idle.step = "idle"
      BY DEF G!Idle
    <3> QED
      BY <2>1, <3>1 DEF G!Become
  <2>2. CASE ~G!Become(r, G!Idle)
    <3>1. PICK s \in {"insert", "drop"} :
            /\ G!GoTo(r, s) /\ gRequest[r].step # "idle"
            /\ s = "insert" => gRequest[r].target \in G!Targets
      BY <2>2
    <3> DEFINE q == [gRequest[r] EXCEPT !.step = s]
    <3>2. /\ q \in Request /\ q.step = s /\ q.by = gRequest[r].by
          /\ q.group = gRequest[r].group /\ q.target = gRequest[r].target
      BY <1>1
    <3>3. gRequest' = [gRequest EXCEPT ![r] = q]
      BY <1>1, <3>1 DEF G!GoTo
    <3> HIDE DEF q, Request
    <3> QED
      BY <3>1, <3>2, <3>3
  <2> QED
    BY <2>1, <2>2
<1> HIDE DEF Request
<1>3. gRequest' \in [GRequests -> Request]
  BY <1>1, <1>2
<1>4. \A p \in GRequests : gRequest'[p].step # "idle" =>
        /\ gRequest[p].step # "idle"
        /\ gRequest'[p].by = gRequest[p].by /\ gRequest'[p].group = gRequest[p].group
        /\ gRequest'[p].target = gRequest[p].target
        /\ gRequest'[p].step = gRequest[p].step \/ gRequest'[p].step = "drop"
           \/ (gRequest'[p].step = "insert" /\ gRequest'[p].target \in G!Targets)
  BY <1>1, <1>2
<1>5. G!RequestsSound'
  BY <1>4 DEF GroupsIInv, G!RequestsSound
<1>6. G!ActsOnOwnGroup'
  BY <1>4 DEF GroupsIInv, G!RequestsSound, G!ActsOnOwnGroup, G!HasGrant
<1> QED
  BY <1>3, <1>5, <1>6 DEF Request

(* Create, with a group that no request is about.                          *)
LEMMA CreateKeeps ==
  ASSUME GroupsAssumption, GroupsIInv, NEW u \in GUsers, NEW g \in GGroups, NEW title \in GTitles,
         G!Create(u, g, title)
  PROVE  GroupsIInv'
<1> DEFINE new == [name |-> title, by |-> u]
<1>1. new \in [name : GTitles, by : GUsers] /\ new # None /\ new.name = title /\ new.by = u
  BY DEF GroupsAssumption
<1>2. /\ gGroup' = [gGroup EXCEPT ![g] = new] /\ gGroup[g] = None
      /\ \A h \in G!Stored : gGroup[h].name # title
      /\ \A r \in GRequests : gRequest[r].group # g
      /\ UNCHANGED <<gMember, gContacts, gUsed, gRequest, gJoined, gEmptied>>
  BY DEF G!Create
<1> HIDE DEF new
<1>3. G!TypeOK'
  BY <1>1, <1>2 DEF GroupsIInv, G!TypeOK
<1>4. gGroup' \in [GGroups -> [name : GTitles, by : GUsers] \cup {None}] /\ gGroup \in [GGroups -> [name : GTitles, by : GUsers] \cup {None}]
  BY <1>3 DEF GroupsIInv, G!TypeOK
<1>5. g \notin G!Stored /\ G!Stored' = G!Stored \cup {g} /\ gGroup'[g] = new
      /\ \A h \in G!Stored : gGroup'[h] = gGroup[h]
  BY <1>1, <1>2, <1>4 DEF G!Stored
<1>6. G!RequestsSound' /\ G!JoinedAreMembers' /\ G!NothingDangles'
  BY <1>2, <1>5 DEF GroupsIInv, G!RequestsSound, G!JoinedAreMembers, G!NothingDangles
<1>7. G!NamesUnique'
  BY <1>1, <1>2, <1>5 DEF GroupsIInv, G!NamesUnique
<1>8. G!ActsOnOwnGroup'
  BY <1>2, <1>4 DEF GroupsIInv, G!RequestsSound, G!ActsOnOwnGroup, G!HasGrant
<1> QED
  BY <1>3, <1>6, <1>7, <1>8 DEF GroupsIInv

(* addMember, removeMember and delete begin by reading the grant.          *)
LEMMA BeginKeeps ==
  ASSUME GroupsAssumption, GroupsIInv, NEW r \in GRequests, NEW u \in GUsers, NEW g \in GGroups,
         NEW target \in G!Targets \cup {None}, NEW step \in {"contact", "insert", "remove", "empty"},
         step # "empty" => target \in G!Targets,
         G!Begin(r, u, g, target, step)
  PROVE  GroupsIInv'
<1> DEFINE q == [step |-> step, by |-> u, group |-> g, target |-> target]
<1>1. /\ q \in [step : {"idle", "contact", "insert", "remove", "empty", "drop"},
                by : GUsers \cup {None}, group : GGroups \cup {None}, target : G!Targets \cup {None}]
      /\ q.step = step /\ q.by = u /\ q.group = g /\ q.target = target
  OBVIOUS
<1>2. /\ gRequest' = [gRequest EXCEPT ![r] = q] /\ G!HasGrant(u, g)
      /\ UNCHANGED <<gGroup, gMember, gContacts, gUsed, gJoined, gEmptied>>
  BY DEF G!Begin, G!Become
<1> HIDE DEF q
<1>3. G!TypeOK'
  BY <1>1, <1>2 DEF GroupsIInv, G!TypeOK
<1>4. \A p \in GRequests : gRequest'[p] = gRequest[p] \/ gRequest'[p] = q
  BY <1>2 DEF GroupsIInv, G!TypeOK
<1>5. G!RequestsSound' /\ G!ActsOnOwnGroup'
  BY <1>1, <1>2, <1>4 DEF GroupsIInv, G!RequestsSound, G!ActsOnOwnGroup, G!HasGrant
<1> QED
  BY <1>2, <1>3, <1>5 DEF GroupsIInv, G!JoinedAreMembers, G!NothingDangles, G!NamesUnique, G!Stored

(* The statements that touch no row.                                       *)
LEMMA QuietKeeps ==
  ASSUME GroupsAssumption, GroupsIInv, NEW r \in GRequests, G!FindContact(r) \/ G!Throw(r)
  PROVE  GroupsIInv'
<1>1. UNCHANGED <<gGroup, gMember, gContacts, gUsed, gJoined, gEmptied>>
  BY DEF G!FindContact, G!Throw
<1>2. /\ gRequest' \in [GRequests -> [step : {"idle", "contact", "insert", "remove", "empty", "drop"},
                                      by : GUsers \cup {None}, group : GGroups \cup {None},
                                      target : G!Targets \cup {None}]]
      /\ G!RequestsSound' /\ G!ActsOnOwnGroup'
  <2>1. \/ G!Become(r, G!Idle)
        \/ G!GoTo(r, "insert") /\ gRequest[r].step # "idle" /\ gRequest[r].target \in G!Targets
    BY DEF G!FindContact, G!Throw, G!AtStep, GroupsIInv, G!RequestsSound
  <2> QED
    BY <1>1, <2>1, GroupsRequestMoves
<1> QED
  BY <1>1, <1>2 DEF GroupsIInv, G!TypeOK, G!JoinedAreMembers, G!NothingDangles, G!NamesUnique, G!Stored

(* A member is inserted if its group and its contact are still there.      *)
LEMMA InsertKeeps ==
  ASSUME GroupsAssumption, GroupsIInv, NEW r \in GRequests, G!InsertMember(r)
  PROVE  GroupsIInv'
<1> DEFINE q == gRequest[r]
<1>1. /\ q.step = "insert" /\ G!Become(r, G!Idle)
      /\ UNCHANGED <<gGroup, gContacts, gUsed, gEmptied>>
      /\ gJoined' = gJoined \cup (gMember' \ gMember)
      /\ \/ gMember' = gMember
         \/ /\ gGroup[q.group] # None /\ (q.target \in GContacts => q.target \in gContacts)
            /\ gMember' = gMember \cup {<<q.group, q.target>>}
  BY DEF G!InsertMember, G!AtStep
<1>2. q.group \in GGroups /\ q.target \in G!Targets
  BY <1>1 DEF GroupsIInv, G!RequestsSound
<1>3. /\ gRequest' \in [GRequests -> [step : {"idle", "contact", "insert", "remove", "empty", "drop"},
                                      by : GUsers \cup {None}, group : GGroups \cup {None},
                                      target : G!Targets \cup {None}]]
      /\ G!RequestsSound' /\ G!ActsOnOwnGroup'
  BY <1>1, GroupsRequestMoves
<1> HIDE DEF q
<1>4. \A m \in gMember' : m \in gMember \/ (m = <<q.group, q.target>> /\ q.group \in G!Stored
                                            /\ (q.target \in GContacts => q.target \in gContacts))
  BY <1>1, <1>2 DEF G!Stored
<1>5. G!TypeOK'
  BY <1>1, <1>2, <1>3 DEF GroupsIInv, G!TypeOK
<1>6. G!Stored' = G!Stored
  BY <1>1 DEF G!Stored
<1>7. G!JoinedAreMembers'
  BY <1>1, <1>4, <1>6 DEF GroupsIInv, G!JoinedAreMembers
<1>8. G!NothingDangles' /\ G!NamesUnique'
  BY <1>1, <1>4, <1>6 DEF GroupsIInv, G!NothingDangles, G!NamesUnique
<1> QED
  BY <1>3, <1>5, <1>7, <1>8 DEF GroupsIInv

(* A member is taken out, and a group emptied.                             *)
LEMMA TakeOutKeeps ==
  ASSUME GroupsAssumption, GroupsIInv, NEW r \in GRequests, G!DropMember(r) \/ G!Empty(r)
  PROVE  GroupsIInv'
<1>1. UNCHANGED <<gGroup, gContacts, gUsed>>
  BY DEF G!DropMember, G!Empty
<1>2. /\ gRequest' \in [GRequests -> [step : {"idle", "contact", "insert", "remove", "empty", "drop"},
                                      by : GUsers \cup {None}, group : GGroups \cup {None},
                                      target : G!Targets \cup {None}]]
      /\ G!RequestsSound' /\ G!ActsOnOwnGroup'
  <2>1. G!Become(r, G!Idle) \/ (G!GoTo(r, "drop") /\ gRequest[r].step # "idle")
    BY DEF G!DropMember, G!Empty, G!AtStep
  <2> QED
    BY <1>1, <2>1, GroupsRequestMoves
<1>3. G!Stored' = G!Stored
  BY <1>1 DEF G!Stored
<1>4. gRequest[r].group \in GGroups
  BY DEF GroupsIInv, G!RequestsSound, G!DropMember, G!Empty, G!AtStep
<1>5. gMember' \subseteq gMember /\ gJoined' \subseteq gJoined /\ gEmptied' \subseteq GGroups
  BY <1>4 DEF GroupsIInv, G!TypeOK, G!DropMember, G!Empty
<1>6. G!TypeOK'
  BY <1>1, <1>2, <1>5 DEF GroupsIInv, G!TypeOK
<1>7. G!JoinedAreMembers'
  <2> SUFFICES ASSUME NEW m \in gJoined' PROVE m[1] \in G!Stored /\ (m[1] \notin gEmptied' => m \in gMember')
    BY <1>3 DEF G!JoinedAreMembers
  <2>1. m \in gJoined /\ m[1] \in G!Stored /\ (m[1] \notin gEmptied => m \in gMember)
    BY <1>5 DEF GroupsIInv, G!JoinedAreMembers
  <2>2. CASE G!DropMember(r)
    BY <2>1, <2>2 DEF G!DropMember
  <2>3. CASE G!Empty(r)
    BY <2>1, <2>3 DEF G!Empty, G!MembersOf
  <2> QED
    BY <2>1, <2>2, <2>3
<1>8. G!NothingDangles' /\ G!NamesUnique'
  BY <1>1, <1>3, <1>5 DEF GroupsIInv, G!NothingDangles, G!NamesUnique
<1> QED
  BY <1>2, <1>6, <1>7, <1>8 DEF GroupsIInv

(* The group goes, with the members that joined since, or its statement    *)
(* changes nothing.                                                        *)
LEMMA DropKeeps ==
  ASSUME GroupsAssumption, GroupsIInv, NEW r \in GRequests, G!Drop(r)
  PROVE  GroupsIInv'
<1> DEFINE g == gRequest[r].group
<1>1. g \in GGroups
  BY DEF G!Drop, G!AtStep, GroupsIInv, G!RequestsSound
<1>2. /\ gGroup' = gGroup \/ (gGroup' = [gGroup EXCEPT ![g] = None] /\ g \notin gUsed)
      /\ gMember' = IF gGroup'[g] = None THEN gMember \ G!MembersOf(g) ELSE gMember
      /\ gJoined' = IF gGroup'[g] = None THEN {m \in gJoined : m[1] # g} ELSE gJoined
      /\ gEmptied' = IF gGroup'[g] = None THEN gEmptied \ {g} ELSE gEmptied
      /\ G!Become(r, G!Idle) /\ UNCHANGED <<gContacts, gUsed>>
  BY DEF G!Drop
<1> HIDE DEF g
<1>3. \A h \in GGroups : gGroup'[h] \in {gGroup[h], None}
  BY <1>1, <1>2 DEF GroupsIInv, G!TypeOK
<1>4. /\ gRequest' \in [GRequests -> [step : {"idle", "contact", "insert", "remove", "empty", "drop"},
                                      by : GUsers \cup {None}, group : GGroups \cup {None},
                                      target : G!Targets \cup {None}]]
      /\ G!RequestsSound' /\ G!ActsOnOwnGroup'
  BY <1>2, <1>3, GroupsRequestMoves
<1>5. G!TypeOK'
  <2>1. gGroup' \in [GGroups -> [name : GTitles, by : GUsers] \cup {None}]
    BY <1>1, <1>2 DEF GroupsIInv, G!TypeOK
  <2>2. gMember' \subseteq gMember /\ gJoined' \subseteq gJoined /\ gEmptied' \subseteq gEmptied
    BY <1>2
  <2> QED
    BY <1>2, <1>4, <2>1, <2>2 DEF GroupsIInv, G!TypeOK
<1>6. CASE gGroup'[g] = None
  <2>1. /\ g \notin G!Stored' /\ G!Stored' = G!Stored \ {g} /\ g \notin gUsed
        /\ \A h \in G!Stored' : gGroup'[h] = gGroup[h]
    <3>1. gGroup \in [GGroups -> [name : GTitles, by : GUsers] \cup {None}]
      BY DEF GroupsIInv, G!TypeOK
    <3>2. g \notin gUsed
      <4>1. CASE gGroup' = gGroup
        BY <1>6, <4>1 DEF GroupsIInv, G!NothingDangles, G!Stored
      <4> QED
        BY <1>2, <4>1
    <3> QED
      BY <1>1, <1>2, <1>6, <3>1, <3>2 DEF G!Stored
  <2>2. /\ \A m \in gMember' : m \in gMember /\ m[1] # g
        /\ \A m \in gJoined' : m \in gJoined /\ m[1] # g
        /\ gEmptied' = gEmptied \ {g}
        /\ \A m \in gMember : m[1] # g => m \in gMember'
    BY <1>2, <1>6 DEF G!MembersOf
  <2>3. G!JoinedAreMembers'
    BY <2>1, <2>2 DEF GroupsIInv, G!JoinedAreMembers
  <2>4. G!NothingDangles'
    BY <1>2, <2>1, <2>2 DEF GroupsIInv, G!NothingDangles
  <2>5. G!NamesUnique'
    BY <2>1 DEF GroupsIInv, G!NamesUnique
  <2> QED
    BY <1>4, <1>5, <2>3, <2>4, <2>5 DEF GroupsIInv
<1>7. CASE gGroup'[g] # None
  <2>1. gGroup' = gGroup
    BY <1>1, <1>2, <1>7 DEF GroupsIInv, G!TypeOK
  <2>2. UNCHANGED <<gMember, gJoined, gEmptied, gContacts, gUsed>> /\ G!Stored' = G!Stored
    BY <1>2, <1>7, <2>1 DEF G!Stored
  <2> QED
    BY <1>4, <1>5, <2>1, <2>2 DEF GroupsIInv, G!JoinedAreMembers, G!NothingDangles, G!NamesUnique
<1> QED
  BY <1>6, <1>7

(* Campaigns and contacts.                                                 *)
LEMMA OthersKeep ==
  ASSUME GroupsAssumption, GroupsIInv,
         \/ \E u \in GUsers, g \in GGroups : G!UseGroup(u, g)
         \/ \E g \in gUsed : G!Release(g)
         \/ \E c \in GContacts : G!ContactGone(c) \/ G!ContactSaved(c)
  PROVE  GroupsIInv'
<1>1. UNCHANGED <<gGroup, gRequest, gEmptied>> /\ G!Stored' = G!Stored
  BY DEF G!UseGroup, G!Release, G!ContactGone, G!ContactSaved, G!Stored
<1>2. G!RequestsSound' /\ G!ActsOnOwnGroup' /\ G!NamesUnique'
  BY <1>1 DEF GroupsIInv, G!RequestsSound, G!ActsOnOwnGroup, G!HasGrant, G!NamesUnique
<1>3. CASE \E u \in GUsers, g \in GGroups : G!UseGroup(u, g)
  <2>1. PICK u \in GUsers, g \in GGroups : G!UseGroup(u, g)
    BY <1>3
  <2>2. g \in G!Stored /\ gUsed' = gUsed \cup {g} /\ UNCHANGED <<gMember, gContacts, gJoined>>
    BY <2>1 DEF G!UseGroup, G!HasGrant, G!Stored
  <2> QED
    BY <1>1, <1>2, <2>2 DEF GroupsIInv, G!TypeOK, G!JoinedAreMembers, G!NothingDangles
<1>4. CASE \E g \in gUsed : G!Release(g)
  <2>1. gUsed' \subseteq gUsed /\ UNCHANGED <<gMember, gContacts, gJoined>>
    BY <1>4 DEF G!Release
  <2> QED
    BY <1>1, <1>2, <2>1 DEF GroupsIInv, G!TypeOK, G!JoinedAreMembers, G!NothingDangles
<1>5. CASE \E c \in GContacts : G!ContactGone(c)
  <2>1. PICK c \in GContacts : G!ContactGone(c)
    BY <1>5
  <2>2. /\ gContacts' = gContacts \ {c} /\ gUsed' = gUsed
        /\ gMember' = {m \in gMember : m[2] # c} /\ gJoined' = {m \in gJoined : m[2] # c}
    BY <2>1 DEF G!ContactGone
  <2>3. G!TypeOK'
    BY <1>1, <2>2 DEF GroupsIInv, G!TypeOK
  <2>4. G!JoinedAreMembers' /\ G!NothingDangles'
    BY <1>1, <2>2 DEF GroupsIInv, G!JoinedAreMembers, G!NothingDangles
  <2> QED
    BY <1>2, <2>3, <2>4 DEF GroupsIInv
<1>6. CASE \E c \in GContacts : G!ContactSaved(c)
  <2>1. PICK c \in GContacts : G!ContactSaved(c)
    BY <1>6
  <2>2. gContacts' = gContacts \cup {c} /\ UNCHANGED <<gMember, gUsed, gJoined>>
    BY <2>1 DEF G!ContactSaved
  <2> QED
    BY <1>1, <1>2, <2>2 DEF GroupsIInv, G!TypeOK, G!JoinedAreMembers, G!NothingDangles
<1> QED
  BY <1>3, <1>4, <1>5, <1>6

LEMMA NextGroups ==
  ASSUME GroupsAssumption, GroupsIInv, [G!Next]_G!vars
  PROVE  GroupsIInv'
<1>1. ASSUME NEW u \in GUsers, NEW g \in GGroups, NEW r \in GRequests,
             \/ G!Delete(r, u, g)
             \/ \E target \in G!Targets : G!AddMember(r, u, g, target) \/ G!RemoveMember(r, u, g, target)
      PROVE  GroupsIInv'
  <2>1. CASE G!Delete(r, u, g)
    BY <2>1, BeginKeeps DEF G!Delete
  <2>2. CASE \E target \in G!Targets : G!AddMember(r, u, g, target) \/ G!RemoveMember(r, u, g, target)
    <3>1. PICK target \in G!Targets, step \in {"contact", "insert", "remove"} :
            G!Begin(r, u, g, target, step)
      BY <2>2 DEF G!AddMember, G!RemoveMember
    <3> QED
      BY <3>1, BeginKeeps
  <2> QED
    BY <1>1, <2>1, <2>2
<1>2. CASE UNCHANGED G!vars
  BY <1>2 DEF G!vars, GroupsIInv, G!TypeOK, G!RequestsSound, G!JoinedAreMembers, G!NothingDangles, G!NamesUnique,
     G!ActsOnOwnGroup, G!HasGrant, G!Stored
<1> QED
  BY <1>1, <1>2, CreateKeeps, QuietKeeps, InsertKeeps, TakeOutKeeps,
     DropKeeps, OthersKeep DEF G!Next

-----------------------------------------------------------------------------
(* However deletes in two statements, inserts, campaigns and purges of     *)
(* contacts interleave: references hold, names are unique, a request acts  *)
(* on its user's group, and members stay but for a delete that stopped     *)
(* halfway.                                                                *)
THEOREM GroupsHold ==
  ASSUME GroupsAssumption
  PROVE  G!Spec => []G!GroupsInv
<1>1. G!Init => GroupsIInv
  BY InitGroups
<1>2. GroupsIInv /\ [G!Next]_G!vars => GroupsIInv'
  BY NextGroups
<1>3. GroupsIInv => G!GroupsInv
  BY GroupsSuffices
<1> QED
  BY <1>1, <1>2, <1>3, PTL DEF G!Spec

-----------------------------------------------------------------------------
(* Notifications *)

(* A channel sends mail or Telegram messages, and the chat ids are positive; *)
(* None is no value, and the mask is no secret that was typed.              *)
NotificationsAssumption ==
  /\ NChannels \subseteq {"email", "telegram"}
  /\ NChats \subseteq Nat \ {0}
  /\ NMaxAttempts \in Nat \ {0} /\ NMaxSaves \in Nat
  /\ None \notin N!Setting \cup N!Kinds \cup NChannels \cup NSecrets \cup {"sent", "failed", N!Mask}
  /\ N!Mask \notin NSecrets

(* A form that nobody overtook knows the row. *)
FreshFormsKnow ==
  /\ \A f \in NForms : nForm[f].step = "upsert" /\ nForm[f].fresh => nForm[f].read = nSetting
  /\ \A f \in NForms : nForm[f].step = "upsert" => nForm[f].secret # None
  /\ nTyped # None => nSetting # None

(* Nobody got a copy of a delivery that is to fail, or it is known to be late. *)
NotificationsUnsent == nLate \/ \A d \in N!Destinations : nReceived[d] = 0

(* Where the delivery stands, and what that says of its row. *)
DeliveryStages ==
  /\ nRun.step = "idle" => nRow = N!NoRow /\ \A d \in N!Destinations : nReceived[d] = 0
  /\ nRun.step # "idle" => nRun.channel \in NChannels
  /\ nRun.channel = "email" => \A c \in NChats : nReceived[c] = 0
  /\ nRun.channel = "telegram" => nReceived[N!Inbox] = 0
  /\ nRun.step \in {"envelope", "body", "quit"} => nRun.channel = "email"
  /\ nRun.step = "chat" => nRun.channel = "telegram"
  /\ nRun.step = "attempt" => nRow.attempts < NMaxAttempts
  /\ nRun.step \in {"envelope", "body"} => nReceived[N!Inbox] < nRow.attempts
  /\ nRun.step = "chat" =>
       /\ \A c \in nRun.left : nReceived[c] < nRow.attempts
       /\ \A c \in NChats \ nRun.left : nReceived[c] > 0
  /\ nRun.step = "sent" /\ nRun.channel = "telegram" => \A c \in NChats : nReceived[c] > 0
  /\ nRun.step \in {"attempt", "envelope", "body", "failed", "auditFailed"} => NotificationsUnsent
  /\ nRun.step \in {"envelope", "body", "quit", "chat", "sent"} => nRow.state = "attempting"
  /\ nRun.step = "attempt" => nRow.state = "queued"
  /\ nRow.state = "sent" => nRun.step \in {"auditSent", "failed", "done"}
  /\ nRun.step = "auditSent" => nRow.state = "sent"
  /\ nRow.state = "failed" => nRun.step \in {"auditFailed", "done"}
  /\ nRun.step = "auditFailed" => nRow.state = "failed"
  /\ nRun.step = "failed" => nRun.kind # None
  /\ nRun.step = "failed" /\ nRow.state = "sent" => nRun.kind = "unknown"
  /\ nRun.step # "done" => nAudits = {} /\ nRun.result = None

NotificationsIInv == N!NotificationsInv /\ FreshFormsKnow /\ DeliveryStages

LEMMA InitNotifications ==
  ASSUME NotificationsAssumption, N!Init
  PROVE  NotificationsIInv
<1> USE DEF NotificationsAssumption, N!Init
<1>1. N!TypeOK
  <2>1. N!NoForm \in N!FormState /\ N!NoRow \in N!Row
    BY DEF N!NoForm, N!NoRow, N!FormState, N!Row
  <2>2. N!NoRun \in N!RunState
    <3>1. {} \in SUBSET NChats
      OBVIOUS
    <3> QED
      BY <3>1 DEF N!NoRun, N!RunState
  <2> QED
    BY <2>1, <2>2 DEF N!TypeOK
<1>2. N!SecretIsTyped /\ N!AttemptsBounded /\ N!SentIsHandedOver
  BY DEF N!SecretIsTyped, N!AttemptsBounded, N!SentIsHandedOver, N!NoRow, N!NoRun, N!Destinations
<1>3. FreshFormsKnow /\ DeliveryStages
  BY DEF FreshFormsKnow, DeliveryStages, N!NoForm, N!NoRow, N!NoRun, NotificationsUnsent, N!Destinations
<1> QED
  BY <1>1, <1>2, <1>3 DEF NotificationsIInv, N!NotificationsInv

(* The forms leave the delivery alone, ...                                 *)
LEMMA FormsKeep ==
  ASSUME NotificationsAssumption, NotificationsIInv, UNCHANGED N!dVars,
         \/ \E f \in NForms :
              \/ \E secret \in NSecrets \cup {N!Mask}, enabled \in BOOLEAN : N!SaveRead(f, secret, enabled)
              \/ N!SaveUpsert(f) \/ N!SaveFails(f)
         \/ \E enabled \in BOOLEAN : N!SavePreferences(enabled)
         \/ UNCHANGED N!sVars
  PROVE  NotificationsIInv'
<1> USE DEF NotificationsIInv, N!NotificationsInv
<1>1. nRow' = nRow /\ nRun' = nRun /\ nReceived' = nReceived /\ nLate' = nLate /\ nAudits' = nAudits
  BY DEF N!dVars
<1>2. N!AttemptsBounded' /\ N!SentIsHandedOver' /\ DeliveryStages'
  BY <1>1 DEF N!AttemptsBounded, N!SentIsHandedOver, DeliveryStages, NotificationsUnsent
<1>a. /\ nSetting \in N!Setting \cup {None} /\ nPreferred \in BOOLEAN
      /\ nForm \in [NForms -> N!FormState] /\ nSaves \in Nat
      /\ nTyped \in NSecrets \cup {None} /\ nStale \in BOOLEAN
      /\ None \notin N!Setting /\ None \notin NSecrets /\ None # N!Mask /\ N!Mask \notin NSecrets
  BY DEF N!TypeOK, NotificationsAssumption
<1> DEFINE FormsGood ==
             /\ nSetting \in N!Setting \cup {None} /\ nPreferred \in BOOLEAN
             /\ nForm \in [NForms -> N!FormState] /\ nSaves \in Nat
             /\ nTyped \in NSecrets \cup {None} /\ nStale \in BOOLEAN
             /\ N!SecretIsTyped /\ FreshFormsKnow
<1>3. ASSUME NEW f \in NForms, NEW secret \in NSecrets \cup {N!Mask}, NEW enabled \in BOOLEAN,
             N!SaveRead(f, secret, enabled)
      PROVE  FormsGood'
  <2> DEFINE new == [step |-> "upsert", secret |-> secret, read |-> nSetting,
                     enabled |-> enabled, fresh |-> TRUE]
  <2>1. /\ new \in N!FormState /\ nForm' = [nForm EXCEPT ![f] = new]
        /\ new.read = nSetting /\ new.secret # None
    BY <1>3, <1>a DEF N!SaveRead, N!FormState
  <2> HIDE DEF new
  <2>2. UNCHANGED <<nSetting, nPreferred, nTyped, nStale>> /\ nSaves' \in Nat
    BY <1>3, <1>a DEF N!SaveRead
  <2> QED
    BY <1>a, <2>1, <2>2 DEF FreshFormsKnow, N!SecretIsTyped
<1>4. ASSUME NEW f \in NForms, N!SaveUpsert(f) PROVE FormsGood'
  <2> DEFINE secret == N!ResolveMasked(f)
  <2>1. nForm[f] \in N!FormState /\ nForm[f].step = "upsert" /\ nForm[f].secret \in NSecrets \cup {N!Mask}
    BY <1>4, <1>a DEF N!SaveUpsert, FreshFormsKnow, N!FormState
  <2>2. secret \in NSecrets \cup {N!Mask}
    BY <2>1 DEF N!ResolveMasked, N!FormState, N!Setting
  <2>3. /\ nSetting' = [enabled |-> nForm[f].enabled, secret |-> secret]
        /\ nTyped' = IF nForm[f].secret # N!Mask THEN secret ELSE nTyped
        /\ nStale' = (nForm[f].secret = N!Mask /\ (nStale \/ ~nForm[f].fresh))
        /\ nForm' = [g \in NForms |-> IF g = f THEN N!NoForm ELSE [nForm[g] EXCEPT !.fresh = FALSE]]
        /\ UNCHANGED <<nPreferred, nSaves>>
    BY <1>4 DEF N!SaveUpsert
  <2>4. nForm[f].secret # N!Mask => secret = nForm[f].secret
    BY <2>1 DEF N!ResolveMasked
  <2>5. nForm[f].secret = N!Mask /\ nForm[f].fresh /\ nTyped # None => nSetting # None /\ secret = nSetting.secret
    BY <2>1 DEF N!ResolveMasked, FreshFormsKnow
  <2> HIDE DEF secret
  <2>6. nSetting' \in N!Setting /\ nSetting' # None /\ nSetting'.secret = secret
    BY <1>a, <2>1, <2>2, <2>3 DEF N!Setting, N!FormState
  <2>7. \A g \in NForms : nForm'[g] \in N!FormState /\ (nForm'[g].step = "upsert" =>
            ~nForm'[g].fresh /\ nForm'[g].secret = nForm[g].secret /\ nForm[g].step = "upsert")
    BY <1>a, <2>3 DEF N!NoForm, N!FormState
  <2>8. nForm' \in [NForms -> N!FormState] /\ FreshFormsKnow'
    BY <2>3, <2>6, <2>7 DEF FreshFormsKnow
  <2>9. nTyped' \in NSecrets \cup {None} /\ nStale' \in BOOLEAN
    BY <1>a, <2>1, <2>2, <2>3, <2>4
  <2>10. N!SecretIsTyped'
    <3>1. CASE nForm[f].secret # N!Mask
      BY <2>3, <2>4, <2>6, <3>1 DEF N!SecretIsTyped
    <3>2. CASE nForm[f].secret = N!Mask
      BY <2>3, <2>5, <2>6, <3>2 DEF N!SecretIsTyped
    <3> QED
      BY <3>1, <3>2
  <2> QED
    BY <1>a, <2>3, <2>6, <2>8, <2>9, <2>10
<1>5. ASSUME NEW f \in NForms, N!SaveFails(f) PROVE FormsGood'
  <2>1. N!NoForm \in N!FormState /\ N!NoForm.step = "idle"
    BY DEF N!NoForm, N!FormState
  <2> QED
    BY <1>5, <1>a, <2>1 DEF N!SaveFails, FreshFormsKnow, N!SecretIsTyped
<1>6. ASSUME NEW enabled \in BOOLEAN, N!SavePreferences(enabled) PROVE FormsGood'
  BY <1>6, <1>a DEF N!SavePreferences, FreshFormsKnow, N!SecretIsTyped
<1>7. ASSUME UNCHANGED N!sVars PROVE FormsGood'
  BY <1>7, <1>a DEF N!sVars, FreshFormsKnow, N!SecretIsTyped
<1> HIDE DEF FormsGood
<1>8. FormsGood'
  BY <1>3, <1>4, <1>5, <1>6, <1>7
<1>9. N!TypeOK'
  BY <1>1, <1>8 DEF FormsGood, N!TypeOK
<1> QED
  BY <1>2, <1>8, <1>9 DEF FormsGood

(* ... and the delivery leaves the forms alone.                            *)
DeliveryTyped ==
  /\ nRow \in N!Row /\ nRun \in N!RunState
  /\ nReceived \in [N!Destinations -> Nat] /\ nLate \in BOOLEAN
  /\ nAudits \subseteq {"sent", "failed"}

DeliveryGood == DeliveryTyped /\ N!AttemptsBounded /\ N!SentIsHandedOver /\ DeliveryStages

LEMMA DeliveryIsApart ==
  ASSUME NotificationsIInv, UNCHANGED N!sVars, DeliveryGood'
  PROVE  NotificationsIInv'
BY DEF NotificationsIInv, N!NotificationsInv, N!TypeOK, DeliveryGood, DeliveryTyped, N!sVars, N!SecretIsTyped,
   FreshFormsKnow

(* A step of the run to a stage that asks nothing of the run but its step. *)
LEMMA RunSteps ==
  ASSUME NEW r \in N!RunState
  PROVE  /\ \A s \in {"idle", "attempt", "envelope", "body", "quit", "chat", "sent", "auditSent",
                      "failed", "auditFailed", "done"} :
              /\ [r EXCEPT !.step = s] \in N!RunState
              /\ \A k \in N!Kinds : [r EXCEPT !.step = s, !.kind = k] \in N!RunState
              /\ \A b \in SUBSET NChats : [r EXCEPT !.step = s, !.left = b] \in N!RunState
              /\ \A e \in {"sent", "failed"} : [r EXCEPT !.step = s, !.result = e] \in N!RunState
BY DEF N!RunState

LEMMA SendTestKeeps ==
  ASSUME NotificationsAssumption, DeliveryGood, NEW channel \in NChannels, N!SendTest(channel)
  PROVE  DeliveryGood'
<1>1. /\ nRun.step = "idle" /\ UNCHANGED <<nRow, nReceived, nLate, nAudits>>
      /\ nRun' = [step |-> "attempt", channel |-> channel, left |-> {}, kind |-> None, result |-> None]
      /\ nRow = N!NoRow
  BY DEF N!SendTest, N!NoRun
<1>2. nRun' \in N!RunState
  <2>1. {} \in SUBSET NChats
    OBVIOUS
  <2> QED
    BY <1>1, <2>1 DEF N!RunState
<1>3. DeliveryTyped'
  BY <1>1, <1>2 DEF DeliveryGood, DeliveryTyped
<1>a. /\ nRow.state = "queued" /\ nRow.attempts = 0 /\ nRow.attempts < NMaxAttempts /\ nAudits = {}
      /\ \A d \in N!Destinations : nReceived[d] = 0
      /\ NChats \subseteq N!Destinations /\ N!Inbox \in N!Destinations
  BY <1>1 DEF DeliveryGood, DeliveryTyped, DeliveryStages, NotificationsAssumption, N!NoRow, N!Destinations
<1>4. DeliveryStages'
  BY <1>1, <1>a DEF DeliveryStages, NotificationsUnsent
<1> QED
  BY <1>1, <1>3, <1>4 DEF DeliveryGood, N!AttemptsBounded, N!SentIsHandedOver, N!NoRow, DeliveryStages

LEMMA BeginAttemptKeeps ==
  ASSUME NotificationsAssumption, DeliveryGood, N!BeginAttempt
  PROVE  DeliveryGood'
<1> USE DEF DeliveryGood, DeliveryTyped
<1>1. /\ nRun.step = "attempt" /\ nRun.channel \in {"email", "telegram"} /\ nRow.attempts < NMaxAttempts
      /\ nRow.attempts \in Nat /\ NotificationsUnsent /\ nRun.result = None /\ nAudits = {}
      /\ \A d \in N!Destinations : nReceived[d] <= nRow.attempts
  BY DEF N!BeginAttempt, DeliveryStages, NotificationsAssumption, N!Row, N!AttemptsBounded
<1>2. nRow' \in N!Row /\ nRow'.state = "attempting" /\ nRow'.attempts = nRow.attempts + 1
  <2>1. nRow.attempts + 1 \in 0..NMaxAttempts
    BY <1>1 DEF NotificationsAssumption
  <2> QED
    BY <2>1 DEF N!BeginAttempt, N!Row
<1>3. /\ nRun' \in N!RunState /\ nRun'.channel = nRun.channel /\ nRun'.result = None
      /\ nRun.channel = "email" => nRun'.step = "envelope"
      /\ nRun.channel = "telegram" => nRun'.step = "chat" /\ nRun'.left = NChats
  BY <1>1 DEF N!BeginAttempt, N!RunState
<1>4. UNCHANGED <<nReceived, nLate, nAudits>>
  BY DEF N!BeginAttempt
<1>5. N!AttemptsBounded' /\ N!SentIsHandedOver'
  BY <1>1, <1>2, <1>3, <1>4 DEF N!AttemptsBounded, N!SentIsHandedOver
<1>6. DeliveryStages'
  BY <1>1, <1>2, <1>3, <1>4, <1>5 DEF DeliveryStages, NotificationsUnsent, N!Destinations
<1> QED
  BY <1>2, <1>3, <1>4, <1>5, <1>6

(* Mail: the envelope, the body and QUIT. *)
LEMMA MailKeeps ==
  ASSUME NotificationsAssumption, DeliveryGood, NEW kind \in N!Kinds \cup {None}, NEW ok \in BOOLEAN,
         N!Envelope(kind) \/ N!BodyWritten(ok, kind) \/ N!Quit(kind)
  PROVE  DeliveryGood'
<1> USE DEF DeliveryGood, DeliveryTyped
<1>0. /\ nRun.step \in {"envelope", "body", "quit"} /\ nRun.channel = "email" /\ nRun.result = None
      /\ nAudits = {} /\ nRow.state = "attempting" /\ nRow.attempts \in Nat
      /\ \A d \in N!Destinations : nReceived[d] \in Nat /\ nReceived[d] <= nRow.attempts
      /\ \A c \in NChats : nReceived[c] = 0
      /\ N!Inbox \in N!Destinations /\ N!Inbox \notin NChats /\ None \notin N!Kinds
      /\ \A d \in N!Destinations : d = N!Inbox \/ d \in NChats
  BY DEF N!Envelope, N!BodyWritten, N!Quit, DeliveryStages, N!Row, N!AttemptsBounded, N!Destinations,
     NotificationsAssumption, N!Inbox
<1>1. /\ nRow' = nRow /\ nAudits' = nAudits
      /\ nRun' \in N!RunState /\ nRun'.channel = "email" /\ nRun'.result = None
      /\ nRun'.step \in {"body", "quit", "sent", "failed"}
      /\ nRun'.step = "failed" => nRun'.kind # None /\ kind # None
      /\ nRun'.step # "failed" => kind = None
      /\ nRun'.step = "body" => nRun.step = "envelope"
  <2>0. nRow' = nRow /\ nAudits' = nAudits
    BY DEF N!Envelope, N!BodyWritten, N!Quit
  <2>1. CASE kind = None
    <3>0. (N!Step("body") /\ nRun.step = "envelope") \/ N!Step("quit") \/ N!Step("sent")
      BY <2>1 DEF N!Envelope, N!BodyWritten, N!Quit
    <3>1. PICK s \in {"body", "quit", "sent"} : N!Step(s) /\ (s = "body" => nRun.step = "envelope")
      <4>1. CASE N!Step("body") /\ nRun.step = "envelope"
        <5> WITNESS "body" \in {"body", "quit", "sent"}
        <5> QED
          BY <4>1
      <4>2. CASE N!Step("quit")
        <5> WITNESS "quit" \in {"body", "quit", "sent"}
        <5> QED
          BY <4>2
      <4>3. CASE N!Step("sent")
        <5> WITNESS "sent" \in {"body", "quit", "sent"}
        <5> QED
          BY <4>3
      <4> QED
        BY <3>0, <4>1, <4>2, <4>3
    <3>2. nRun' = [nRun EXCEPT !.step = s] /\ nRun' \in N!RunState
      BY <3>1, RunSteps DEF N!Step
    <3>3. nRun'.step = s /\ nRun'.channel = nRun.channel /\ nRun'.result = nRun.result
      BY <3>2 DEF N!RunState
    <3> QED
      BY <1>0, <2>0, <2>1, <3>1, <3>2, <3>3
  <2>2. CASE kind # None
    <3>0. kind \in N!Kinds
      BY <2>2
    <3>a. nRun' = [nRun EXCEPT !.step = "failed", !.kind = kind]
      BY <2>2 DEF N!Envelope, N!BodyWritten, N!Quit, N!Fail
    <3>1. nRun' = [nRun EXCEPT !.step = "failed", !.kind = kind] /\ nRun' \in N!RunState
      BY <3>0, <3>a, RunSteps
    <3>2. nRun'.step = "failed" /\ nRun'.kind = kind /\ nRun'.channel = nRun.channel
          /\ nRun'.result = nRun.result
      BY <3>1 DEF N!RunState
    <3> QED
      BY <1>0, <2>0, <2>2, <3>1, <3>2
  <2> QED
    BY <2>1, <2>2
<1>2. CASE N!Envelope(kind)
  <2>1. nReceived' = nReceived /\ nLate' = nLate /\ NotificationsUnsent /\ nReceived[N!Inbox] < nRow.attempts
        /\ nRun'.step \in {"body", "failed"}
    BY <1>2, <1>1 DEF N!Envelope, DeliveryStages, N!Step, N!Fail, N!RunState
  <2>2. N!AttemptsBounded' /\ N!SentIsHandedOver'
    BY <1>0, <1>1, <2>1 DEF N!AttemptsBounded, N!SentIsHandedOver
  <2>3. DeliveryStages'
    BY <1>0, <1>1, <2>1 DEF DeliveryStages, NotificationsUnsent
  <2> QED
    BY <1>1, <2>1, <2>2, <2>3
<1>3. CASE N!BodyWritten(ok, kind)
  <2>1. /\ NotificationsUnsent /\ nReceived[N!Inbox] < nRow.attempts
        /\ nReceived' = IF ok THEN [nReceived EXCEPT ![N!Inbox] = @ + 1] ELSE nReceived
        /\ nLate' = (nLate \/ (ok /\ kind # None))
        /\ nRun'.step \in {"quit", "failed"}
    BY <1>3, <1>1 DEF N!BodyWritten, DeliveryStages, N!Step, N!Fail, N!RunState, N!Get
  <2>2. /\ nReceived' \in [N!Destinations -> Nat] /\ nLate' \in BOOLEAN
        /\ nReceived'[N!Inbox] <= nRow.attempts /\ \A c \in NChats : nReceived'[c] = 0
        /\ ~ok => nReceived' = nReceived
    BY <1>0, <2>1
  <2>3. N!AttemptsBounded' /\ N!SentIsHandedOver'
    BY <1>0, <1>1, <2>2 DEF N!AttemptsBounded, N!SentIsHandedOver
  <2>4. nRun'.step = "failed" => NotificationsUnsent'
    BY <1>1, <2>1, <2>2 DEF NotificationsUnsent
  <2>5. DeliveryStages'
    BY <1>0, <1>1, <2>1, <2>2, <2>4 DEF DeliveryStages
  <2> QED
    BY <1>1, <1>0, <2>2, <2>3, <2>5
<1>4. CASE N!Quit(kind)
  <2>1. /\ nReceived' = nReceived /\ nLate' = (nLate \/ (kind # None /\ nReceived[N!Inbox] > 0))
        /\ nRun'.step \in {"sent", "failed"}
    BY <1>4, <1>1 DEF N!Quit, N!Step, N!Fail, N!RunState
  <2>2. nRun'.step = "failed" => NotificationsUnsent'
    <3>1. CASE nReceived[N!Inbox] = 0
      BY <1>0, <2>1, <3>1 DEF NotificationsUnsent
    <3>2. CASE nReceived[N!Inbox] > 0
      BY <1>1, <2>1, <3>2 DEF NotificationsUnsent
    <3> QED
      BY <1>0, <3>1, <3>2
  <2>3. N!AttemptsBounded' /\ N!SentIsHandedOver'
    BY <1>0, <1>1, <2>1 DEF N!AttemptsBounded, N!SentIsHandedOver
  <2>4. DeliveryStages'
    BY <1>0, <1>1, <2>1, <2>2 DEF DeliveryStages
  <2> QED
    BY <1>1, <1>0, <2>1, <2>3, <2>4
<1> QED
  BY <1>2, <1>3, <1>4

(* Telegram: the chats one after another. *)
LEMMA SendChatKeeps ==
  ASSUME NotificationsAssumption, DeliveryGood, NEW kind \in N!Kinds \cup {None}, NEW ok \in BOOLEAN,
         NEW c \in NChats, N!SendChat(c, ok, kind)
  PROVE  DeliveryGood'
<1> USE DEF DeliveryGood, DeliveryTyped
<1>0. /\ nRun.step = "chat" /\ nRun.channel = "telegram" /\ nRun.result = None /\ c \in nRun.left
      /\ nAudits = {} /\ nRow.state = "attempting" /\ nRow.attempts \in Nat /\ nRun.left \subseteq NChats
      /\ \A d \in N!Destinations : nReceived[d] \in Nat /\ nReceived[d] <= nRow.attempts
      /\ nReceived[N!Inbox] = 0 /\ nReceived[c] < nRow.attempts
      /\ \A d \in nRun.left : nReceived[d] < nRow.attempts
      /\ \A d \in NChats \ nRun.left : nReceived[d] > 0
      /\ N!Inbox \in N!Destinations /\ N!Inbox \notin NChats /\ None \notin N!Kinds
      /\ \A d \in N!Destinations : d = N!Inbox \/ d \in NChats
      /\ NChats \subseteq N!Destinations
  BY DEF N!SendChat, DeliveryStages, N!Row, N!RunState, N!AttemptsBounded, N!Destinations,
     NotificationsAssumption, N!Inbox
<1>1. /\ nRow' = nRow /\ nAudits' = nAudits
      /\ nReceived' = IF ok THEN [nReceived EXCEPT ![c] = @ + 1] ELSE nReceived
      /\ nLate' = (nLate \/ (kind # None /\ \E d \in NChats : nReceived'[d] > 0))
      /\ kind = None => ok
  BY DEF N!SendChat, N!Get
<1>2. /\ nReceived' \in [N!Destinations -> Nat] /\ nLate' \in BOOLEAN
      /\ nReceived'[N!Inbox] = 0 /\ (ok => nReceived'[c] > 0) /\ nReceived'[c] <= nRow.attempts
      /\ \A d \in N!Destinations : d # c => nReceived'[d] = nReceived[d]
  BY <1>0, <1>1
<1>3. N!AttemptsBounded' /\ N!SentIsHandedOver'
  <2>1. nRun'.result = None
    <3>1. \/ nRun' = [nRun EXCEPT !.step = "failed", !.kind = kind]
          \/ \E s : nRun' = [nRun EXCEPT !.left = @ \ {c}, !.step = s]
      BY DEF N!SendChat, N!Fail
    <3> QED
      BY <1>0, <3>1 DEF N!RunState
  <2> QED
    BY <1>0, <1>1, <1>2, <2>1 DEF N!AttemptsBounded, N!SentIsHandedOver
<1>4. CASE kind # None
  <2>0. kind \in N!Kinds
    BY <1>4
  <2>a. nRun' = [nRun EXCEPT !.step = "failed", !.kind = kind]
    BY <1>4 DEF N!SendChat, N!Fail
  <2>1. nRun' = [nRun EXCEPT !.step = "failed", !.kind = kind] /\ nRun' \in N!RunState
    BY <2>0, <2>a, RunSteps
  <2>2. nRun'.step = "failed" /\ nRun'.kind = kind /\ nRun'.channel = nRun.channel
        /\ nRun'.result = nRun.result
    BY <2>1 DEF N!RunState
  <2>3. NotificationsUnsent'
    <3>1. CASE \E d \in NChats : nReceived'[d] > 0
      BY <1>1, <1>4, <3>1 DEF NotificationsUnsent
    <3>2. CASE \A d \in NChats : nReceived'[d] = 0
      BY <1>0, <1>2, <3>2 DEF NotificationsUnsent
    <3> QED
      BY <1>0, <1>2, <3>1, <3>2
  <2>4. DeliveryStages'
    BY <1>0, <1>1, <1>2, <1>4, <2>2, <2>3 DEF DeliveryStages
  <2> QED
    BY <1>0, <1>1, <1>2, <1>3, <2>1, <2>4
<1>5. CASE kind = None
  <2>1. PICK s \in {"sent", "chat"} :
          /\ nRun' = [nRun EXCEPT !.left = @ \ {c}, !.step = s]
          /\ s = "sent" => nRun.left = {c}
    BY <1>5 DEF N!SendChat
  <2>a. nRun.left \ {c} \in SUBSET NChats
    BY <1>0
  <2>2. /\ nRun' \in N!RunState /\ nRun'.step = s /\ nRun'.left = nRun.left \ {c}
        /\ nRun'.channel = nRun.channel /\ nRun'.result = nRun.result
    <3>1. nRun' = [nRun EXCEPT !.step = s, !.left = nRun.left \ {c}]
      BY <2>1 DEF N!RunState
    <3>2. nRun' \in N!RunState
      BY <2>a, <3>1, RunSteps
    <3> QED
      BY <3>1, <3>2 DEF N!RunState
  <2>3. /\ \A d \in nRun.left \ {c} : nReceived'[d] < nRow.attempts
        /\ \A d \in NChats \ (nRun.left \ {c}) : nReceived'[d] > 0
    BY <1>0, <1>1, <1>2, <1>5
  <2>4. s = "sent" => \A d \in NChats : nReceived'[d] > 0
    BY <2>1, <2>3
  <2>5. DeliveryStages'
    BY <1>0, <1>1, <1>2, <2>2, <2>3, <2>4 DEF DeliveryStages
  <2> QED
    BY <1>0, <1>1, <1>2, <1>3, <2>2, <2>5
<1> QED
  BY <1>4, <1>5

(* What follows the delivery itself: nobody gets another copy. *)
LEMMA EndingsKeep ==
  ASSUME NotificationsAssumption, DeliveryGood,
         \/ N!MarkSent \/ N!AuditSent \/ N!ThrowInTry \/ N!RecordFailure \/ N!AuditFailed \/ N!ThrowOutside
  PROVE  DeliveryGood'
<1> USE DEF DeliveryGood, DeliveryTyped
<1>0. /\ nReceived' = nReceived /\ nRow.attempts \in 0..NMaxAttempts
      /\ \A k \in N!Kinds : k # None
  BY DEF N!MarkSent, N!AuditSent, N!ThrowInTry, N!RecordFailure, N!AuditFailed, N!ThrowOutside, N!Row,
     NotificationsAssumption
<1>1. CASE N!MarkSent
  <2>1. /\ nRow' = [nRow EXCEPT !.state = "sent", !.code = None] /\ nRun' = [nRun EXCEPT !.step = "auditSent"]
        /\ UNCHANGED <<nLate, nAudits>> /\ nRun.step = "sent"
    BY <1>1 DEF N!MarkSent, N!Step
  <2>2. nRow' \in N!Row /\ nRow'.state = "sent" /\ nRow'.attempts = nRow.attempts
    BY <2>1 DEF N!Row
  <2>3. nRun' \in N!RunState
    BY <2>1, RunSteps
  <2>4. nRun'.step = "auditSent" /\ nRun'.channel = nRun.channel /\ nRun'.result = nRun.result
    BY <2>1 DEF N!RunState
  <2>5. N!AttemptsBounded' /\ N!SentIsHandedOver'
    BY <1>0, <2>1, <2>2, <2>4 DEF DeliveryStages, N!AttemptsBounded, N!SentIsHandedOver
  <2>6. DeliveryStages'
    BY <1>0, <2>1, <2>2, <2>4 DEF DeliveryStages
  <2> QED
    BY <1>0, <2>1, <2>2, <2>3, <2>5, <2>6
<1>2. CASE N!AuditSent
  <2>1. /\ nRun' = [nRun EXCEPT !.step = "done", !.result = "sent"] /\ nRun.step = "auditSent"
        /\ UNCHANGED <<nRow, nLate>> /\ nAudits' = nAudits \cup {"sent"}
    BY <1>2 DEF N!AuditSent
  <2>2. nRun' \in N!RunState
    BY <2>1, RunSteps
  <2>3. nRun'.step = "done" /\ nRun'.channel = nRun.channel /\ nRun'.result = "sent"
    BY <2>1 DEF N!RunState
  <2>4. nAudits = {} /\ nRow.state = "sent"
    BY <2>1 DEF DeliveryStages
  <2>5. N!AttemptsBounded' /\ N!SentIsHandedOver'
    BY <1>0, <2>1, <2>3, <2>4 DEF N!AttemptsBounded, N!SentIsHandedOver
  <2>6. DeliveryStages'
    BY <1>0, <2>1, <2>3, <2>4 DEF DeliveryStages
  <2> QED
    BY <1>0, <2>1, <2>2, <2>4, <2>5, <2>6
<1>3. CASE N!ThrowInTry
  <2>1. /\ nRun' = [nRun EXCEPT !.step = "failed", !.kind = "unknown"] /\ nRun.step \in {"sent", "auditSent"}
        /\ UNCHANGED <<nRow, nAudits>> /\ nLate' = (nLate \/ \E d \in N!Destinations : nReceived[d] > 0)
    BY <1>3 DEF N!ThrowInTry, N!Fail
  <2>2. nRun' \in N!RunState
    BY <2>1, RunSteps DEF N!Kinds
  <2>3. /\ nRun'.step = "failed" /\ nRun'.kind = "unknown" /\ nRun'.channel = nRun.channel
        /\ nRun'.result = nRun.result
    BY <2>1 DEF N!RunState
  <2>4. nLate' \in BOOLEAN /\ NotificationsUnsent'
    <3>1. CASE \E d \in N!Destinations : nReceived[d] > 0
      BY <2>1, <3>1 DEF NotificationsUnsent
    <3>2. CASE \A d \in N!Destinations : nReceived[d] = 0
      BY <1>0, <2>1, <3>2 DEF NotificationsUnsent
    <3> QED
      BY <2>1, <3>1, <3>2
  <2>5. "unknown" # None
    BY DEF NotificationsAssumption, N!Kinds
  <2>6. nRun.result = None /\ nAudits = {} /\ nRow.state # "failed"
    BY <2>1 DEF DeliveryStages
  <2>7. N!AttemptsBounded' /\ N!SentIsHandedOver'
    BY <1>0, <2>1, <2>3, <2>6 DEF N!AttemptsBounded, N!SentIsHandedOver
  <2>8. DeliveryStages'
    BY <1>0, <2>1, <2>3, <2>4, <2>5, <2>6 DEF DeliveryStages
  <2> QED
    BY <1>0, <2>1, <2>2, <2>4, <2>7, <2>8
<1>4. CASE N!RecordFailure
  <2> DEFINE retry == N!Retryable(nRun.kind) /\ nRow.attempts < NMaxAttempts
  <2>1. /\ nRun.step = "failed" /\ UNCHANGED <<nLate, nAudits>>
        /\ nRow' = [nRow EXCEPT !.state = IF retry THEN "queued" ELSE "failed", !.code = N!CodeOf(nRun.kind)]
        /\ nRun' = [nRun EXCEPT !.step = IF retry THEN "attempt" ELSE "auditFailed"]
    BY <1>4 DEF N!RecordFailure, N!Step
  <2>2. N!CodeOf(nRun.kind) \in N!Codes /\ (retry => N!CodeOf(nRun.kind) = "transient")
    BY DEF N!CodeOf, N!Codes
  <2>6. retry => nRow.attempts < NMaxAttempts
    OBVIOUS
  <2>a. retry \in BOOLEAN
    OBVIOUS
  <2> HIDE DEF retry
  <2>3. /\ nRow' \in N!Row /\ nRow'.attempts = nRow.attempts /\ nRow'.code = N!CodeOf(nRun.kind)
        /\ nRow'.state = IF retry THEN "queued" ELSE "failed"
    BY <2>1, <2>2 DEF N!Row
  <2>4. nRun' \in N!RunState
    BY <2>1, RunSteps
  <2>b. /\ nRun'.step = (IF retry THEN "attempt" ELSE "auditFailed")
        /\ nRun'.channel = nRun.channel /\ nRun'.result = nRun.result
    BY <2>1 DEF N!RunState
  <2>5. NotificationsUnsent /\ NotificationsUnsent' /\ nRun.result = None /\ nAudits = {}
    BY <1>0, <2>1 DEF DeliveryStages, NotificationsUnsent
  <2>7. N!AttemptsBounded' /\ N!SentIsHandedOver'
    BY <1>0, <2>1, <2>2, <2>3, <2>b, <2>5 DEF N!AttemptsBounded, N!SentIsHandedOver, NotificationsUnsent
  <2>8. DeliveryStages'
    BY <1>0, <2>1, <2>3, <2>b, <2>5, <2>6 DEF DeliveryStages
  <2> QED
    BY <1>0, <2>1, <2>3, <2>4, <2>7, <2>8
<1>5. CASE N!AuditFailed
  <2>1. /\ nRun' = [nRun EXCEPT !.step = "done", !.result = "failed"] /\ nRun.step = "auditFailed"
        /\ UNCHANGED <<nRow, nLate>> /\ nAudits' = nAudits \cup {"failed"}
    BY <1>5 DEF N!AuditFailed
  <2>2. nRun' \in N!RunState
    BY <2>1, RunSteps
  <2>3. nRun'.step = "done" /\ nRun'.channel = nRun.channel /\ nRun'.result = "failed"
    BY <2>1 DEF N!RunState
  <2>4. nAudits = {} /\ nRow.state = "failed"
    BY <2>1 DEF DeliveryStages
  <2>5. N!AttemptsBounded' /\ N!SentIsHandedOver'
    BY <1>0, <2>1, <2>3, <2>4 DEF N!AttemptsBounded, N!SentIsHandedOver
  <2>6. DeliveryStages'
    BY <1>0, <2>1, <2>3, <2>4 DEF DeliveryStages
  <2> QED
    BY <1>0, <2>1, <2>2, <2>4, <2>5, <2>6
<1>6. CASE N!ThrowOutside
  <2>1. /\ nRun' = [nRun EXCEPT !.step = "done"] /\ nRun.step \in {"attempt", "failed", "auditFailed"}
        /\ UNCHANGED <<nRow, nLate, nAudits>>
    BY <1>6 DEF N!ThrowOutside, N!Step
  <2>2. nRun' \in N!RunState
    BY <2>1, RunSteps
  <2>3. nRun'.step = "done" /\ nRun'.channel = nRun.channel /\ nRun'.result = nRun.result
    BY <2>1 DEF N!RunState
  <2>4. N!AttemptsBounded' /\ N!SentIsHandedOver'
    BY <1>0, <2>1, <2>3 DEF DeliveryStages, N!AttemptsBounded, N!SentIsHandedOver
  <2>5. DeliveryStages'
    BY <1>0, <2>1, <2>3 DEF DeliveryStages
  <2> QED
    BY <1>0, <2>1, <2>2, <2>4, <2>5
<1> QED
  BY <1>1, <1>2, <1>3, <1>4, <1>5, <1>6

LEMMA NextNotifications ==
  ASSUME NotificationsAssumption, NotificationsIInv, [N!Next]_N!vars
  PROVE  NotificationsIInv'
<1>1. DeliveryGood
  BY DEF NotificationsIInv, N!NotificationsInv, N!TypeOK, DeliveryGood, DeliveryTyped
<1>2. ASSUME NEW channel \in NChannels, N!SendTest(channel) PROVE NotificationsIInv'
  BY <1>1, <1>2, SendTestKeeps, DeliveryIsApart DEF N!SendTest
<1>3. CASE N!BeginAttempt
  BY <1>1, <1>3, BeginAttemptKeeps, DeliveryIsApart DEF N!BeginAttempt
<1>4. ASSUME NEW kind \in N!Kinds \cup {None}, NEW ok \in BOOLEAN,
             N!Envelope(kind) \/ N!BodyWritten(ok, kind) \/ N!Quit(kind)
      PROVE  NotificationsIInv'
  <2>1. UNCHANGED N!sVars
    BY <1>4 DEF N!Envelope, N!BodyWritten, N!Quit
  <2> QED
    BY <1>1, <1>4, <2>1, MailKeeps, DeliveryIsApart
<1>5. ASSUME NEW kind \in N!Kinds \cup {None}, NEW ok \in BOOLEAN, NEW c \in NChats, N!SendChat(c, ok, kind)
      PROVE  NotificationsIInv'
  BY <1>1, <1>5, SendChatKeeps, DeliveryIsApart DEF N!SendChat
<1>6. ASSUME N!MarkSent \/ N!AuditSent \/ N!ThrowInTry \/ N!RecordFailure \/ N!AuditFailed \/ N!ThrowOutside
      PROVE  NotificationsIInv'
  <2>1. UNCHANGED N!sVars
    BY <1>6 DEF N!MarkSent, N!AuditSent, N!ThrowInTry, N!RecordFailure, N!AuditFailed, N!ThrowOutside
  <2> QED
    BY <1>1, <1>6, <2>1, EndingsKeep, DeliveryIsApart
<1>7. ASSUME \/ \E f \in NForms :
                  \/ \E secret \in NSecrets \cup {N!Mask}, enabled \in BOOLEAN : N!SaveRead(f, secret, enabled)
                  \/ N!SaveUpsert(f) \/ N!SaveFails(f)
             \/ \E enabled \in BOOLEAN : N!SavePreferences(enabled)
             \/ UNCHANGED N!vars
      PROVE  NotificationsIInv'
  <2>1. UNCHANGED N!dVars
    BY <1>7 DEF N!SaveRead, N!SaveUpsert, N!SaveFails, N!SavePreferences, N!vars
  <2> QED
    BY <1>7, <2>1, FormsKeep DEF N!vars
<1> QED
  BY <1>2, <1>3, <1>4, <1>5, <1>6, <1>7 DEF N!Next

(* The secret stored is the one typed last, and what a delivery reports is *)
(* what it did.                                                            *)
THEOREM NotificationsHold ==
  ASSUME NotificationsAssumption
  PROVE  N!Spec => []N!NotificationsInv
<1>1. N!Init => NotificationsIInv
  BY InitNotifications
<1>2. NotificationsIInv /\ [N!Next]_N!vars => NotificationsIInv'
  BY NextNotifications
<1>3. NotificationsIInv => N!NotificationsInv
  BY DEF NotificationsIInv
<1> QED
  BY <1>1, <1>2, <1>3, PTL DEF N!Spec

-----------------------------------------------------------------------------
(* Accounts *)

(* The cardinality is the library's. *)
LEMMA ACardinality == \A set : A!Cardinality(set) = Cardinality(set)
BY DEF A!Cardinality, Cardinality

(* A failure blocks only after others, and a block lasts as long as a window *)
(* (5 failures, 15 minutes each in the code); None is nobody.               *)
AccountsAssumption ==
  /\ IsFiniteSet(ARequests) /\ APasswords # {}
  /\ AMaxFailures \in Nat /\ AMaxFailures > 1
  /\ AWindow \in Nat \ {0} /\ ABlock \in Nat /\ AWindow <= ABlock
  /\ ASessionTTL \in Nat /\ AMaxTime \in Nat /\ AMaxFaults \in Nat
  /\ None \notin AUsers \cup ATokens \cup ARequests
  /\ None \notin [failures : 1..AMaxFailures, since : 0..AMaxTime, until : 0..(AMaxTime + ABlock)]

(* The local variables of a request. *)
AccountsRequestState ==
  [step : A!Steps, by : AUsers \cup {None}, token : ATokens \cup {None}, on : AUsers \cup {None},
   arg : APasswords \cup {None} \cup SUBSET A!RoleRows]

Exists(u) == u \in AUsers /\ aUser[u].state # "absent"

(* What a request has established keeps holding: the ids it names are those *)
(* of users, and the rights it found are still there.                       *)
AccountsSound(r, rec) ==
  /\ rec.step # "idle" => rec.on \in AUsers
  /\ rec.step \in {"bootRead", "bootInsert"} => aLock = r
  /\ rec.step \in {"bootRead", "bootInsert", "reset"} => rec.arg \in APasswords
  /\ rec.step = "bootInsert" => \A u \in AUsers : ~Exists(u)
  /\ rec.step \in {"clear", "issue"} => Exists(rec.on)
  /\ rec.step \in A!AdminSteps \cup {"revoke"} => Exists(rec.by)
  /\ rec.step \in A!AdminSteps => rec.token \in ATokens
  /\ rec.step = "create" => rec.arg \in (SUBSET A!RoleRows) \ {{}}
  /\ rec.step \in {"disable", "enable", "reset", "revoke"} => Exists(rec.on) /\ A!CanDisable(rec.by, rec.on)
  /\ rec.step \in {"disable", "enable"} => rec.by # rec.on

AccountsRequestsSound ==
  /\ aRequest \in [ARequests -> AccountsRequestState]
  /\ \A r \in ARequests : AccountsSound(r, aRequest[r])

UserState == [state : {"absent", "active", "disabled"}, roles : SUBSET A!RoleRows,
              password : APasswords \cup {None}]
TokenState == [state : {"unused", "live", "revoked"}, user : AUsers \cup {None},
               until : 0..(AMaxTime + ASessionTTL)]

(* Users, their tokens and the requests about them. *)
UsersSound ==
  /\ aUser \in [AUsers -> UserState] /\ aToken \in [ATokens -> TokenState]
  /\ aLock \in ARequests \cup {None}
  /\ AccountsRequestsSound /\ A!UsersHaveRoles
  /\ \A t \in ATokens : aToken[t].state = "live" => Exists(aToken[t].user)
  /\ aBootstrapped \in Nat
  /\ aBootstrapped > 0 => aBootstrapped = 1 /\ \E u \in AUsers : Exists(u)

(* The row of the window: it blocks from the last failure allowed until the *)
(* window is over.                                                          *)
LimitState == [failures : 1..AMaxFailures, since : 0..AMaxTime, until : 0..(AMaxTime + ABlock)]

LimitSound ==
  /\ aLimit \in LimitState \cup {None}
  /\ aLimit # None =>
       /\ aLimit.since <= aNow
       /\ aLimit.failures < AMaxFailures => aLimit.until = 0
       /\ aLimit.failures = AMaxFailures => aLimit.until >= aLimit.since + AWindow

(* The passwords examined are recorded, about to be, or lost to a fault;    *)
(* during a block those are counted that were let in before it.             *)
Examining == {r \in ARequests : aRequest[r].step = "verify"}
Recording == {r \in ARequests : aRequest[r].step = "wrong"}

ExaminedCounted ==
  /\ aExamined \in Nat
  /\ A!WindowOver(aLimit, aNow) => aExamined <= Cardinality(Recording) + aFaults
  /\ ~A!WindowOver(aLimit, aNow) /\ aLimit.failures < AMaxFailures =>
       aExamined <= aLimit.failures + Cardinality(Recording) + aFaults
  /\ ~A!WindowOver(aLimit, aNow) /\ aLimit.failures = AMaxFailures =>
       aExamined + Cardinality(Examining) <= AMaxFailures - 1 + Cardinality(ARequests) + aFaults

WindowSound == aNow \in 0..AMaxTime /\ aFaults \in 0..AMaxFaults /\ LimitSound /\ ExaminedCounted

AccountsIInv == UsersSound /\ WindowSound

LEMMA AccountsSuffices ==
  ASSUME AccountsAssumption, AccountsIInv
  PROVE  A!AccountsInv
<1>1. A!TypeOK
  BY DEF AccountsIInv, UsersSound, AccountsRequestsSound, AccountsRequestState, WindowSound, LimitSound, LimitState, A!TypeOK,
     UserState, TokenState
<1>2. A!BootstrapOnce
  BY DEF AccountsIInv, UsersSound, A!BootstrapOnce
<1>3. A!ExaminedBounded
  <2>1. /\ IsFiniteSet(Recording) /\ IsFiniteSet(Examining)
        /\ Cardinality(Recording) <= Cardinality(ARequests)
        /\ Cardinality(Examining) \in Nat /\ Cardinality(Recording) \in Nat
        /\ Cardinality(ARequests) \in Nat
    <3>1. Recording \subseteq ARequests /\ Examining \subseteq ARequests /\ IsFiniteSet(ARequests)
      BY DEF Recording, Examining, AccountsAssumption
    <3> QED
      BY <3>1, FS_Subset, FS_CardinalityType, ACardinality
  <2>2. aFaults \in Nat /\ aExamined \in Nat /\ AMaxFailures \in Nat /\ AMaxFailures > 1
    BY DEF AccountsIInv, WindowSound, ExaminedCounted, AccountsAssumption
  <2>3. CASE A!WindowOver(aLimit, aNow)
    BY <2>1, <2>2, <2>3, ACardinality DEF AccountsIInv, WindowSound, ExaminedCounted, A!ExaminedBounded
  <2>4. CASE ~A!WindowOver(aLimit, aNow)
    <3>1. aLimit.failures \in Nat /\ aLimit.failures <= AMaxFailures
      BY <2>4, <2>2 DEF A!WindowOver, AccountsIInv, WindowSound, LimitSound, LimitState
    <3>2. CASE aLimit.failures < AMaxFailures
      BY <2>1, <2>2, <2>4, <3>1, <3>2, ACardinality DEF AccountsIInv, WindowSound, ExaminedCounted, A!ExaminedBounded
    <3>3. CASE aLimit.failures = AMaxFailures
      BY <2>1, <2>2, <2>4, <3>1, <3>3, ACardinality DEF AccountsIInv, WindowSound, ExaminedCounted, A!ExaminedBounded
    <3> QED
      BY <2>2, <3>1, <3>2, <3>3
  <2> QED
    BY <2>3, <2>4
<1> QED
  BY <1>1, <1>2, <1>3 DEF A!AccountsInv, AccountsIInv, UsersSound

LEMMA InitAccounts ==
  ASSUME AccountsAssumption, A!Init
  PROVE  AccountsIInv
<1>1. A!Absent \in UserState /\ A!Unused \in TokenState /\ A!Idle \in AccountsRequestState
  <2>1. {} \in SUBSET A!RoleRows
    OBVIOUS
  <2> QED
    BY <2>1 DEF A!Absent, A!Unused, A!Idle, UserState, TokenState, AccountsRequestState, A!Steps, AccountsAssumption
<1>2. AccountsRequestsSound
  BY <1>1 DEF A!Init, AccountsRequestsSound, AccountsSound, A!Idle, A!AdminSteps
<1>3. UsersSound
  BY <1>1, <1>2 DEF A!Init, UsersSound, A!UsersHaveRoles, A!Absent, A!Unused
<1>4. LimitSound /\ aNow \in 0..AMaxTime /\ aFaults \in 0..AMaxFaults
  BY DEF A!Init, LimitSound, AccountsAssumption
<1>5. Cardinality(Recording) \in Nat
  <2>1. Recording \subseteq ARequests /\ IsFiniteSet(ARequests)
    BY DEF Recording, AccountsAssumption
  <2> QED
    BY <2>1, FS_Subset, FS_CardinalityType, ACardinality
<1>6. ExaminedCounted
  BY <1>5 DEF A!Init, ExaminedCounted, A!WindowOver
<1> QED
  BY <1>3, <1>4, <1>6 DEF AccountsIInv, WindowSound

-----------------------------------------------------------------------------
(* Nobody vanishes, and the roles of a user stay. *)
UsersKept ==
  \A u \in AUsers : Exists(u) => aUser'[u].state # "absent" /\ aUser'[u].roles = aUser[u].roles

NobodyNew == \A u \in AUsers : aUser'[u].state # "absent" => Exists(u)

(* What a request has established survives what others do.                 *)
LEMMA AccountsSoundKept ==
  ASSUME AccountsAssumption, UsersKept, NEW q \in ARequests, NEW rec \in AccountsRequestState, AccountsSound(q, rec),
         aLock = q => aLock' = q,
         rec.step = "bootInsert" => NobodyNew
  PROVE  AccountsSound(q, rec)'
<1>1. \A u : Exists(u) => Exists(u)' /\ aUser'[u].roles = aUser[u].roles
  BY DEF Exists, UsersKept
<1>2. rec.step \in {"disable", "enable", "reset", "revoke"} => A!CanDisable(rec.by, rec.on)'
  <2> SUFFICES ASSUME rec.step \in {"disable", "enable", "reset", "revoke"}
               PROVE  A!CanDisable(rec.by, rec.on)'
    OBVIOUS
  <2>1. Exists(rec.by) /\ Exists(rec.on) /\ A!CanDisable(rec.by, rec.on)
    BY DEF AccountsSound, A!AdminSteps
  <2> QED
    BY <1>1, <2>1 DEF A!CanDisable, A!CanManage
<1>3. rec.step = "bootInsert" => \A u \in AUsers : ~Exists(u)'
  BY DEF AccountsSound, NobodyNew, Exists
<1> QED
  BY <1>1, <1>2, <1>3 DEF AccountsSound

(* A request moves on, and the others stand where they stood.              *)
LEMMA AccountsRequestMoves ==
  ASSUME AccountsAssumption, UsersSound, UsersKept,
         NEW r \in ARequests, NEW rec \in AccountsRequestState, A!Become(r, rec), AccountsSound(r, rec)',
         aLock' = aLock \/ aLock = r \/ aLock = None,
         NobodyNew \/ \A q \in ARequests \ {r} : aRequest[q].step # "bootInsert"
  PROVE  AccountsRequestsSound'
<1>1. /\ aRequest' = [aRequest EXCEPT ![r] = rec] /\ aRequest \in [ARequests -> AccountsRequestState]
      /\ \A q \in ARequests : AccountsSound(q, aRequest[q])
  BY DEF A!Become, UsersSound, AccountsRequestsSound
<1>2. aRequest' \in [ARequests -> AccountsRequestState] /\ aRequest'[r] = rec
      /\ \A q \in ARequests \ {r} : aRequest'[q] = aRequest[q]
  BY <1>1
<1>3. ASSUME NEW q \in ARequests PROVE AccountsSound(q, aRequest[q])'
  <2>1. CASE q = r
    <3>1. aRequest'[q] = rec
      BY <1>2, <2>1
    <3> QED
      BY <2>1, <3>1 DEF AccountsSound
  <2>2. CASE q # r
    <3>0. aRequest'[q] = aRequest[q] /\ aRequest[q] \in AccountsRequestState
      BY <1>1, <1>2, <2>2
    <3>1. PICK old \in AccountsRequestState : old = aRequest[q]
      BY <3>0
    <3>2. AccountsSound(q, old)
      BY <1>1, <3>1
    <3>3. aLock = q => aLock' = q
      BY <2>2 DEF AccountsAssumption
    <3>4. AccountsSound(q, old)'
      BY <2>2, <3>1, <3>2, <3>3, AccountsSoundKept
    <3> QED
      BY <3>0, <3>1, <3>4 DEF AccountsSound
  <2> QED
    BY <2>1, <2>2
<1> QED
  BY <1>2, <1>3 DEF AccountsRequestsSound

LEMMA AccountsStepsOfRequests ==
  ASSUME NEW r \in ARequests, AccountsRequestsSound, NEW s \in A!Steps
  PROVE  /\ [aRequest[r] EXCEPT !.step = s] \in AccountsRequestState
         /\ [aRequest[r] EXCEPT !.step = s].step = s /\ [aRequest[r] EXCEPT !.step = s].by = aRequest[r].by
         /\ [aRequest[r] EXCEPT !.step = s].token = aRequest[r].token
         /\ [aRequest[r] EXCEPT !.step = s].on = aRequest[r].on
         /\ [aRequest[r] EXCEPT !.step = s].arg = aRequest[r].arg
<1>1. aRequest[r] \in AccountsRequestState
  BY DEF AccountsRequestsSound
<1> QED
  BY <1>1 DEF AccountsRequestState

LEMMA AccountsIdleIsSound ==
  ASSUME AccountsAssumption, NEW r \in ARequests
  PROVE  A!Idle \in AccountsRequestState /\ AccountsSound(r, A!Idle) /\ AccountsSound(r, A!Idle)'
BY DEF A!Idle, AccountsRequestState, A!Steps, AccountsSound, A!AdminSteps

LEMMA NewRequests ==
  ASSUME NEW s \in A!Steps, NEW u \in AUsers, NEW p \in APasswords
  PROVE  /\ [step |-> s, by |-> None, token |-> None, on |-> u, arg |-> p] \in AccountsRequestState
         /\ [A!Idle EXCEPT !.step = s, !.on = u, !.arg = p] =
              [step |-> s, by |-> None, token |-> None, on |-> u, arg |-> p]
<1>1. [step |-> s, by |-> None, token |-> None, on |-> u, arg |-> p] \in AccountsRequestState
  BY DEF AccountsRequestState
<1>2. [A!Idle EXCEPT !.step = s, !.on = u, !.arg = p] =
        [step |-> s, by |-> None, token |-> None, on |-> u, arg |-> p]
  <2>1. [A!Idle EXCEPT !.step = s] = [step |-> s, by |-> None, token |-> None, on |-> None, arg |-> None]
    BY DEF A!Idle
  <2>2. [A!Idle EXCEPT !.step = s, !.on = u] =
          [[step |-> s, by |-> None, token |-> None, on |-> None, arg |-> None] EXCEPT !.on = u]
    BY <2>1, Zenon
  <2>3. [[step |-> s, by |-> None, token |-> None, on |-> None, arg |-> None] EXCEPT !.on = u] =
          [step |-> s, by |-> None, token |-> None, on |-> u, arg |-> None]
    OBVIOUS
  <2>4. [A!Idle EXCEPT !.step = s, !.on = u, !.arg = p] =
          [[step |-> s, by |-> None, token |-> None, on |-> u, arg |-> None] EXCEPT !.arg = p]
    BY <2>2, <2>3, Zenon
  <2>5. [[step |-> s, by |-> None, token |-> None, on |-> u, arg |-> None] EXCEPT !.arg = p] =
          [step |-> s, by |-> None, token |-> None, on |-> u, arg |-> p]
    OBVIOUS
  <2> QED
    BY <2>4, <2>5
<1> QED
  BY <1>1, <1>2

(* Steps that leave the users and tokens alone.                            *)
LEMMA RequestOnly ==
  ASSUME AccountsAssumption, UsersSound, UNCHANGED <<aUser, aToken, aBootstrapped>>,
         NEW r \in ARequests, NEW rec \in AccountsRequestState, A!Become(r, rec), AccountsSound(r, rec)',
         aLock' \in ARequests \cup {None}, aLock' = aLock \/ aLock = r \/ aLock = None
  PROVE  UsersSound'
<1>1. UsersKept /\ NobodyNew
  BY DEF UsersKept, NobodyNew, Exists
<1>2. AccountsRequestsSound'
  BY <1>1, AccountsRequestMoves
<1>3. \A u : Exists(u)' <=> Exists(u)
  BY DEF Exists
<1> QED
  BY <1>2, <1>3 DEF UsersSound, A!UsersHaveRoles

LEMMA BootstrapsBeginSoundly ==
  ASSUME AccountsAssumption, UsersSound, NEW r \in ARequests,
         \/ \E u \in AUsers, p \in APasswords : A!BootstrapLock(r, u, p)
         \/ A!BootstrapRead(r)
  PROVE  UsersSound'
<1>1. ASSUME NEW u \in AUsers, NEW p \in APasswords, A!BootstrapLock(r, u, p) PROVE UsersSound'
  <2> DEFINE rec == [step |-> "bootRead", by |-> None, token |-> None, on |-> u, arg |-> p]
  <2>0. "bootRead" \in A!Steps
    BY DEF A!Steps
  <2>1. rec \in AccountsRequestState /\ A!Become(r, rec) /\ aLock' = r /\ aLock = None
        /\ UNCHANGED <<aUser, aToken, aBootstrapped>>
    BY <1>1, <2>0, NewRequests DEF A!BootstrapLock
  <2>2. AccountsSound(r, rec)'
    BY <2>1 DEF AccountsSound, A!AdminSteps
  <2> QED
    BY <2>1, <2>2, RequestOnly
<1>2. CASE A!BootstrapRead(r)
  <2>0. /\ AccountsRequestsSound /\ aRequest[r].step = "bootRead" /\ aLock = r
        /\ aRequest[r].on \in AUsers /\ aRequest[r].arg \in APasswords
        /\ UNCHANGED <<aUser, aToken, aBootstrapped>>
    BY <1>2 DEF A!BootstrapRead, A!AtStep, UsersSound, AccountsRequestsSound, AccountsSound
  <2>1. CASE \E u \in AUsers : aUser[u].state # "absent"
    <3>1. A!Become(r, A!Idle) /\ aLock' = None
      BY <1>2, <2>1 DEF A!BootstrapRead, A!Finish
    <3> QED
      BY <2>0, <3>1, AccountsIdleIsSound, RequestOnly
  <2>2. CASE \A u \in AUsers : aUser[u].state = "absent"
    <3> DEFINE rec == [aRequest[r] EXCEPT !.step = "bootInsert"]
    <3>1. A!Become(r, rec) /\ aLock' = aLock
      BY <1>2, <2>2 DEF A!BootstrapRead, A!GoTo, A!Become, UsersSound, AccountsRequestsSound
    <3>2. /\ rec \in AccountsRequestState /\ rec.step = "bootInsert"
          /\ rec.on = aRequest[r].on /\ rec.arg = aRequest[r].arg
      BY <2>0, AccountsStepsOfRequests DEF A!Steps
    <3> HIDE DEF rec
    <3>3. PICK new \in AccountsRequestState : new = rec
      BY <3>2
    <3>4. new.step = "bootInsert" /\ new.on \in AUsers /\ new.arg \in APasswords
      BY <2>0, <3>2, <3>3
    <3>5. AccountsSound(r, new)'
      BY <2>0, <2>2, <3>1, <3>4 DEF AccountsSound, A!AdminSteps, Exists
    <3> QED
      BY <2>0, <3>1, <3>3, <3>5, RequestOnly DEF UsersSound
  <2> QED
    BY <2>1, <2>2
<1> QED
  BY <1>1, <1>2

LEMMA LoginsAreSound ==
  ASSUME AccountsAssumption, UsersSound, NEW r \in ARequests,
         \/ \E u \in AUsers, p \in APasswords : A!LoginCheck(r, u, p)
         \/ A!LoginVerify(r) \/ A!LoginWrong(r) \/ A!LoginClear(r)
  PROVE  UsersSound'
<1>0. UNCHANGED <<aUser, aToken, aBootstrapped, aLock>> /\ AccountsRequestsSound /\ aLock \in ARequests \cup {None}
  BY DEF A!LoginCheck, A!LoginVerify, A!LoginWrong, A!LoginClear, UsersSound
<1>1. ASSUME NEW u \in AUsers, NEW p \in APasswords, A!LoginCheck(r, u, p) PROVE UsersSound'
  <2>1. CASE UNCHANGED aRequest
    BY <1>0, <2>1 DEF UsersSound, AccountsRequestsSound, AccountsSound, A!UsersHaveRoles, Exists, A!CanDisable, A!CanManage
  <2>2. CASE ~UNCHANGED aRequest
    <3> DEFINE rec == [step |-> "verify", by |-> None, token |-> None, on |-> u, arg |-> p]
    <3>0. "verify" \in A!Steps
      BY DEF A!Steps
    <3>1. rec \in AccountsRequestState /\ A!Become(r, rec)
      BY <1>1, <2>2, <3>0, NewRequests DEF A!LoginCheck
    <3>2. AccountsSound(r, rec)'
      BY DEF AccountsSound, A!AdminSteps
    <3> QED
      BY <1>0, <3>1, <3>2, RequestOnly
  <2> QED
    BY <2>1, <2>2
<1>2. CASE A!LoginWrong(r)
  BY <1>0, <1>2, AccountsIdleIsSound, RequestOnly DEF A!LoginWrong, A!Finish
<1>3. ASSUME NEW s \in {"clear", "wrong", "issue"}, A!GoTo(r, s), aRequest[r].step \in {"verify", "clear"},
             s \in {"clear", "issue"} => Exists(aRequest[r].on)
      PROVE  UsersSound'
  <2> DEFINE rec == [aRequest[r] EXCEPT !.step = s]
  <2>1. A!Become(r, rec) /\ aRequest[r].on \in AUsers
    BY <1>0, <1>3 DEF A!GoTo, A!Become, AccountsRequestsSound, AccountsSound
  <2>2. rec \in AccountsRequestState /\ rec.step = s /\ rec.on = aRequest[r].on
    BY <1>0, AccountsStepsOfRequests DEF A!Steps
  <2> HIDE DEF rec
  <2>3. PICK new \in AccountsRequestState : new = rec
    BY <2>2
  <2>4. new.step = s /\ new.on \in AUsers /\ (s \in {"clear", "issue"} => Exists(new.on))
    BY <1>3, <2>1, <2>2, <2>3
  <2>5. AccountsSound(r, new)'
    BY <1>0, <2>4 DEF AccountsSound, A!AdminSteps, Exists
  <2> QED
    BY <1>0, <2>1, <2>3, <2>5, RequestOnly
<1>4. CASE A!LoginVerify(r)
  <2>1. aRequest[r].step = "verify" /\ aRequest[r].on \in AUsers
    BY <1>0, <1>4 DEF A!LoginVerify, A!AtStep, AccountsRequestsSound, AccountsSound
  <2>2. CASE A!GoTo(r, "clear") /\ aUser[aRequest[r].on].state = "active"
    BY <1>3, <2>1, <2>2 DEF Exists
  <2>3. CASE A!GoTo(r, "wrong")
    BY <1>3, <2>1, <2>3
  <2> QED
    BY <1>4, <2>2, <2>3 DEF A!LoginVerify
<1>5. CASE A!LoginClear(r)
  <2>1. aRequest[r].step = "clear" /\ A!GoTo(r, "issue")
    BY <1>5 DEF A!LoginClear, A!AtStep
  <2>2. Exists(aRequest[r].on)
    BY <1>0, <2>1 DEF AccountsRequestsSound, AccountsSound
  <2> QED
    BY <1>3, <2>1, <2>2
<1> QED
  BY <1>1, <1>2, <1>4, <1>5

LEMMA RolesGiven ==
  /\ A!AllAdmin \in (SUBSET A!RoleRows) \ {{}}
  /\ {<<"personal", "viewer">>} \in (SUBSET A!RoleRows) \ {{}}
<1>1. <<"personal", "admin">> \in A!AllAdmin /\ <<"personal", "viewer">> \in A!RoleRows
      /\ A!AllAdmin \subseteq A!RoleRows
  BY DEF A!AllAdmin, A!RoleRows, A!Scopes, A!RoleNames
<1> QED
  BY <1>1

(* An administrator's request starts with the rights it found, or ends.    *)
LEMMA AdminRequestsAreSound ==
  ASSUME AccountsAssumption, UsersSound, NEW r \in ARequests,
         \/ \E t \in ATokens, op \in A!AdminSteps, on \in AUsers :
              \E arg \in A!AdminInput(op) : A!AdminStart(r, t, op, on, arg)
         \/ A!Refused(r) \/ A!Throw(r)
  PROVE  UsersSound'
<1>1. ASSUME NEW t \in ATokens, NEW op \in A!AdminSteps, NEW on \in AUsers, NEW arg \in A!AdminInput(op),
             A!AdminStart(r, t, op, on, arg)
      PROVE  UsersSound'
  <2> DEFINE rec == [step |-> op, by |-> aToken[t].user, token |-> t, on |-> on, arg |-> arg]
  <2>1. /\ A!Become(r, rec) /\ UNCHANGED <<aUser, aToken, aLock, aBootstrapped>>
        /\ op # "create" => aUser[on].state # "absent"
        /\ A!Authenticated(t) /\ A!MayAct(aToken[t].user, op, on, arg)
    BY <1>1 DEF A!AdminStart
  <2>2. Exists(aToken[t].user) /\ aToken[t].user \in AUsers
    BY <2>1 DEF A!Authenticated, UsersSound, Exists
  <2>3. /\ op = "create" => arg \in (SUBSET A!RoleRows) \ {{}}
        /\ op = "reset" => arg \in APasswords
        /\ op \notin {"create", "reset"} => arg = None
    BY RolesGiven DEF A!AdminInput
  <2>4. op # "create" => A!CanDisable(aToken[t].user, on) /\ (op # "reset" => aToken[t].user # on)
    BY <2>1 DEF A!MayAct
  <2>5. rec \in AccountsRequestState
    <3>1. arg \in APasswords \cup {None} \cup SUBSET A!RoleRows /\ op \in A!Steps
      BY <2>3 DEF A!Steps, A!AdminSteps
    <3> QED
      BY <2>2, <3>1 DEF AccountsRequestState
  <2>6. PICK new \in AccountsRequestState : new = rec
    BY <2>5
  <2>7. new.step = op /\ new.by = aToken[t].user /\ new.token = t /\ new.on = on /\ new.arg = arg
    BY <2>6
  <2> HIDE DEF rec
  <2>8. AccountsSound(r, new)
    BY <2>1, <2>2, <2>3, <2>4, <2>7 DEF AccountsSound, A!AdminSteps, Exists
  <2>9. AccountsSound(r, new)'
    BY <2>1, <2>8 DEF AccountsSound, Exists, A!CanDisable, A!CanManage
  <2> QED
    BY <2>1, <2>6, <2>9, RequestOnly DEF UsersSound
<1>2. CASE A!Refused(r)
  BY <1>2, AccountsIdleIsSound, RequestOnly DEF A!Refused, A!Finish, UsersSound
<1>3. CASE A!Throw(r)
  <2>1. /\ A!Become(r, A!Idle) /\ UNCHANGED <<aUser, aToken, aBootstrapped>>
        /\ aLock' \in ARequests \cup {None} /\ (aLock' = aLock \/ aLock = r)
    BY <1>3 DEF A!Throw, A!Finish, UsersSound
  <2> QED
    BY <2>1, AccountsIdleIsSound, RequestOnly
<1> QED
  BY <1>1, <1>2, <1>3

(* Tokens are given to users, and taken from them.                         *)
LEMMA TokensAreSound ==
  ASSUME AccountsAssumption, UsersSound, aNow \in 0..AMaxTime,
         \/ \E t \in ATokens : A!Logout(t) \/ \E r \in ARequests : A!IssueSession(r, t)
         \/ \E r \in ARequests : A!DisableRevoke(r)
  PROVE  UsersSound'
<1>0. /\ UNCHANGED <<aUser, aLock, aBootstrapped>> /\ UsersKept /\ NobodyNew /\ AccountsRequestsSound
      /\ aUser \in [AUsers -> UserState] /\ aToken \in [ATokens -> TokenState] /\ aLock \in ARequests \cup {None}
  BY DEF A!IssueSession, A!Logout, A!DisableRevoke, UsersKept, NobodyNew, Exists, UsersSound
<1>1. A!Revoked \in TokenState /\ A!Revoked.state = "revoked"
  BY DEF A!Revoked, A!Unused, TokenState, AccountsAssumption
<1>2. ASSUME aToken' \in [ATokens -> TokenState], AccountsRequestsSound',
             \A t \in ATokens : aToken'[t].state = "live" =>
               Exists(aToken'[t].user) \/ (aToken[t].state = "live" /\ aToken'[t].user = aToken[t].user)
      PROVE  UsersSound'
  BY <1>0, <1>2 DEF UsersSound, A!UsersHaveRoles, Exists
<1>3. ASSUME NEW r \in ARequests, A!Finish(r) PROVE AccountsRequestsSound'
  BY <1>0, <1>3, AccountsIdleIsSound, AccountsRequestMoves DEF A!Finish
<1>4. ASSUME NEW r \in ARequests, NEW t \in ATokens, A!IssueSession(r, t) PROVE UsersSound'
  <2>1. Exists(aRequest[r].on) /\ aRequest[r].on \in AUsers
    BY <1>0, <1>4 DEF A!IssueSession, A!AtStep, AccountsRequestsSound, AccountsSound, Exists
  <2> DEFINE new == [state |-> "live", user |-> aRequest[r].on, until |-> aNow + ASessionTTL]
  <2>2. aToken' = [aToken EXCEPT ![t] = new] /\ A!Finish(r)
    BY <1>4 DEF A!IssueSession
  <2>3. aNow + ASessionTTL \in 0..(AMaxTime + ASessionTTL)
    BY DEF AccountsAssumption
  <2>4. new \in TokenState /\ new.user = aRequest[r].on
    BY <2>1, <2>3 DEF TokenState
  <2> HIDE DEF new
  <2> QED
    BY <1>0, <1>2, <1>3, <2>1, <2>2, <2>4
<1>5. ASSUME NEW t \in ATokens, A!Logout(t) PROVE UsersSound'
  <2>1. aToken' = [aToken EXCEPT ![t] = A!Revoked] /\ aRequest' = aRequest
    BY <1>5 DEF A!Logout
  <2>2. AccountsRequestsSound'
    BY <1>0, <2>1 DEF AccountsRequestsSound, AccountsSound, Exists, A!CanDisable, A!CanManage
  <2> QED
    BY <1>0, <1>1, <1>2, <2>1, <2>2
<1>6. ASSUME NEW r \in ARequests, A!DisableRevoke(r) PROVE UsersSound'
  <2>1. aToken' = A!RevokedOf(aRequest[r].on) /\ A!Finish(r)
    BY <1>6 DEF A!DisableRevoke
  <2>2. aToken' \in [ATokens -> TokenState] /\
        \A t \in ATokens : aToken'[t].state = "live" => aToken'[t] = aToken[t]
    BY <1>0, <1>1, <2>1 DEF A!RevokedOf
  <2> QED
    BY <1>2, <1>3, <2>1, <2>2
<1> QED
  BY <1>4, <1>5, <1>6

(* A user appears or changes, with the roles it had.                       *)
LEMMA UserChanges ==
  ASSUME UsersSound, NEW u \in AUsers, NEW new \in UserState,
         aUser' = [aUser EXCEPT ![u] = new], new.state # "absent",
         Exists(u) => new.roles = aUser[u].roles
  PROVE  UsersKept /\ (Exists(u) => NobodyNew)
<1>1. /\ aUser \in [AUsers -> UserState]
      /\ aUser'[u] = new /\ \A v \in AUsers : v # u => aUser'[v] = aUser[v]
  BY DEF UsersSound
<1> QED
  BY <1>1 DEF UsersKept, NobodyNew, Exists

LEMMA ChangedUsersAreSound ==
  ASSUME UsersSound, NEW u \in AUsers, NEW new \in UserState,
         aUser' = [aUser EXCEPT ![u] = new], new.state # "absent", new.roles # {},
         Exists(u) => new.roles = aUser[u].roles,
         aToken' \in [ATokens -> TokenState],
         \A t \in ATokens : aToken'[t].state = "live" => aToken'[t] = aToken[t],
         AccountsRequestsSound', aLock' \in ARequests \cup {None},
         \/ aBootstrapped' = aBootstrapped
         \/ aBootstrapped' = aBootstrapped + 1 /\ \A v \in AUsers : ~Exists(v)
  PROVE  UsersSound'
<1>1. /\ aUser \in [AUsers -> UserState] /\ aUser' \in [AUsers -> UserState]
      /\ aUser'[u] = new /\ \A v \in AUsers : v # u => aUser'[v] = aUser[v]
  BY DEF UsersSound
<1>2. UsersKept
  BY UserChanges
<1>3. \A v : Exists(v) => Exists(v)'
  BY <1>2 DEF UsersKept, Exists
<1>4. Exists(u)' /\ A!UsersHaveRoles'
  BY <1>1 DEF A!UsersHaveRoles, Exists, UsersSound
<1>5. \A t \in ATokens : aToken'[t].state = "live" => Exists(aToken[t].user)'
  <2> SUFFICES ASSUME NEW t \in ATokens, aToken'[t].state = "live" PROVE Exists(aToken[t].user)'
    OBVIOUS
  <2>1. PICK v : v = aToken[t].user
    OBVIOUS
  <2>2. Exists(v) /\ aToken'[t].user = v
    BY <2>1 DEF UsersSound
  <2>3. Exists(v)'
    BY <1>3, <2>2
  <2> QED
    BY <2>2, <2>3 DEF Exists
<1>6. CASE aBootstrapped' = aBootstrapped
  <2>1. aBootstrapped' > 0 => \E v \in AUsers : Exists(v)'
    BY <1>4
  <2>2. aBootstrapped' \in Nat /\ (aBootstrapped' > 0 => aBootstrapped' = 1)
    BY <1>6 DEF UsersSound
  <2> QED
    BY <1>1, <1>4, <1>5, <2>1, <2>2 DEF UsersSound
<1>7. CASE aBootstrapped' = aBootstrapped + 1 /\ \A v \in AUsers : ~Exists(v)
  <2>1. \E v \in AUsers : Exists(v)'
    BY <1>4
  <2>2. aBootstrapped' = 1
    BY <1>7 DEF UsersSound
  <2> QED
    BY <1>1, <1>4, <1>5, <2>1, <2>2 DEF UsersSound
<1> QED
  BY <1>6, <1>7

LEMMA UsersAreSound ==
  ASSUME AccountsAssumption, UsersSound, NEW r \in ARequests,
         \/ A!BootstrapInsert(r) \/ \E repeated \in BOOLEAN : A!CreateUser(r, repeated)
         \/ A!DisableFlag(r) \/ A!EnableUser(r) \/ A!ResetPassword(r)
  PROVE  UsersSound'
<1>0. /\ AccountsRequestsSound /\ aUser \in [AUsers -> UserState] /\ aToken \in [ATokens -> TokenState]
      /\ aLock \in ARequests \cup {None} /\ AccountsSound(r, aRequest[r]) /\ A!UsersHaveRoles
      /\ \A q \in ARequests : AccountsSound(q, aRequest[q])
  BY DEF UsersSound, AccountsRequestsSound
<1>1. CASE A!BootstrapInsert(r)
  <2> DEFINE new == [state |-> "active", roles |-> A!AllAdmin, password |-> aRequest[r].arg]
             rec == [aRequest[r] EXCEPT !.step = "issue"]
  <2>1. /\ aRequest[r].step = "bootInsert" /\ aUser' = [aUser EXCEPT ![aRequest[r].on] = new]
        /\ aBootstrapped' = aBootstrapped + 1 /\ aLock' = None /\ aToken' = aToken /\ A!Become(r, rec)
    BY <1>1, <1>0 DEF A!BootstrapInsert, A!AtStep, A!GoTo, A!Become, AccountsRequestsSound
  <2>2. PICK u \in AUsers : u = aRequest[r].on
    BY <1>0, <2>1 DEF AccountsSound
  <2>3. aRequest[r].arg \in APasswords /\ aLock = r /\ \A v \in AUsers : ~Exists(v)
    BY <1>0, <2>1 DEF AccountsSound
  <2>4. new \in UserState /\ new.state = "active" /\ new.roles # {}
    BY <2>3, RolesGiven DEF UserState
  <2> HIDE DEF new
  <2>5. UsersKept
    BY <2>1, <2>2, <2>3, <2>4, UserChanges
  <2>6. rec \in AccountsRequestState /\ rec.step = "issue" /\ rec.on = u
    BY <1>0, <2>2, AccountsStepsOfRequests DEF A!Steps
  <2> HIDE DEF rec
  <2>7. PICK granted \in AccountsRequestState : granted = rec
    BY <2>6
  <2>8. granted.step = "issue" /\ granted.on = u
    BY <2>6, <2>7
  <2>9. AccountsSound(r, granted)'
    BY <1>0, <2>1, <2>2, <2>4, <2>8 DEF AccountsSound, Exists, A!AdminSteps
  <2>10. \A q \in ARequests \ {r} : aRequest[q].step # "bootInsert"
    BY <1>0, <2>3 DEF AccountsSound
  <2>11. AccountsRequestsSound'
    BY <2>1, <2>3, <2>5, <2>7, <2>9, <2>10, AccountsRequestMoves
  <2> QED
    BY <1>0, <2>1, <2>2, <2>3, <2>4, <2>11, ChangedUsersAreSound
<1>2. ASSUME NEW repeated \in BOOLEAN, A!CreateUser(r, repeated) PROVE UsersSound'
  <2>1. /\ aRequest[r].step = "create" /\ A!Become(r, A!Idle) /\ UNCHANGED <<aToken, aLock, aBootstrapped>>
    BY <1>2 DEF A!CreateUser, A!AtStep, A!Finish
  <2>2. PICK u \in AUsers : u = aRequest[r].on
    BY <1>0, <2>1 DEF AccountsSound
  <2>3. CASE aUser[u].state # "absent" \/ repeated
    <3>1. aUser' = aUser
      BY <1>2, <2>2, <2>3 DEF A!CreateUser
    <3> QED
      BY <1>0, <2>1, <3>1, AccountsIdleIsSound, RequestOnly
  <2>4. CASE ~(aUser[u].state # "absent" \/ repeated)
    <3> DEFINE new == [state |-> "active", roles |-> aRequest[r].arg,
                       password |-> CHOOSE p \in APasswords : TRUE]
    <3>1. aUser' = [aUser EXCEPT ![u] = new]
      BY <1>2, <2>2, <2>4 DEF A!CreateUser
    <3>2. aRequest[r].arg \in (SUBSET A!RoleRows) \ {{}} /\ Exists(aRequest[r].by)
      BY <1>0, <2>1 DEF AccountsSound, A!AdminSteps
    <3>3. (CHOOSE p \in APasswords : TRUE) \in APasswords
      BY DEF AccountsAssumption
    <3>4. new \in UserState /\ new.state = "active" /\ new.roles # {}
      BY <3>2, <3>3 DEF UserState
    <3> HIDE DEF new
    <3>5. UsersKept
      BY <2>4, <3>1, <3>4, UserChanges DEF Exists
    <3>6. \A q \in ARequests \ {r} : aRequest[q].step # "bootInsert"
      BY <1>0, <3>2 DEF AccountsSound, Exists
    <3>7. AccountsRequestsSound'
      BY <2>1, <3>5, <3>6, AccountsIdleIsSound, AccountsRequestMoves
    <3> QED
      BY <1>0, <2>1, <2>4, <3>1, <3>4, <3>7, ChangedUsersAreSound DEF Exists
  <2> QED
    BY <2>3, <2>4
<1>3. ASSUME NEW u \in AUsers, u = aRequest[r].on, Exists(u), NEW new \in UserState,
             aUser' = [aUser EXCEPT ![u] = new], new.state # "absent", new.roles = aUser[u].roles,
             NEW rec \in AccountsRequestState, A!Become(r, rec), AccountsSound(r, rec)',
             aToken' \in [ATokens -> TokenState],
             \A t \in ATokens : aToken'[t].state = "live" => aToken'[t] = aToken[t],
             UNCHANGED <<aLock, aBootstrapped>>
      PROVE  UsersSound'
  <2>1. UsersKept /\ NobodyNew
    BY <1>3, UserChanges
  <2>2. AccountsRequestsSound'
    BY <1>3, <2>1, AccountsRequestMoves
  <2>3. new.roles # {} /\ aLock' \in ARequests \cup {None}
    BY <1>0, <1>3 DEF A!UsersHaveRoles, Exists
  <2> QED
    BY <1>3, <2>2, <2>3, ChangedUsersAreSound
<1>4. ASSUME NEW u \in AUsers, Exists(u), NEW s \in {"active", "disabled"}
      PROVE  /\ [aUser[u] EXCEPT !.state = s] \in UserState
             /\ [aUser[u] EXCEPT !.state = s].state = s
             /\ [aUser[u] EXCEPT !.state = s].roles = aUser[u].roles
  BY <1>0, <1>4 DEF UserState
<1>5. aRequest[r].step \in {"disable", "enable", "reset"} =>
        Exists(aRequest[r].on) /\ aRequest[r].on \in AUsers /\ Exists(aRequest[r].by)
  BY <1>0 DEF AccountsSound, A!AdminSteps
<1>6. CASE A!DisableFlag(r)
  <2> DEFINE rec == [aRequest[r] EXCEPT !.step = "revoke"]
             new == [aUser[aRequest[r].on] EXCEPT !.state = "disabled"]
  <2>1. /\ aRequest[r].step = "disable" /\ A!Become(r, rec) /\ UNCHANGED <<aToken, aLock, aBootstrapped>>
        /\ aUser' = [aUser EXCEPT ![aRequest[r].on] = new]
    BY <1>0, <1>6 DEF A!DisableFlag, A!AtStep, A!GoTo, A!Become, A!SetState, AccountsRequestsSound
  <2>2. PICK u \in AUsers : u = aRequest[r].on /\ Exists(u)
    BY <1>5, <2>1
  <2>3. new \in UserState /\ new.state = "disabled" /\ new.roles = aUser[u].roles
    BY <1>4, <2>2
  <2>4. /\ rec \in AccountsRequestState /\ rec.step = "revoke"
        /\ rec.by = aRequest[r].by /\ rec.on = aRequest[r].on
    BY <1>0, AccountsStepsOfRequests DEF A!Steps
  <2> HIDE DEF rec, new
  <2>5. PICK later \in AccountsRequestState : later = rec
    BY <2>4
  <2>6. AccountsSound(r, later)
    BY <1>0, <2>1, <2>4, <2>5 DEF AccountsSound, A!AdminSteps
  <2>7. UsersKept /\ NobodyNew
    BY <2>1, <2>2, <2>3, UserChanges
  <2>8. AccountsSound(r, later)'
    BY <2>1, <2>6, <2>7, AccountsSoundKept
  <2> QED
    BY <1>0, <1>3, <2>1, <2>2, <2>3, <2>5, <2>8
<1>7. CASE A!EnableUser(r)
  <2> DEFINE new == [aUser[aRequest[r].on] EXCEPT !.state = "active"]
  <2>1. /\ aRequest[r].step = "enable" /\ A!Become(r, A!Idle) /\ UNCHANGED <<aToken, aLock, aBootstrapped>>
        /\ aUser' = [aUser EXCEPT ![aRequest[r].on] = new]
    BY <1>0, <1>7 DEF A!EnableUser, A!AtStep, A!Finish, A!SetState
  <2>2. PICK u \in AUsers : u = aRequest[r].on /\ Exists(u)
    BY <1>5, <2>1
  <2>3. new \in UserState /\ new.state = "active" /\ new.roles = aUser[u].roles
    BY <1>4, <2>2
  <2> HIDE DEF new
  <2> QED
    BY <1>0, <1>3, <2>1, <2>2, <2>3, AccountsIdleIsSound
<1>8. CASE A!ResetPassword(r)
  <2> DEFINE new == [aUser[aRequest[r].on] EXCEPT !.password = aRequest[r].arg]
  <2>1. /\ aRequest[r].step = "reset" /\ A!Become(r, A!Idle) /\ UNCHANGED <<aLock, aBootstrapped>>
        /\ aUser' = [aUser EXCEPT ![aRequest[r].on] = new] /\ aToken' = A!RevokedOf(aRequest[r].on)
    BY <1>0, <1>8 DEF A!ResetPassword, A!AtStep, A!Finish
  <2>2. PICK u \in AUsers : u = aRequest[r].on /\ Exists(u)
    BY <1>5, <2>1
  <2>3. aRequest[r].arg \in APasswords
    BY <1>0, <2>1 DEF AccountsSound
  <2>4. new \in UserState /\ new.state = aUser[u].state /\ new.roles = aUser[u].roles
    BY <1>0, <2>2, <2>3 DEF UserState
  <2>5. A!Revoked \in TokenState /\ A!Revoked.state = "revoked"
    BY DEF A!Revoked, A!Unused, TokenState, AccountsAssumption
  <2>6. /\ aToken' \in [ATokens -> TokenState]
        /\ \A t \in ATokens : aToken'[t].state = "live" => aToken'[t] = aToken[t]
    BY <1>0, <2>1, <2>5 DEF A!RevokedOf
  <2> HIDE DEF new
  <2> QED
    BY <1>0, <1>3, <2>1, <2>2, <2>4, <2>6, AccountsIdleIsSound DEF Exists
<1> QED
  BY <1>1, <1>2, <1>6, <1>7, <1>8

-----------------------------------------------------------------------------
(* How many requests examine a password, and how many are to record one.   *)
LEMMA Counted ==
  ASSUME AccountsAssumption
  PROVE  /\ IsFiniteSet(Recording) /\ IsFiniteSet(Examining)
         /\ Cardinality(Recording) \in Nat /\ Cardinality(Examining) \in Nat
         /\ Cardinality(ARequests) \in Nat
         /\ Cardinality(Recording) + Cardinality(Examining) <= Cardinality(ARequests)
<1>1. /\ Recording \subseteq ARequests /\ Examining \subseteq ARequests /\ IsFiniteSet(ARequests)
      /\ Recording \cap Examining = {} /\ Recording \cup Examining \subseteq ARequests
  BY DEF Recording, Examining, AccountsAssumption
<1>2. IsFiniteSet(Recording) /\ IsFiniteSet(Examining)
  BY <1>1, FS_Subset
<1>3. Cardinality(Recording \cup Examining) = Cardinality(Recording) + Cardinality(Examining)
  <2>1. Cardinality(Recording \cup Examining)
          = Cardinality(Recording) + Cardinality(Examining) - Cardinality(Recording \cap Examining)
    BY <1>2, FS_Union
  <2>2. Cardinality(Recording \cap Examining) = 0
    BY <1>1, FS_EmptySet
  <2> QED
    BY <1>2, <2>1, <2>2, FS_CardinalityType, ACardinality
<1>4. Cardinality(Recording \cup Examining) <= Cardinality(ARequests)
  BY <1>1, FS_Subset
<1> QED
  BY <1>1, <1>2, <1>3, <1>4, FS_CardinalityType, ACardinality

LEMMA InFlightIs == A!InFlight = Cardinality(Recording)
BY ACardinality DEF A!InFlight, Recording, A!AtStep

LEMMA CountsMove ==
  ASSUME AccountsAssumption, AccountsRequestsSound, NEW r \in ARequests, NEW rec, A!Become(r, rec)
  PROVE  /\ Cardinality(Recording)' = Cardinality(Recording)
              - (IF aRequest[r].step = "wrong" THEN 1 ELSE 0) + (IF rec.step = "wrong" THEN 1 ELSE 0)
         /\ Cardinality(Examining)' = Cardinality(Examining)
              - (IF aRequest[r].step = "verify" THEN 1 ELSE 0) + (IF rec.step = "verify" THEN 1 ELSE 0)
<1>1. \A q \in ARequests : aRequest'[q] = IF q = r THEN rec ELSE aRequest[q]
  BY DEF A!Become, AccountsRequestsSound
<1>2. Recording' = IF rec.step = "wrong" THEN Recording \cup {r} ELSE Recording \ {r}
  BY <1>1 DEF Recording
<1>3. Examining' = IF rec.step = "verify" THEN Examining \cup {r} ELSE Examining \ {r}
  BY <1>1 DEF Examining
<1>4. (r \in Recording <=> aRequest[r].step = "wrong") /\ (r \in Examining <=> aRequest[r].step = "verify")
  BY DEF Recording, Examining
<1>5. ASSUME NEW set, IsFiniteSet(set)
      PROVE  /\ Cardinality(set) \in Nat
             /\ Cardinality(set \cup {r}) = IF r \in set THEN Cardinality(set) ELSE Cardinality(set) + 1
             /\ Cardinality(set \ {r}) = IF r \in set THEN Cardinality(set) - 1 ELSE Cardinality(set)
  BY <1>5, FS_AddElement, FS_RemoveElement, FS_CardinalityType, ACardinality
<1>6. IsFiniteSet(Recording) /\ IsFiniteSet(Examining)
  BY Counted
<1>7. Cardinality(Recording)' = Cardinality(Recording)
        - (IF aRequest[r].step = "wrong" THEN 1 ELSE 0) + (IF rec.step = "wrong" THEN 1 ELSE 0)
  <2> DEFINE n == Cardinality(Recording)
             with == Cardinality(Recording \cup {r})
             without == Cardinality(Recording \ {r})
  <2>1. n \in Nat /\ with = (IF r \in Recording THEN n ELSE n + 1) /\ without = (IF r \in Recording THEN n - 1 ELSE n)
    BY <1>5, <1>6
  <2>2. n' = IF rec.step = "wrong" THEN with ELSE without
    BY <1>2
  <2> HIDE DEF n, with, without
  <2>3. n' = n - (IF aRequest[r].step = "wrong" THEN 1 ELSE 0) + (IF rec.step = "wrong" THEN 1 ELSE 0)
    <3>1. CASE rec.step = "wrong"
      BY <1>4, <2>1, <2>2, <3>1
    <3>2. CASE rec.step # "wrong"
      BY <1>4, <2>1, <2>2, <3>2
    <3> QED
      BY <3>1, <3>2
  <2> QED
    BY <2>3 DEF n
<1>8. Cardinality(Examining)' = Cardinality(Examining)
        - (IF aRequest[r].step = "verify" THEN 1 ELSE 0) + (IF rec.step = "verify" THEN 1 ELSE 0)
  <2> DEFINE n == Cardinality(Examining)
             with == Cardinality(Examining \cup {r})
             without == Cardinality(Examining \ {r})
  <2>1. n \in Nat /\ with = (IF r \in Examining THEN n ELSE n + 1) /\ without = (IF r \in Examining THEN n - 1 ELSE n)
    BY <1>5, <1>6
  <2>2. n' = IF rec.step = "verify" THEN with ELSE without
    BY <1>3
  <2> HIDE DEF n, with, without
  <2>3. n' = n - (IF aRequest[r].step = "verify" THEN 1 ELSE 0) + (IF rec.step = "verify" THEN 1 ELSE 0)
    <3>1. CASE rec.step = "verify"
      BY <1>4, <2>1, <2>2, <3>1
    <3>2. CASE rec.step # "verify"
      BY <1>4, <2>1, <2>2, <3>2
    <3> QED
      BY <3>1, <3>2
  <2> QED
    BY <2>3 DEF n
<1> QED
  BY <1>7, <1>8

(* Steps that neither examine nor record a password leave the window alone. *)
LEMMA WindowApart ==
  ASSUME AccountsAssumption, AccountsRequestsSound, WindowSound, UNCHANGED <<aLimit, aNow, aFaults, aExamined>>,
         \/ UNCHANGED aRequest
         \/ \E r \in ARequests : \E rec :
              /\ A!Become(r, rec) /\ aRequest[r].step \notin {"verify", "wrong"}
              /\ rec.step \notin {"verify", "wrong"}
  PROVE  WindowSound'
<1>1. Cardinality(Recording)' = Cardinality(Recording) /\ Cardinality(Examining)' = Cardinality(Examining)
  <2>1. CASE UNCHANGED aRequest
    BY <2>1 DEF Recording, Examining
  <2>2. CASE ~UNCHANGED aRequest
    <3>1. PICK r \in ARequests : \E rec :
            /\ A!Become(r, rec) /\ aRequest[r].step \notin {"verify", "wrong"}
            /\ rec.step \notin {"verify", "wrong"}
      BY <2>2
    <3>2. PICK rec : /\ A!Become(r, rec) /\ aRequest[r].step \notin {"verify", "wrong"}
                     /\ rec.step \notin {"verify", "wrong"}
      BY <3>1
    <3> QED
      BY <3>2, CountsMove, Counted
  <2> QED
    BY <2>1, <2>2
<1> QED
  BY <1>1 DEF WindowSound, LimitSound, ExaminedCounted, A!WindowOver

(* What a failure makes of the row of the window.                          *)
LEMMA AfterFailureIs ==
  ASSUME AccountsAssumption, aNow \in 0..AMaxTime, LimitSound,
         NEW row, row = A!AfterFailure(aLimit, aNow)
  PROVE  /\ row \in LimitState /\ row # None /\ row.since <= aNow
         /\ row.failures < AMaxFailures => row.until = 0
         /\ row.failures = AMaxFailures => row.until >= row.since + AWindow
         /\ ~A!WindowOver(row, aNow)
         /\ A!WindowOver(aLimit, aNow) => row.failures = 1
         /\ ~A!WindowOver(aLimit, aNow) /\ aLimit.failures < AMaxFailures => row.failures = aLimit.failures + 1
         /\ ~A!WindowOver(aLimit, aNow) /\ aLimit.failures = AMaxFailures => row = aLimit
<1> USE DEF AccountsAssumption
<1>0. None \notin LimitState
  BY DEF LimitState
<1>1. CASE A!WindowOver(aLimit, aNow)
  <2>1. row = [failures |-> 1, since |-> aNow, until |-> 0]
    BY <1>1, <1>0 DEF A!AfterFailure, A!WindowOver, A!Swept, A!Expired, LimitSound, LimitState
  <2>2. 1 \in 1..AMaxFailures /\ 0 \in 0..(AMaxTime + ABlock)
    OBVIOUS
  <2>3. row \in LimitState /\ row.failures = 1 /\ row.since = aNow /\ row.until = 0
    BY <2>1, <2>2 DEF LimitState
  <2> QED
    BY <1>0, <1>1, <2>3 DEF A!WindowOver
<1>2. CASE ~A!WindowOver(aLimit, aNow)
  <2>1. /\ aLimit # None /\ aLimit \in LimitState /\ aLimit.since + AWindow > aNow
        /\ aLimit.failures \in 1..AMaxFailures /\ aLimit.since \in Nat /\ aLimit.until \in Nat
        /\ aLimit.since <= aNow
    BY <1>2 DEF A!WindowOver, LimitSound, LimitState
  <2>2. A!Swept(aLimit, aNow) = aLimit
    BY <2>1 DEF A!Swept, A!Expired
  <2>3. CASE aLimit.failures = AMaxFailures
    <3>1. A!Blocked(aLimit, aNow)
      BY <2>1, <2>3 DEF A!Blocked, LimitSound
    <3>2. row = aLimit
      BY <2>1, <2>2, <3>1 DEF A!AfterFailure
    <3> QED
      BY <1>2, <2>1, <2>3, <3>2 DEF LimitSound
  <2>4. CASE aLimit.failures < AMaxFailures
    <3> DEFINE until == IF aLimit.failures + 1 >= AMaxFailures THEN aNow + ABlock ELSE 0
    <3>1. aLimit.until = 0 /\ ~A!Blocked(aLimit, aNow)
      BY <2>1, <2>4 DEF A!Blocked, LimitSound
    <3>2. row = [aLimit EXCEPT !.failures = aLimit.failures + 1, !.until = until]
      BY <2>1, <2>2, <3>1 DEF A!AfterFailure
    <3>3. /\ until \in 0..(AMaxTime + ABlock) /\ aLimit.failures + 1 \in 1..AMaxFailures
          /\ aLimit.failures + 1 < AMaxFailures => until = 0
          /\ aLimit.failures + 1 = AMaxFailures => until >= aLimit.since + AWindow
      BY <2>1, <2>4
    <3> HIDE DEF until
    <3>4. /\ row.failures = aLimit.failures + 1 /\ row.since = aLimit.since /\ row.until = until
          /\ row \in LimitState
      BY <2>1, <3>2, <3>3 DEF LimitState
    <3> QED
      BY <1>0, <1>2, <2>1, <2>4, <3>3, <3>4 DEF A!WindowOver
  <2> QED
    BY <2>1, <2>3, <2>4
<1> QED
  BY <1>1, <1>2

LEMMA FailureIsCounted ==
  ASSUME AccountsAssumption, WindowSound, aLimit' = A!AfterFailure(aLimit, aNow), UNCHANGED <<aNow, aFaults>>,
         aExamined' = IF A!WindowOver(aLimit, aNow) THEN A!InFlight ELSE aExamined,
         Cardinality(Recording)' \in {Cardinality(Recording), Cardinality(Recording) - 1},
         Cardinality(Examining)' = Cardinality(Examining)
  PROVE  WindowSound'
<1> DEFINE w == Cardinality(Recording)
           v == Cardinality(Examining)
           n == Cardinality(ARequests)
<1>1. w \in Nat /\ v \in Nat /\ n \in Nat /\ w + v <= n /\ w' \in Nat /\ v' = v
      /\ w' \in {w, w - 1} /\ A!InFlight = w
  <2>1. w' \in Nat
    <3>1. Recording' \subseteq ARequests /\ IsFiniteSet(ARequests)
      BY DEF Recording, AccountsAssumption
    <3>2. IsFiniteSet(Recording')
      BY <3>1, FS_Subset
    <3> QED
      BY <3>2, FS_CardinalityType, ACardinality
  <2> QED
    BY <2>1, Counted, InFlightIs
<1>2. /\ aNow \in 0..AMaxTime /\ aFaults \in Nat /\ aExamined \in Nat /\ LimitSound
      /\ A!WindowOver(aLimit, aNow) => aExamined <= w + aFaults
      /\ ~A!WindowOver(aLimit, aNow) /\ aLimit.failures < AMaxFailures => aExamined <= aLimit.failures + w + aFaults
      /\ ~A!WindowOver(aLimit, aNow) /\ aLimit.failures = AMaxFailures => aExamined + v <= AMaxFailures - 1 + n + aFaults
  BY DEF WindowSound, ExaminedCounted
<1> HIDE DEF w, v, n
<1>3. PICK row : row = A!AfterFailure(aLimit, aNow)
  OBVIOUS
<1>4. /\ row \in LimitState /\ row # None /\ row.since <= aNow
      /\ row.failures < AMaxFailures => row.until = 0
      /\ row.failures = AMaxFailures => row.until >= row.since + AWindow
      /\ ~A!WindowOver(row, aNow)
      /\ A!WindowOver(aLimit, aNow) => row.failures = 1
      /\ ~A!WindowOver(aLimit, aNow) /\ aLimit.failures < AMaxFailures => row.failures = aLimit.failures + 1
      /\ ~A!WindowOver(aLimit, aNow) /\ aLimit.failures = AMaxFailures => row = aLimit
  BY <1>2, <1>3, AfterFailureIs
<1>5. LimitSound'
  BY <1>3, <1>4 DEF LimitSound
<1>6. aExamined' \in Nat
  BY <1>1, <1>2
<1>7. ~A!WindowOver(aLimit, aNow) => aLimit.failures \in Nat /\ aLimit.failures <= AMaxFailures
  BY <1>2 DEF A!WindowOver, LimitSound, LimitState, AccountsAssumption
<1>8. row.failures < AMaxFailures => aExamined' <= row.failures + w' + aFaults
  <2>1. CASE A!WindowOver(aLimit, aNow)
    BY <1>1, <1>2, <1>4, <2>1
  <2>2. CASE ~A!WindowOver(aLimit, aNow)
    BY <1>1, <1>2, <1>4, <1>7, <2>2 DEF AccountsAssumption
  <2> QED
    BY <2>1, <2>2
<1>9. row.failures = AMaxFailures => aExamined' + v' <= AMaxFailures - 1 + n + aFaults
  <2>1. CASE A!WindowOver(aLimit, aNow)
    BY <1>1, <1>2, <1>4, <2>1 DEF AccountsAssumption
  <2>2. CASE ~A!WindowOver(aLimit, aNow)
    BY <1>1, <1>2, <1>4, <1>7, <2>2 DEF AccountsAssumption
  <2> QED
    BY <2>1, <2>2
<1>10. ExaminedCounted'
  BY <1>3, <1>4, <1>6, <1>8, <1>9 DEF ExaminedCounted, A!WindowOver, w, v, n
<1> QED
  BY <1>5, <1>10 DEF WindowSound

LEMMA Carry ==
  ASSUME NEW e \in Int, NEW e1 \in Int, NEW w \in Int, NEW w1 \in Int, NEW f \in Int, NEW f1 \in Int,
         e <= w + f, e1 + w + f <= e + w1 + f1
  PROVE  e1 <= w1 + f1
OBVIOUS

LEMMA CarryBoth ==
  ASSUME NEW e \in Int, NEW e1 \in Int, NEW w \in Int, NEW w1 \in Int, NEW f \in Int, NEW f1 \in Int,
         NEW n \in Int, e <= n + w + f, e1 + w + f <= e + w1 + f1
  PROVE  e1 <= n + w1 + f1
OBVIOUS

LEMMA CarryOver ==
  ASSUME NEW e \in Int, NEW e1 \in Int, NEW v \in Int, NEW v1 \in Int, NEW f \in Int, NEW f1 \in Int,
         NEW m \in Int, NEW n \in Int, e + v <= m - 1 + n + f, e1 + v1 + f <= e + v + f1
  PROVE  e1 + v1 <= m - 1 + n + f1
OBVIOUS

(* In a window that goes on, no more passwords are examined than are to be  *)
(* recorded or lost, and none in a block that was not let in before it.     *)
LEMMA WindowGoesOn ==
  ASSUME AccountsAssumption, WindowSound, UNCHANGED <<aLimit, aNow>>,
         aFaults' \in 0..AMaxFaults, aExamined' \in Nat,
         Cardinality(Recording)' \in Nat, Cardinality(Examining)' \in Nat,
         aExamined' + Cardinality(Recording) + aFaults <= aExamined + Cardinality(Recording)' + aFaults',
         ~A!WindowOver(aLimit, aNow) /\ aLimit.failures = AMaxFailures =>
           aExamined' + Cardinality(Examining)' + aFaults <= aExamined + Cardinality(Examining) + aFaults'
  PROVE  WindowSound'
<1> DEFINE w == Cardinality(Recording)
           v == Cardinality(Examining)
           n == Cardinality(ARequests)
<1>1. w \in Nat /\ v \in Nat /\ n \in Nat /\ w' \in Nat /\ v' \in Nat
  BY Counted
<1>2. /\ aFaults \in Nat /\ aFaults' \in Nat /\ aExamined \in Nat /\ aExamined' \in Nat /\ AMaxFailures \in Nat
      /\ LimitSound
  BY DEF WindowSound, ExaminedCounted, AccountsAssumption
<1>3. LimitSound' /\ aNow' \in 0..AMaxTime /\ (A!WindowOver(aLimit, aNow)' <=> A!WindowOver(aLimit, aNow))
  BY DEF WindowSound, LimitSound, A!WindowOver
<1>4. A!WindowOver(aLimit, aNow) => aExamined' <= w' + aFaults'
  <2>1. SUFFICES ASSUME A!WindowOver(aLimit, aNow) PROVE aExamined' <= w' + aFaults'
    OBVIOUS
  <2>2. aExamined <= w + aFaults
    BY <2>1 DEF WindowSound, ExaminedCounted
  <2>3. aExamined' + w + aFaults <= aExamined + w' + aFaults'
    OBVIOUS
  <2> QED
    BY <1>1, <1>2, <2>2, <2>3, Carry
<1>5. ~A!WindowOver(aLimit, aNow) /\ aLimit.failures < AMaxFailures => aExamined' <= aLimit.failures + w' + aFaults'
  <2>1. SUFFICES ASSUME ~A!WindowOver(aLimit, aNow), aLimit.failures < AMaxFailures
                 PROVE  aExamined' <= aLimit.failures + w' + aFaults'
    OBVIOUS
  <2>2. aExamined <= aLimit.failures + w + aFaults
    BY <2>1 DEF WindowSound, ExaminedCounted
  <2>3. aExamined' + w + aFaults <= aExamined + w' + aFaults'
    OBVIOUS
  <2>4. aLimit.failures \in Nat
    BY <1>2, <2>1 DEF A!WindowOver, LimitSound, LimitState
  <2>5. aLimit.failures + w + aFaults = (aLimit.failures + aFaults) + w /\ aLimit.failures + aFaults \in Nat
    BY <1>1, <1>2, <2>4
  <2> QED
    BY <1>1, <1>2, <2>2, <2>3, <2>4, <2>5, CarryBoth
<1>6. ~A!WindowOver(aLimit, aNow) /\ aLimit.failures = AMaxFailures =>
        aExamined' + v' <= AMaxFailures - 1 + n + aFaults'
  <2>1. SUFFICES ASSUME ~A!WindowOver(aLimit, aNow), aLimit.failures = AMaxFailures
                 PROVE  aExamined' + v' <= AMaxFailures - 1 + n + aFaults'
    OBVIOUS
  <2>2. aExamined + v <= AMaxFailures - 1 + n + aFaults
    BY <2>1 DEF WindowSound, ExaminedCounted
  <2>3. aExamined' + v' + aFaults <= aExamined + v + aFaults'
    BY <2>1
  <2> QED
    BY <1>1, <1>2, <2>2, <2>3, CarryOver
<1>7. ExaminedCounted'
  BY <1>3, <1>4, <1>5, <1>6 DEF ExaminedCounted
<1> QED
  BY <1>3, <1>7 DEF WindowSound

(* Where the window is over, what is examined is yet to be recorded.        *)
LEMMA WindowEnds ==
  ASSUME AccountsAssumption, LimitSound', A!WindowOver(aLimit, aNow)', aNow' \in 0..AMaxTime,
         aFaults' \in 0..AMaxFaults, aExamined' \in Nat, aExamined' <= Cardinality(Recording)' + aFaults'
  PROVE  WindowSound'
BY DEF WindowSound, ExaminedCounted

(* The steps of logins, a fault and the clock.                             *)
LEMMA ChecksKeepWindow ==
  ASSUME AccountsAssumption, AccountsRequestsSound, WindowSound,
         NEW r \in ARequests, NEW u \in AUsers, NEW p \in APasswords, A!LoginCheck(r, u, p)
  PROVE  WindowSound'
<1> DEFINE w == Cardinality(Recording)
           v == Cardinality(Examining)
<1>1. w \in Nat /\ v \in Nat /\ UNCHANGED <<aNow, aFaults, aExamined>> /\ aLimit' = A!Swept(aLimit, aNow)
      /\ aRequest[r].step = "idle"
  BY Counted DEF A!LoginCheck, A!AtStep
<1>2. /\ aNow \in 0..AMaxTime /\ aFaults \in 0..AMaxFaults /\ aFaults \in Nat /\ aExamined \in Nat /\ LimitSound
  BY DEF WindowSound, ExaminedCounted, AccountsAssumption
<1>3. PICK rec : rec = [A!Idle EXCEPT !.step = "verify", !.on = u, !.arg = p]
  OBVIOUS
<1>4. rec.step = "verify"
  BY <1>3 DEF A!Idle
<1>5. IF A!Blocked(aLimit', aNow) THEN UNCHANGED aRequest ELSE A!Become(r, rec)
  BY <1>3 DEF A!LoginCheck
<1>6. w' = w /\ v' \in {v, v + 1} /\ (A!Blocked(aLimit', aNow) => v' = v)
  <2>1. CASE A!Blocked(aLimit', aNow)
    BY <1>5, <2>1 DEF Recording, Examining
  <2>2. CASE ~A!Blocked(aLimit', aNow)
    <3>1. A!Become(r, rec)
      BY <1>5, <2>2
    <3> QED
      BY <1>1, <1>4, <2>2, <3>1, CountsMove
  <2> QED
    BY <2>1, <2>2
<1>7. CASE aLimit' = aLimit
  <2>1. ~A!WindowOver(aLimit, aNow) /\ aLimit.failures = AMaxFailures => A!Blocked(aLimit, aNow)
    BY <1>2 DEF A!WindowOver, A!Blocked, LimitSound, LimitState, AccountsAssumption
  <2>2. /\ w' \in Nat /\ v' \in Nat /\ aExamined' + w + aFaults <= aExamined + w' + aFaults'
        /\ ~A!WindowOver(aLimit, aNow) /\ aLimit.failures = AMaxFailures =>
             aExamined' + v' + aFaults <= aExamined + v + aFaults'
    BY <1>1, <1>2, <1>6, <1>7, <2>1
  <2>3. aFaults' \in 0..AMaxFaults /\ aExamined' \in Nat /\ UNCHANGED <<aLimit, aNow>>
    BY <1>1, <1>2, <1>7
  <2> QED
    BY <2>2, <2>3, WindowGoesOn DEF w, v
<1>8. CASE aLimit' # aLimit
  <2>1. aLimit' = None /\ A!Expired(aLimit, aNow)
    BY <1>1, <1>8 DEF A!Swept
  <2>2. A!WindowOver(aLimit, aNow) /\ A!WindowOver(aLimit, aNow)' /\ LimitSound'
    BY <1>2, <2>1 DEF A!WindowOver, A!Expired, LimitSound, LimitState, AccountsAssumption
  <2>3. aExamined <= w + aFaults
    BY <2>2 DEF WindowSound, ExaminedCounted
  <2> QED
    BY <1>1, <1>2, <1>6, <2>2, <2>3, WindowEnds
<1> QED
  BY <1>7, <1>8

LEMMA VerifyingKeepsWindow ==
  ASSUME AccountsAssumption, AccountsRequestsSound, WindowSound, NEW r \in ARequests, A!LoginVerify(r)
  PROVE  WindowSound'
<1> DEFINE w == Cardinality(Recording)
           v == Cardinality(Examining)
<1>1. w \in Nat /\ v \in Nat
  BY Counted
<1>2. PICK s \in {"clear", "wrong"} :
        A!GoTo(r, s) /\ aExamined' = aExamined + (IF s = "wrong" THEN 1 ELSE 0)
  <2>1. aExamined \in Nat
    BY DEF WindowSound, ExaminedCounted
  <2>2. CASE aUser[aRequest[r].on].state = "active" /\ aUser[aRequest[r].on].password = aRequest[r].arg
    <3>1. A!GoTo(r, "clear") /\ aExamined' = aExamined
      BY <2>2 DEF A!LoginVerify
    <3> WITNESS "clear" \in {"clear", "wrong"}
    <3> QED
      BY <2>1, <3>1
  <2>3. CASE ~(aUser[aRequest[r].on].state = "active" /\ aUser[aRequest[r].on].password = aRequest[r].arg)
    <3>1. A!GoTo(r, "wrong") /\ aExamined' = aExamined + 1
      BY <2>3 DEF A!LoginVerify
    <3> WITNESS "wrong" \in {"clear", "wrong"}
    <3> QED
      BY <3>1
  <2> QED
    BY <2>2, <2>3
<1>3. PICK rec : rec = [aRequest[r] EXCEPT !.step = s]
  OBVIOUS
<1>4. A!Become(r, rec) /\ rec.step = s /\ aRequest[r].step = "verify"
  <2>1. s \in A!Steps
    BY DEF A!Steps
  <2>2. rec.step = s
    BY <1>3, <2>1, AccountsStepsOfRequests
  <2>3. A!Become(r, rec)
    BY <1>2, <1>3 DEF A!GoTo, A!Become, AccountsRequestsSound
  <2> QED
    BY <2>2, <2>3 DEF A!LoginVerify, A!AtStep
<1>5. v' = v - 1 + 0 /\ w' = w - 0 + (IF s = "wrong" THEN 1 ELSE 0)
  <2>1. /\ w' = w - (IF aRequest[r].step = "wrong" THEN 1 ELSE 0) + (IF rec.step = "wrong" THEN 1 ELSE 0)
        /\ v' = v - (IF aRequest[r].step = "verify" THEN 1 ELSE 0) + (IF rec.step = "verify" THEN 1 ELSE 0)
    BY <1>4, CountsMove
  <2> QED
    BY <1>2, <1>4, <2>1
<1>6. v' \in Nat /\ w' \in Nat
  <2>1. Recording' \subseteq ARequests /\ Examining' \subseteq ARequests /\ IsFiniteSet(ARequests)
    BY DEF Recording, Examining, AccountsAssumption
  <2> QED
    BY <2>1, FS_Subset, FS_CardinalityType, ACardinality
<1>7. UNCHANGED <<aLimit, aNow, aFaults>> /\ aFaults \in 0..AMaxFaults /\ aFaults \in Nat /\ aExamined \in Nat
  BY DEF A!LoginVerify, WindowSound, ExaminedCounted, AccountsAssumption
<1>8. /\ aExamined' \in Nat /\ aExamined' + w + aFaults <= aExamined + w' + aFaults'
      /\ aExamined' + v' + aFaults <= aExamined + v + aFaults'
  <2> HIDE DEF w, v
  <2>1. CASE s = "clear"
    BY <1>1, <1>2, <1>5, <1>7, <2>1
  <2>2. CASE s = "wrong"
    BY <1>1, <1>2, <1>5, <1>7, <2>2
  <2> QED
    BY <2>1, <2>2
<1> QED
  BY <1>6, <1>7, <1>8, WindowGoesOn DEF w, v

LEMMA FailuresKeepWindow ==
  ASSUME AccountsAssumption, AccountsRequestsSound, WindowSound,
         A!LoginMalformed \/ \E r \in ARequests : A!LoginWrong(r)
  PROVE  WindowSound'
<1>1. CASE A!LoginMalformed
  <2>1. Recording' = Recording /\ Examining' = Examining
    BY <1>1 DEF A!LoginMalformed, Recording, Examining
  <2> QED
    BY <1>1, <2>1, FailureIsCounted DEF A!LoginMalformed
<1>2. ASSUME NEW r \in ARequests, A!LoginWrong(r) PROVE WindowSound'
  <2>1. /\ A!Become(r, A!Idle) /\ aRequest[r].step = "wrong" /\ A!Idle.step = "idle"
        /\ aLimit' = A!AfterFailure(aLimit, aNow) /\ UNCHANGED <<aNow, aFaults>>
        /\ aExamined' = IF A!WindowOver(aLimit, aNow) THEN A!InFlight ELSE aExamined
    BY <1>2 DEF A!LoginWrong, A!AtStep, A!Finish, A!Idle
  <2>2. Cardinality(Recording)' = Cardinality(Recording) - 1 /\ Cardinality(Examining)' = Cardinality(Examining)
    BY <2>1, CountsMove, Counted
  <2> QED
    BY <2>1, <2>2, FailureIsCounted
<1> QED
  BY <1>1, <1>2

LEMMA ClearingKeepsWindow ==
  ASSUME AccountsAssumption, AccountsRequestsSound, WindowSound, NEW r \in ARequests, A!LoginClear(r)
  PROVE  WindowSound'
<1> DEFINE w == Cardinality(Recording)
<1>1. /\ A!GoTo(r, "issue") /\ aRequest[r].step = "clear" /\ aLimit' = None /\ aExamined' = w
      /\ UNCHANGED <<aNow, aFaults>> /\ w \in Nat
  BY Counted, InFlightIs DEF A!LoginClear, A!AtStep
<1>2. PICK rec : rec = [aRequest[r] EXCEPT !.step = "issue"]
  OBVIOUS
<1>3. A!Become(r, rec)
  BY <1>1, <1>2 DEF A!GoTo, A!Become, AccountsRequestsSound
<1>4. rec.step = "issue"
  BY <1>2, AccountsStepsOfRequests DEF A!Steps
<1>5. w' = w
  BY <1>1, <1>3, <1>4, CountsMove
<1>6. LimitSound' /\ A!WindowOver(aLimit, aNow)'
  BY <1>1 DEF LimitSound, A!WindowOver
<1>7. aNow \in 0..AMaxTime /\ aFaults \in 0..AMaxFaults /\ aFaults \in Nat
  BY DEF WindowSound, AccountsAssumption
<1>8. aNow' \in 0..AMaxTime /\ aFaults' \in 0..AMaxFaults /\ aExamined' \in Nat /\ aExamined' <= w' + aFaults'
  BY <1>1, <1>5, <1>7
<1> QED
  BY <1>6, <1>8, WindowEnds

LEMMA FaultsKeepWindow ==
  ASSUME AccountsAssumption, AccountsRequestsSound, WindowSound, NEW r \in ARequests, A!Throw(r)
  PROVE  WindowSound'
<1> DEFINE w == Cardinality(Recording)
           v == Cardinality(Examining)
<1>1. /\ A!Become(r, A!Idle) /\ A!Idle.step = "idle" /\ aFaults' = aFaults + 1 /\ aFaults < AMaxFaults
      /\ UNCHANGED <<aLimit, aNow, aExamined>>
  BY DEF A!Throw, A!Finish, A!Idle
<1>2. w \in Nat /\ v \in Nat /\ aFaults \in 0..AMaxFaults /\ aFaults \in Nat /\ aExamined \in Nat /\ AMaxFaults \in Nat
  BY Counted DEF WindowSound, ExaminedCounted, AccountsAssumption
<1>3. w' \in {w, w - 1} /\ v' \in {v, v - 1}
  BY <1>1, <1>2, CountsMove
<1>4. v' \in Nat /\ w' \in Nat
  <2>1. Recording' \subseteq ARequests /\ Examining' \subseteq ARequests /\ IsFiniteSet(ARequests)
    BY DEF Recording, Examining, AccountsAssumption
  <2> QED
    BY <2>1, FS_Subset, FS_CardinalityType, ACardinality
<1>5. /\ aFaults' \in 0..AMaxFaults /\ aExamined' \in Nat
      /\ aExamined' + w + aFaults <= aExamined + w' + aFaults'
      /\ aExamined' + v' + aFaults <= aExamined + v + aFaults'
  <2>1. ASSUME NEW e \in Nat, NEW n \in Nat, NEW n1 \in {n, n - 1}, NEW f \in Nat
        PROVE  e + n + f <= e + n1 + (f + 1) /\ e + n1 + f <= e + n + (f + 1)
    BY <2>1
  <2>2. aFaults' \in 0..AMaxFaults /\ aExamined' \in Nat
    BY <1>1, <1>2
  <2> QED
    BY <1>1, <1>2, <1>3, <2>1, <2>2
<1> QED
  BY <1>1, <1>4, <1>5, WindowGoesOn DEF w, v

LEMMA ClockKeepsWindow ==
  ASSUME AccountsAssumption, AccountsRequestsSound, WindowSound, A!Advance
  PROVE  WindowSound'
<1> DEFINE w == Cardinality(Recording)
           v == Cardinality(Examining)
<1>1. /\ aNow' = aNow + 1 /\ aNow < AMaxTime /\ UNCHANGED <<aLimit, aRequest, aFaults>>
      /\ aExamined' = IF A!WindowOver(aLimit, aNow) # A!WindowOver(aLimit, aNow') THEN w ELSE aExamined
      /\ w' = w /\ v' = v
  BY InFlightIs DEF A!Advance, Recording, Examining
<1>2. /\ w \in Nat /\ v \in Nat /\ aNow \in 0..AMaxTime /\ aFaults \in 0..AMaxFaults /\ aFaults \in Nat
      /\ aExamined \in Nat /\ LimitSound
  BY Counted DEF WindowSound, ExaminedCounted, AccountsAssumption
<1>3. aNow' \in 0..AMaxTime /\ LimitSound'
  BY <1>1, <1>2 DEF LimitSound, LimitState, AccountsAssumption
<1>4. (A!WindowOver(aLimit, aNow) => A!WindowOver(aLimit, aNow')) /\ (A!WindowOver(aLimit, aNow)' <=> A!WindowOver(aLimit, aNow'))
  BY <1>1, <1>2 DEF A!WindowOver, LimitSound, LimitState, AccountsAssumption
<1>5. CASE A!WindowOver(aLimit, aNow')
  <2>1. aExamined' <= w + aFaults /\ aExamined' \in Nat
    <3>1. CASE A!WindowOver(aLimit, aNow)
      <4>1. aExamined <= w + aFaults
        BY <3>1 DEF WindowSound, ExaminedCounted
      <4>2. aExamined' = aExamined
        BY <1>1, <1>5, <3>1
      <4> QED
        BY <1>2, <4>1, <4>2
    <3>2. CASE ~A!WindowOver(aLimit, aNow)
      <4>1. aExamined' = w
        BY <1>1, <1>5, <3>2
      <4> HIDE DEF w
      <4> QED
        BY <1>2, <4>1
    <3> QED
      BY <3>1, <3>2
  <2> QED
    BY <1>1, <1>2, <1>3, <1>4, <1>5, <2>1, WindowEnds
<1>6. CASE ~A!WindowOver(aLimit, aNow')
  <2>1. ~A!WindowOver(aLimit, aNow) /\ ~A!WindowOver(aLimit, aNow)'
    BY <1>4, <1>6, Zenon
  <2>2. aExamined' = aExamined
    BY <1>1, <1>6, <2>1 DEF A!WindowOver
  <2>3. ExaminedCounted'
    BY <1>1, <2>1, <2>2 DEF WindowSound, ExaminedCounted
  <2> QED
    BY <1>1, <1>2, <1>3, <2>3 DEF WindowSound
<1> QED
  BY <1>5, <1>6

-----------------------------------------------------------------------------
LEMMA UsersStaySound ==
  ASSUME AccountsAssumption, UsersSound, UNCHANGED <<aUser, aToken, aLock, aRequest, aBootstrapped>>
  PROVE  UsersSound'
<1>1. \A u : Exists(u)' <=> Exists(u)
  BY DEF Exists
<1>2. \A q, rec : AccountsSound(q, rec) => AccountsSound(q, rec)'
  BY <1>1 DEF AccountsSound, A!CanDisable, A!CanManage
<1> QED
  BY <1>1, <1>2 DEF UsersSound, AccountsRequestsSound, A!UsersHaveRoles

(* Every step of a request, but for those of logins, leaves the window be.  *)
LEMMA OthersKeepWindow ==
  ASSUME AccountsAssumption, UsersSound, WindowSound, NEW r \in ARequests,
         \/ \E u \in AUsers, p \in APasswords : A!BootstrapLock(r, u, p)
         \/ A!BootstrapRead(r) \/ A!BootstrapInsert(r)
         \/ \E t \in ATokens : A!IssueSession(r, t)
         \/ \E t \in ATokens, op \in A!AdminSteps, on \in AUsers :
              \E arg \in A!AdminInput(op) : A!AdminStart(r, t, op, on, arg)
         \/ A!Refused(r) \/ \E repeated \in BOOLEAN : A!CreateUser(r, repeated)
         \/ A!DisableFlag(r) \/ A!DisableRevoke(r) \/ A!EnableUser(r) \/ A!ResetPassword(r)
  PROVE  WindowSound'
<1>0. AccountsRequestsSound /\ UNCHANGED <<aLimit, aNow, aFaults, aExamined>> /\ A!Idle \in AccountsRequestState /\ A!Idle.step = "idle"
  BY AccountsIdleIsSound DEF UsersSound, A!BootstrapLock, A!BootstrapRead, A!BootstrapInsert, A!IssueSession, A!AdminStart,
     A!Refused, A!CreateUser, A!DisableFlag, A!DisableRevoke, A!EnableUser, A!ResetPassword, A!Idle
<1>1. ASSUME NEW u \in AUsers, NEW p \in APasswords, A!BootstrapLock(r, u, p) PROVE WindowSound'
  <2>1. PICK rec : rec = [A!Idle EXCEPT !.step = "bootRead", !.on = u, !.arg = p]
    OBVIOUS
  <2>2. A!Become(r, rec) /\ aRequest[r].step = "idle" /\ rec.step = "bootRead"
    BY <1>1, <2>1 DEF A!BootstrapLock, A!AtStep, A!Idle
  <2> QED
    BY <1>0, <2>1, <2>2, WindowApart
<1>2. ASSUME NEW s \in A!Steps \ {"verify", "wrong"}, A!GoTo(r, s), aRequest[r].step \notin {"verify", "wrong"}
      PROVE  WindowSound'
  <2>1. PICK rec \in AccountsRequestState : rec = [aRequest[r] EXCEPT !.step = s] /\ rec.step = s
    BY <1>0, AccountsStepsOfRequests
  <2>2. A!Become(r, rec)
    BY <1>0, <1>2, <2>1 DEF A!GoTo, A!Become, AccountsRequestsSound
  <2> QED
    BY <1>0, <1>2, <2>1, <2>2, WindowApart
<1>3. ASSUME A!Finish(r), aRequest[r].step \notin {"verify", "wrong"} PROVE WindowSound'
  <2>1. A!Become(r, A!Idle)
    BY <1>3 DEF A!Finish
  <2> QED
    BY <1>0, <1>3, <2>1, WindowApart
<1>4. CASE A!BootstrapRead(r)
  BY <1>2, <1>3, <1>4 DEF A!BootstrapRead, A!AtStep, A!Steps
<1>5. CASE A!BootstrapInsert(r)
  BY <1>2, <1>5 DEF A!BootstrapInsert, A!AtStep, A!Steps
<1>6. ASSUME NEW t \in ATokens, A!IssueSession(r, t) PROVE WindowSound'
  BY <1>3, <1>6 DEF A!IssueSession, A!AtStep
<1>7. ASSUME NEW t \in ATokens, NEW op \in A!AdminSteps, NEW on \in AUsers, NEW arg \in A!AdminInput(op),
             A!AdminStart(r, t, op, on, arg)
      PROVE  WindowSound'
  <2>1. PICK rec : rec = [step |-> op, by |-> aToken[t].user, token |-> t, on |-> on, arg |-> arg]
    OBVIOUS
  <2>2. A!Become(r, rec) /\ aRequest[r].step = "idle" /\ rec.step = op
    BY <1>7, <2>1 DEF A!AdminStart, A!AtStep
  <2>3. op \notin {"verify", "wrong"}
    BY DEF A!AdminSteps
  <2> QED
    BY <1>0, <2>2, <2>3, WindowApart
<1>8. CASE A!Refused(r)
  BY <1>3, <1>8 DEF A!Refused, A!AdminSteps
<1>9. ASSUME NEW repeated \in BOOLEAN, A!CreateUser(r, repeated) PROVE WindowSound'
  BY <1>3, <1>9 DEF A!CreateUser, A!AtStep
<1>10. CASE A!DisableFlag(r)
  BY <1>2, <1>10 DEF A!DisableFlag, A!AtStep, A!Steps
<1>11. CASE A!DisableRevoke(r) \/ A!EnableUser(r) \/ A!ResetPassword(r)
  BY <1>3, <1>11 DEF A!DisableRevoke, A!EnableUser, A!ResetPassword, A!AtStep
<1> QED
  BY <1>1, <1>4, <1>5, <1>6, <1>7, <1>8, <1>9, <1>10, <1>11

LEMMA NextAccounts ==
  ASSUME AccountsAssumption, AccountsIInv, [A!Next]_A!vars
  PROVE  AccountsIInv'
<1>0. UsersSound /\ WindowSound /\ AccountsRequestsSound /\ aNow \in 0..AMaxTime
  BY DEF AccountsIInv, UsersSound, WindowSound
<1>1. ASSUME NEW r \in ARequests, NEW u \in AUsers, NEW p \in APasswords,
             A!BootstrapLock(r, u, p) \/ A!LoginCheck(r, u, p)
      PROVE  AccountsIInv'
  BY <1>0, <1>1, BootstrapsBeginSoundly, LoginsAreSound, OthersKeepWindow, ChecksKeepWindow DEF AccountsIInv
<1>2. ASSUME NEW r \in ARequests, A!BootstrapRead(r) PROVE AccountsIInv'
  BY <1>0, <1>2, BootstrapsBeginSoundly, OthersKeepWindow DEF AccountsIInv
<1>3. ASSUME NEW r \in ARequests,
             \/ A!BootstrapInsert(r) \/ \E repeated \in BOOLEAN : A!CreateUser(r, repeated)
             \/ A!DisableFlag(r) \/ A!EnableUser(r) \/ A!ResetPassword(r)
      PROVE  AccountsIInv'
  BY <1>0, <1>3, UsersAreSound, OthersKeepWindow DEF AccountsIInv
<1>4. ASSUME NEW r \in ARequests, A!LoginVerify(r) \/ A!LoginWrong(r) \/ A!LoginClear(r) PROVE AccountsIInv'
  BY <1>0, <1>4, LoginsAreSound, VerifyingKeepsWindow, FailuresKeepWindow, ClearingKeepsWindow DEF AccountsIInv
<1>5. ASSUME NEW r \in ARequests, (\E t \in ATokens : A!IssueSession(r, t)) \/ A!DisableRevoke(r) PROVE AccountsIInv'
  BY <1>0, <1>5, TokensAreSound, OthersKeepWindow DEF AccountsIInv
<1>6. ASSUME NEW r \in ARequests,
             \/ \E t \in ATokens, op \in A!AdminSteps, on \in AUsers :
                  \E arg \in A!AdminInput(op) : A!AdminStart(r, t, op, on, arg)
             \/ A!Refused(r)
      PROVE  AccountsIInv'
  BY <1>0, <1>6, AdminRequestsAreSound, OthersKeepWindow DEF AccountsIInv
<1>7. ASSUME NEW r \in ARequests, A!Throw(r) PROVE AccountsIInv'
  BY <1>0, <1>7, AdminRequestsAreSound, FaultsKeepWindow DEF AccountsIInv
<1>8. CASE A!LoginMalformed
  BY <1>0, <1>8, UsersStaySound, FailuresKeepWindow DEF AccountsIInv, A!LoginMalformed
<1>9. ASSUME NEW t \in ATokens, A!Logout(t) PROVE AccountsIInv'
  <2>1. AccountsRequestsSound /\ UNCHANGED <<aLimit, aNow, aFaults, aExamined, aRequest>>
    BY <1>0, <1>9 DEF A!Logout
  <2> QED
    BY <1>0, <1>9, <2>1, TokensAreSound, WindowApart DEF AccountsIInv
<1>10. CASE A!Advance
  BY <1>0, <1>10, UsersStaySound, ClockKeepsWindow DEF AccountsIInv, A!Advance
<1>11. CASE UNCHANGED A!vars
  BY <1>0, <1>11, UsersStaySound, WindowApart DEF AccountsIInv, A!vars
<1> QED
  BY <1>1, <1>2, <1>3, <1>4, <1>5, <1>6, <1>7, <1>8, <1>9, <1>10, <1>11 DEF A!Next

-----------------------------------------------------------------------------
(* An account that exists changes only in the requests of AdminSteps that   *)
(* name it, whose rights are those RequestsSound keeps.                     *)
LEMMA NextChangesByAdmins ==
  ASSUME AccountsAssumption, AccountsIInv, [A!Next]_A!vars
  PROVE  A!ChangedByAdmin
<1>0. UsersSound /\ AccountsRequestsSound /\ aUser \in [AUsers -> UserState] /\ A!UsersHaveRoles
  BY DEF AccountsIInv, UsersSound
<1>1. SUFFICES ASSUME NEW u \in AUsers, Exists(u), aUser'[u] # aUser[u]
               PROVE  \E r \in ARequests :
                        /\ aRequest[r].step \in A!AdminSteps /\ aRequest[r].on = u
                        /\ aUser[u].roles # {}
                        /\ \A row \in aUser[u].roles : A!CanManage(aRequest[r].by, row[1])
                        /\ aUser'[u].state # aUser[u].state => aRequest[r].by # u
  BY DEF A!ChangedByAdmin, Exists
<1>2. PICK r \in ARequests :
        A!DisableFlag(r) \/ A!EnableUser(r) \/ A!ResetPassword(r) \/ A!BootstrapInsert(r)
        \/ \E repeated \in BOOLEAN : A!CreateUser(r, repeated)
  BY <1>1 DEF A!Next, A!BootstrapLock, A!BootstrapRead, A!LoginCheck, A!LoginVerify, A!LoginWrong, A!LoginClear, A!IssueSession,
     A!AdminStart, A!Refused, A!DisableRevoke, A!Throw, A!LoginMalformed, A!Logout, A!Advance,
     A!vars
<1>3. AccountsSound(r, aRequest[r]) /\ aRequest[r] \in AccountsRequestState
  BY <1>0 DEF AccountsRequestsSound
<1>4. ASSUME NEW new, aUser' = [aUser EXCEPT ![aRequest[r].on] = new] PROVE aRequest[r].on = u
  BY <1>0, <1>1, <1>4
<1>5. CASE A!BootstrapInsert(r)
  <2>1. aRequest[r].step = "bootInsert"
    BY <1>5 DEF A!BootstrapInsert, A!AtStep
  <2> QED
    BY <1>1, <1>3, <2>1 DEF AccountsSound
<1>6. ASSUME NEW repeated \in BOOLEAN, A!CreateUser(r, repeated) PROVE FALSE
  <2>1. /\ aUser[aRequest[r].on].state = "absent"
        /\ \E new : aUser' = [aUser EXCEPT ![aRequest[r].on] = new]
    BY <1>1, <1>6 DEF A!CreateUser
  <2> QED
    BY <1>1, <1>4, <2>1 DEF Exists
<1>7. CASE A!DisableFlag(r) \/ A!EnableUser(r) \/ A!ResetPassword(r)
  <2>1. aRequest[r].step \in {"disable", "enable", "reset"}
    BY <1>7 DEF A!DisableFlag, A!EnableUser, A!ResetPassword, A!AtStep
  <2>2. aRequest[r].on = u
    BY <1>0, <1>1, <1>7 DEF A!DisableFlag, A!EnableUser, A!ResetPassword, A!SetState
  <2>3. \A row \in aUser[u].roles : A!CanManage(aRequest[r].by, row[1])
    BY <1>3, <2>1, <2>2 DEF AccountsSound, A!CanDisable
  <2>4. aUser[u].roles # {}
    BY <1>0, <1>1 DEF A!UsersHaveRoles, Exists
  <2>5. aUser'[u].state # aUser[u].state => aRequest[r].by # u
    <3>1. CASE aRequest[r].step \in {"disable", "enable"}
      BY <1>3, <2>2, <3>1 DEF AccountsSound
    <3>2. CASE aRequest[r].step = "reset"
      <4>1. aUser' = [aUser EXCEPT ![u].password = aRequest[r].arg]
        BY <1>7, <2>2, <3>2 DEF A!DisableFlag, A!EnableUser, A!ResetPassword, A!AtStep
      <4>2. aUser'[u].state = aUser[u].state
        BY <1>0, <4>1 DEF UserState
      <4> QED
        BY <4>2
    <3> QED
      BY <2>1, <3>1, <3>2
  <2> QED
    BY <2>1, <2>2, <2>3, <2>4, <2>5 DEF A!AdminSteps
<1> QED
  BY <1>2, <1>5, <1>6, <1>7

(* From any number of users, tokens and requests at a time, accounts stay   *)
(* in order (src/apps/api/src/auth).                                        *)
THEOREM AccountsHold ==
  ASSUME AccountsAssumption
  PROVE  A!Spec => []A!AccountsInv
<1>1. AccountsIInv => A!AccountsInv
  BY AccountsSuffices
<1>2. A!Init => AccountsIInv
  BY InitAccounts
<1>3. AccountsIInv /\ [A!Next]_A!vars => AccountsIInv'
  BY NextAccounts
<1> QED
  BY <1>1, <1>2, <1>3, PTL DEF A!Spec

(* Nobody changes an account without managing it, whatever happens between  *)
(* the check of a request and its statements (the checks of                 *)
(* /admin/users/:userId/...).                                               *)
THEOREM AccountsChangeByAdmins ==
  ASSUME AccountsAssumption
  PROVE  A!Spec => A!ChangesByAdmins
<1>1. A!Init => AccountsIInv
  BY InitAccounts
<1>2. AccountsIInv /\ [A!Next]_A!vars => AccountsIInv'
  BY NextAccounts
<1>3. AccountsIInv /\ [A!Next]_A!vars => [A!ChangedByAdmin]_A!vars
  BY NextChangesByAdmins
<1> QED
  BY <1>1, <1>2, <1>3, PTL DEF A!Spec, A!ChangesByAdmins

-----------------------------------------------------------------------------
(* Sessions *)

(* None is nothing's name, and no user. *)
SessionsAssumption == SMaxTime \in Nat /\ None \notin SNames /\ None \notin SRows /\ None \notin SUsers
                      /\ SOps \subseteq S!Calls

RowState == [name : SNames, status : S!Statuses, at : -1..SMaxTime]
WahaState == [status : S!Statuses, at : 0..SMaxTime]
SessionsRequestState ==
  [step : S!Steps, by : SUsers \cup {None}, row : SRows \cup {None}, name : SNames \cup {None},
   status : S!Statuses \cup {None}, at : -1..SMaxTime]

Typed ==
  /\ sSession \in [SRows -> RowState \cup {S!NoRow}]
  /\ sGranted \subseteq SUsers \X SRows /\ sReferred \subseteq SRows
  /\ sWaha \in [SNames -> WahaState \cup {S!Gone}]
  /\ sEvents \subseteq [name : SNames, status : S!Statuses, at : 0..SMaxTime]
  /\ sRequest \in [SRequests -> SessionsRequestState]
  /\ sNow \in 0..SMaxTime /\ sLost \subseteq SRows /\ sOvertaken \subseteq SRows

(* What WAHA said at time t of session n was true then, and is as long as    *)
(* nothing is newer.                                                         *)
Heard(n, s, t) ==
  /\ n \in SNames /\ s \in S!Statuses /\ t \in 0..sNow
  /\ sWaha[n] # S!Gone => t <= sWaha[n].at /\ (t = sWaha[n].at => s = sWaha[n].status)

(* A request holds what WAHA answered, of the row whose name it called.      *)
SessionsSound(q) ==
  /\ q.step \in {"insert", "write", "save"} => Heard(q.name, q.status, q.at)
  /\ q.step \in {"grant", "write", "save", "remove"} \cup S!Calls => q.row \in SRows
  /\ q.step \in {"write", "save"} \cup S!Calls /\ S!Exists(q.row) => sSession[q.row].name = q.name
  /\ q.step \in S!Calls => q.name \in SNames
  /\ q.step \in {"insert", "grant"} => q.by \in SUsers

SessionsRequestsSound == \A r \in SRequests : SessionsSound(sRequest[r])

(* Nothing has a time to come. *)
TimesPast ==
  /\ \A n \in SNames : sWaha[n].at <= sNow
  /\ \A i \in SRows : sSession[i].at <= sNow
  /\ \A e \in sEvents : Heard(e.name, e.status, e.at)

(* The event of the last change of session n. *)
LastEvent(n) == [name |-> n, status |-> sWaha[n].status, at |-> sWaha[n].at]

(* A row that shows something else is about to be told, and is older; one    *)
(* that has a time as new as WAHA's last change shows that change.           *)
Shown(i) ==
  S!Exists(i) /\ sWaha[sSession[i].name] # S!Gone /\ i \notin sOvertaken =>
    LET n == sSession[i].name IN
    /\ sSession[i].at >= sWaha[n].at => sSession[i].status = sWaha[n].status
    /\ \/ LastEvent(n) \in sEvents
       \/ sSession[i].status = sWaha[n].status /\ (sSession[i].at = -1 \/ sSession[i].at >= sWaha[n].at)

SessionsIInv ==
  /\ Typed /\ S!NothingDangles /\ S!RowsAreBacked
  /\ SessionsRequestsSound /\ TimesPast /\ \A i \in SRows : Shown(i)

LEMMA StepsApart ==
  /\ S!Calls \subseteq S!Steps /\ S!Actions \subseteq S!Calls /\ S!PairingSurfaces \subseteq S!Calls
  /\ "update" \in S!Calls /\ "delete" \in S!Calls
  /\ \A s \in {"idle", "insert", "grant", "write", "save", "remove"} : s \in S!Steps /\ s \notin S!Calls
BY DEF S!Calls, S!Steps, S!Actions, S!PairingSurfaces

LEMMA SessionsSuffices ==
  ASSUME SessionsAssumption, SessionsIInv
  PROVE  S!SessionsInv /\ S!StatusShown
<1>1. S!TypeOK
  BY DEF SessionsIInv, Typed, S!TypeOK, RowState, WahaState, SessionsRequestState
<1>2. S!PoliciesAgree
  BY DEF S!PoliciesAgree, S!Authorized, S!AuthorizeSessionAction, S!CanCommand, S!IsAdmin
<1>3. S!StatusShown
  <2>1. SUFFICES ASSUME NEW i \in SRows, S!Exists(i), sWaha[sSession[i].name] # S!Gone,
                        \A e \in sEvents : e.name # sSession[i].name, i \notin sOvertaken
                 PROVE  sSession[i].status = sWaha[sSession[i].name].status
    BY DEF S!StatusShown
  <2>2. LastEvent(sSession[i].name) \notin sEvents
    BY <2>1 DEF LastEvent
  <2> QED
    BY <2>1, <2>2 DEF SessionsIInv, Shown
<1> QED
  BY <1>1, <1>2, <1>3 DEF S!SessionsInv, SessionsIInv

LEMMA InitSessions ==
  ASSUME SessionsAssumption, S!Init
  PROVE  SessionsIInv
<1>1. S!Idle \in SessionsRequestState /\ S!Idle.step = "idle"
  BY DEF S!Idle, SessionsRequestState, S!Steps, SessionsAssumption
<1>2. Typed /\ \A i \in SRows : ~S!Exists(i)
  BY <1>1 DEF S!Init, Typed, S!Exists, SessionsAssumption
<1>3. SessionsRequestsSound
  BY <1>1, StepsApart DEF S!Init, SessionsRequestsSound, SessionsSound
<1>4. TimesPast
  BY DEF S!Init, TimesPast, S!Gone, S!NoRow
<1> QED
  BY <1>2, <1>3, <1>4 DEF SessionsIInv, S!Init, S!NothingDangles, S!RowsAreBacked, Shown

-----------------------------------------------------------------------------
LEMMA TypesOfRows ==
  ASSUME Typed, NEW i \in SRows, S!Exists(i)
  PROVE  sSession[i] \in RowState /\ sSession[i].name \in SNames /\ sSession[i].status \in S!Statuses
         /\ sSession[i].at \in -1..SMaxTime
BY DEF Typed, S!Exists, RowState

(* The steps that change what is true of WAHA or the clock, and no row.     *)
WahaMoves ==
  \/ sWaha' = sWaha /\ sNow' \in {sNow, sNow + 1}
  \/ sNow' = sNow /\ \E n \in SNames : sWaha' = [sWaha EXCEPT ![n] = S!Gone]
  \/ \E n \in SNames, s \in S!Statuses :
       sNow' = sNow + 1 /\ sWaha' = [sWaha EXCEPT ![n] = [status |-> s, at |-> sNow']]

LEMMA HeardKept ==
  ASSUME SessionsAssumption, Typed, TimesPast, WahaMoves, NEW n, NEW s, NEW t, Heard(n, s, t)
  PROVE  Heard(n, s, t)'
<1>1. /\ sNow \in Nat /\ sNow' \in {sNow, sNow + 1} /\ sWaha \in [SNames -> WahaState \cup {S!Gone}] /\ n \in SNames
      /\ t \in 0..sNow /\ s \in S!Statuses
  BY DEF Typed, WahaMoves, SessionsAssumption, Heard
<1>2. t \in 0..sNow' /\ t \in Nat /\ t <= sNow
  BY <1>1
<1>3. CASE sWaha'[n] = sWaha[n]
  BY <1>1, <1>2, <1>3 DEF Heard
<1>4. CASE sWaha'[n] = S!Gone
  BY <1>1, <1>2, <1>4 DEF Heard
<1>5. CASE sNow' = sNow + 1 /\ \E new \in S!Statuses : sWaha'[n] = [status |-> new, at |-> sNow']
  BY <1>1, <1>2, <1>5 DEF Heard
<1> QED
  BY <1>1, <1>3, <1>4, <1>5 DEF WahaMoves

(* A row that a request is about keeps its name as long as it is there.     *)
HeldKept ==
  \A i \in SRows, q \in SRequests :
    sRequest[q].row = i /\ S!Exists(i)' => S!Exists(i) /\ sSession'[i].name = sSession[i].name

LEMMA SessionsSoundKept ==
  ASSUME SessionsAssumption, Typed, TimesPast, WahaMoves, HeldKept, NEW r \in SRequests, SessionsSound(sRequest[r])
  PROVE  \A q : q = sRequest[r] => SessionsSound(q)'
<1>1. ASSUME NEW q, q = sRequest[r] PROVE SessionsSound(q)'
  <2>1. SessionsSound(q)
    BY <1>1
  <2>2. q.step \in {"insert", "write", "save"} => Heard(q.name, q.status, q.at)'
    BY <2>1, HeardKept DEF SessionsSound
  <2>3. q.step \in {"write", "save"} \cup S!Calls /\ S!Exists(q.row)' => sSession'[q.row].name = q.name
    BY <1>1, <2>1 DEF SessionsSound, HeldKept
  <2> QED
    BY <2>1, <2>2, <2>3 DEF SessionsSound
<1> QED
  BY <1>1

LEMMA SessionsRequestMoves ==
  ASSUME SessionsAssumption, Typed, SessionsRequestsSound, TimesPast, WahaMoves, HeldKept,
         \/ sRequest' = sRequest
         \/ \E r \in SRequests, rec \in SessionsRequestState :
              sRequest' = [sRequest EXCEPT ![r] = rec] /\ SessionsSound(rec)'
  PROVE  sRequest' \in [SRequests -> SessionsRequestState] /\ SessionsRequestsSound'
<1>1. sRequest \in [SRequests -> SessionsRequestState]
  BY DEF Typed
<1>2. \A r \in SRequests : \A q : q = sRequest[r] => SessionsSound(q)'
  BY SessionsSoundKept DEF SessionsRequestsSound
<1>3. CASE sRequest' = sRequest
  BY <1>1, <1>2, <1>3 DEF SessionsRequestsSound
<1>4. ASSUME NEW r \in SRequests, NEW rec \in SessionsRequestState, sRequest' = [sRequest EXCEPT ![r] = rec], SessionsSound(rec)'
      PROVE  sRequest' \in [SRequests -> SessionsRequestState] /\ SessionsRequestsSound'
  <2>1. \A q \in SRequests : sRequest'[q] = IF q = r THEN rec ELSE sRequest[q]
    BY <1>1, <1>4
  <2>2. ASSUME NEW q \in SRequests PROVE SessionsSound(sRequest[q])'
    BY <1>2, <1>4, <2>1
  <2>3. sRequest' \in [SRequests -> SessionsRequestState]
    BY <1>1, <1>4
  <2> QED
    BY <2>2, <2>3 DEF SessionsRequestsSound
<1> QED
  BY <1>3, <1>4

LEMMA SessionsIdleIsSound ==
  ASSUME SessionsAssumption
  PROVE  S!Idle \in SessionsRequestState /\ SessionsSound(S!Idle) /\ SessionsSound(S!Idle)'
<1>1. S!Idle \in SessionsRequestState /\ S!Idle.step = "idle"
  BY DEF S!Idle, SessionsRequestState, S!Steps, SessionsAssumption
<1> QED
  BY <1>1, StepsApart DEF SessionsSound

(* What a step of a request stores in its record. *)
LEMMA SessionsStepsOfRequests ==
  ASSUME NEW q \in SessionsRequestState, NEW s \in S!Steps, NEW new, new = [q EXCEPT !.step = s]
  PROVE  /\ new \in SessionsRequestState /\ new.step = s /\ new.by = q.by /\ new.row = q.row /\ new.name = q.name
         /\ new.status = q.status /\ new.at = q.at
<1>1. q = [step |-> q.step, by |-> q.by, row |-> q.row, name |-> q.name, status |-> q.status, at |-> q.at]
      /\ q.by \in SUsers \cup {None} /\ q.row \in SRows \cup {None} /\ q.name \in SNames \cup {None}
      /\ q.status \in S!Statuses \cup {None} /\ q.at \in -1..SMaxTime
  BY DEF SessionsRequestState
<1>2. new = [step |-> s, by |-> q.by, row |-> q.row, name |-> q.name, status |-> q.status, at |-> q.at]
  BY <1>1
<1> QED
  BY <1>1, <1>2 DEF SessionsRequestState

-----------------------------------------------------------------------------
(* WAHA changes, and sends its event; a request may keep the answer.        *)
LEMMA WahaChanges ==
  ASSUME SessionsAssumption, SessionsIInv, NEW n \in SNames, NEW s \in S!Statuses, S!WahaChange(n, s),
         UNCHANGED <<sSession, sGranted, sReferred, sLost, sOvertaken>>,
         \/ sRequest' = sRequest
         \/ \E r \in SRequests, rec \in SessionsRequestState :
              sRequest' = [sRequest EXCEPT ![r] = rec] /\ SessionsSound(rec)'
  PROVE  SessionsIInv'
<1>1. /\ sNow < SMaxTime /\ sNow' = sNow + 1 /\ sWaha' = [sWaha EXCEPT ![n] = [status |-> s, at |-> sNow']]
      /\ sEvents' = sEvents \cup {[name |-> n, status |-> s, at |-> sNow']}
  BY DEF S!WahaChange
<1>2. Typed /\ SessionsRequestsSound /\ TimesPast /\ sNow \in Nat /\ SMaxTime \in Nat /\ S!NothingDangles /\ S!RowsAreBacked
  BY DEF SessionsIInv, Typed, SessionsAssumption
<1>3. /\ sNow' \in 0..SMaxTime /\ sNow' \in Nat /\ [status |-> s, at |-> sNow'] \in WahaState
      /\ [status |-> s, at |-> sNow'] # S!Gone
  BY <1>1, <1>2 DEF WahaState, S!Gone
<1>4. WahaMoves
  BY <1>1 DEF WahaMoves
<1>5. \A i \in SRows : S!Exists(i)' <=> S!Exists(i)
  BY DEF S!Exists
<1>6. sRequest' \in [SRequests -> SessionsRequestState] /\ SessionsRequestsSound'
  <2>1. HeldKept
    BY <1>5 DEF HeldKept
  <2> QED
    BY <1>2, <1>4, <2>1, SessionsRequestMoves
<1>7. Typed'
  BY <1>1, <1>2, <1>3, <1>6 DEF Typed
<1>8. \A m \in SNames : sWaha'[m] = IF m = n THEN [status |-> s, at |-> sNow'] ELSE sWaha[m]
  BY <1>1, <1>2 DEF Typed
<1>9. TimesPast'
  <2>1. \A m \in SNames : sWaha'[m].at <= sNow'
    BY <1>1, <1>2, <1>3, <1>8 DEF TimesPast, Typed, WahaState, S!Gone
  <2>2. \A i \in SRows : sSession'[i].at <= sNow'
    BY <1>1, <1>2 DEF TimesPast, Typed, RowState, S!NoRow
  <2>3. ASSUME NEW e \in sEvents' PROVE Heard(e.name, e.status, e.at)'
    <3>1. CASE e \in sEvents
      BY <1>2, <1>4, <3>1, HeardKept DEF TimesPast
    <3>2. CASE e = [name |-> n, status |-> s, at |-> sNow']
      BY <1>1, <1>3, <1>8, <3>2 DEF Heard
    <3> QED
      BY <1>1, <3>1, <3>2
  <2> QED
    BY <2>1, <2>2, <2>3 DEF TimesPast
<1>10. S!NothingDangles' /\ S!RowsAreBacked'
  <2>1. S!NothingDangles'
    BY <1>2, <1>5 DEF S!NothingDangles, S!Exists
  <2>2. ASSUME NEW i \in SRows, S!Exists(i), sWaha'[sSession[i].name] = S!Gone PROVE i \in sLost
    <3>1. sSession[i].name \in SNames
      BY <1>2, <2>2, TypesOfRows
    <3> QED
      BY <1>2, <1>3, <1>8, <2>2, <3>1 DEF S!RowsAreBacked
  <2> QED
    BY <2>1, <2>2, <1>5 DEF S!RowsAreBacked
<1>11. ASSUME NEW i \in SRows PROVE Shown(i)'
  <2>1. SUFFICES ASSUME S!Exists(i), sWaha'[sSession[i].name] # S!Gone, i \notin sOvertaken
                 PROVE  Shown(i)'
    BY <1>5 DEF Shown
  <2>2. sSession[i].name \in SNames /\ sSession[i].at \in -1..SMaxTime /\ sSession[i].at <= sNow
    BY <1>2, <2>1, TypesOfRows DEF TimesPast
  <2>3. CASE sSession[i].name = n
    <3>1. LastEvent(n)' \in sEvents' /\ sWaha'[n].at = sNow'
      BY <1>1, <1>8 DEF LastEvent
    <3>2. ~(sSession[i].at >= sWaha'[n].at)
      BY <1>1, <1>2, <2>2, <3>1
    <3> QED
      BY <2>3, <3>1, <3>2 DEF Shown
  <2>4. CASE sSession[i].name # n
    <3>1. sWaha'[sSession[i].name] = sWaha[sSession[i].name]
      BY <1>8, <2>2, <2>4
    <3>2. Shown(i) /\ LastEvent(sSession[i].name)' = LastEvent(sSession[i].name)
      BY <3>1 DEF SessionsIInv, LastEvent
    <3> QED
      BY <1>1, <1>5, <3>1, <3>2 DEF Shown
  <2> QED
    BY <2>3, <2>4
<1> QED
  BY <1>6, <1>7, <1>9, <1>10, <1>11 DEF SessionsIInv


(* Steps that write no row, and lose no event that a row waits for.         *)
LEMMA RowsStay ==
  ASSUME SessionsAssumption, SessionsIInv, UNCHANGED <<sSession, sWaha, sLost, sOvertaken>>,
         sNow' \in {sNow, sNow + 1}, sNow' <= SMaxTime,
         \/ sEvents' = sEvents
         \/ \E e \in sEvents : sEvents' = sEvents \ {e} /\ \A i \in SRows : sSession[i].name # e.name,
         sGranted' \subseteq SUsers \X SRows, \A g \in sGranted' : S!Exists(g[2]),
         sReferred' \subseteq SRows, \A i \in sReferred' : S!Exists(i),
         \/ sRequest' = sRequest
         \/ \E r \in SRequests, rec \in SessionsRequestState :
              sRequest' = [sRequest EXCEPT ![r] = rec] /\ SessionsSound(rec)'
  PROVE  SessionsIInv'
<1>1. Typed /\ SessionsRequestsSound /\ TimesPast /\ WahaMoves /\ sNow \in 0..SMaxTime /\ SMaxTime \in Nat
  BY DEF SessionsIInv, Typed, WahaMoves, SessionsAssumption
<1>2. \A i : S!Exists(i)' <=> S!Exists(i)
  BY DEF S!Exists
<1>3. sRequest' \in [SRequests -> SessionsRequestState] /\ SessionsRequestsSound'
  <2>1. HeldKept
    BY <1>2 DEF HeldKept
  <2> QED
    BY <1>1, <2>1, SessionsRequestMoves
<1>4. sNow' \in 0..SMaxTime /\ sNow <= sNow' /\ sNow' \in Nat
  BY <1>1
<1>5. Typed'
  BY <1>1, <1>3, <1>4 DEF Typed
<1>6. TimesPast'
  <2>1. \A n \in SNames : sWaha'[n].at <= sNow'
    BY <1>1, <1>4 DEF TimesPast, Typed, WahaState, S!Gone
  <2>2. \A i \in SRows : sSession'[i].at <= sNow'
    BY <1>1, <1>4 DEF TimesPast, Typed, RowState, S!NoRow
  <2>3. \A e \in sEvents' : Heard(e.name, e.status, e.at)'
    BY <1>1, HeardKept DEF TimesPast
  <2> QED
    BY <2>1, <2>2, <2>3 DEF TimesPast
<1>7. S!NothingDangles' /\ S!RowsAreBacked'
  BY <1>2 DEF SessionsIInv, S!NothingDangles, S!RowsAreBacked
<1>8. ASSUME NEW i \in SRows PROVE Shown(i)'
  <2>1. Shown(i)
    BY DEF SessionsIInv
  <2>2. LastEvent(sSession[i].name) \in sEvents => LastEvent(sSession[i].name) \in sEvents'
    BY DEF LastEvent
  <2> QED
    BY <1>2, <2>1, <2>2 DEF Shown, LastEvent
<1> QED
  BY <1>3, <1>5, <1>6, <1>7, <1>8 DEF SessionsIInv

(* A row that exists is written; those that miss its event are known.       *)
LEMMA RowWritten ==
  ASSUME SessionsAssumption, SessionsIInv, NEW i \in SRows, S!Exists(i), NEW new \in RowState,
         sSession' = [sSession EXCEPT ![i] = new], new.name = sSession[i].name,
         UNCHANGED <<sWaha, sGranted, sReferred, sLost>>, sNow' \in {sNow, sNow + 1}, sNow' <= SMaxTime,
         new.at <= sNow', sEvents' \subseteq sEvents, sOvertaken' \subseteq SRows,
         \A j \in SRows \ {i} : j \in sOvertaken => j \in sOvertaken',
         \A e \in sEvents \ sEvents' : \A j \in SRows \ {i} : sSession[j].name = e.name => j \in sOvertaken',
         Shown(i)',
         \/ sRequest' = sRequest
         \/ \E r \in SRequests, rec \in SessionsRequestState :
              sRequest' = [sRequest EXCEPT ![r] = rec] /\ SessionsSound(rec)'
  PROVE  SessionsIInv'
<1>1. /\ Typed /\ SessionsRequestsSound /\ TimesPast /\ WahaMoves /\ sNow \in 0..SMaxTime /\ SMaxTime \in Nat
      /\ sSession \in [SRows -> RowState \cup {S!NoRow}]
  BY DEF SessionsIInv, Typed, WahaMoves, SessionsAssumption
<1>2. new # S!NoRow
  <2>1. new.name \in SNames
    BY DEF RowState
  <2> QED
    BY <2>1 DEF S!NoRow, SessionsAssumption
<1>3. \A j \in SRows : sSession'[j] = IF j = i THEN new ELSE sSession[j]
  BY <1>1
<1>4. \A j \in SRows : (S!Exists(j)' <=> S!Exists(j)) /\ sSession'[j].name = sSession[j].name
  BY <1>2, <1>3 DEF S!Exists
<1>5. sRequest' \in [SRequests -> SessionsRequestState] /\ SessionsRequestsSound'
  <2>1. HeldKept
    BY <1>4 DEF HeldKept
  <2> QED
    BY <1>1, <2>1, SessionsRequestMoves
<1>6. sNow' \in 0..SMaxTime /\ sNow <= sNow' /\ sNow' \in Nat
  BY <1>1
<1>7. Typed'
  <2>1. sSession' \in [SRows -> RowState \cup {S!NoRow}]
    BY <1>1
  <2> QED
    BY <1>1, <1>5, <1>6, <2>1 DEF Typed
<1>8. TimesPast'
  <2>1. \A n \in SNames : sWaha'[n].at <= sNow'
    BY <1>1, <1>6 DEF TimesPast, Typed, WahaState, S!Gone
  <2>2. ASSUME NEW j \in SRows PROVE sSession'[j].at <= sNow'
    BY <1>1, <1>3, <1>6 DEF TimesPast, RowState, S!NoRow
  <2>3. \A e \in sEvents' : Heard(e.name, e.status, e.at)'
    BY <1>1, HeardKept DEF TimesPast
  <2> QED
    BY <2>1, <2>2, <2>3 DEF TimesPast
<1>9. S!NothingDangles' /\ S!RowsAreBacked'
  <2>1. S!NothingDangles'
    BY <1>1, <1>4 DEF SessionsIInv, S!NothingDangles, Typed
  <2>2. S!RowsAreBacked'
    BY <1>4 DEF SessionsIInv, S!RowsAreBacked
  <2> QED
    BY <2>1, <2>2
<1>10. ASSUME NEW j \in SRows, j # i PROVE Shown(j)'
  <2>1. Shown(j) /\ sSession'[j] = sSession[j]
    BY <1>3, <1>10 DEF SessionsIInv
  <2>2. LastEvent(sSession[j].name) \in sEvents /\ j \notin sOvertaken' => LastEvent(sSession[j].name) \in sEvents'
    BY <1>10 DEF LastEvent
  <2> QED
    BY <1>4, <1>10, <2>1, <2>2 DEF Shown, LastEvent
<1>11. \A j \in SRows : Shown(j)'
  BY <1>10
<1> QED
  BY <1>5, <1>7, <1>8, <1>9, <1>11 DEF SessionsIInv

-----------------------------------------------------------------------------
LEMMA CallsKeepIInv ==
  ASSUME SessionsAssumption, SessionsIInv, NEW r \in SRequests,
         \/ \E heard \in BOOLEAN, n \in SNames, u \in SUsers : S!CreateAtWaha(r, u, n, heard)
         \/ \E heard \in BOOLEAN : S!Lifecycle(r, heard) \/ S!Update(r, heard)
         \/ S!Pair(r)
  PROVE  SessionsIInv'
<1>1. Typed /\ sNow \in 0..SMaxTime /\ SMaxTime \in Nat /\ sWaha \in [SNames -> WahaState \cup {S!Gone}]
      /\ S!Idle \in SessionsRequestState /\ SessionsSound(S!Idle)'
  BY SessionsIdleIsSound DEF SessionsIInv, Typed, SessionsAssumption
<1>2. ASSUME NEW n \in SNames, NEW s \in S!Statuses, S!WahaChange(n, s)
      PROVE  \E t \in -1..SMaxTime : t = sNow' /\ Heard(n, s, t)'
  <2>1. sNow' = sNow + 1 /\ sNow < SMaxTime /\ sWaha' = [sWaha EXCEPT ![n] = [status |-> s, at |-> sNow']]
    BY <1>2 DEF S!WahaChange
  <2>2. sNow' \in 0..SMaxTime /\ sNow' \in 0..sNow' /\ sNow' \in -1..SMaxTime
    BY <1>1, <2>1
  <2>3. PICK t \in -1..SMaxTime : t = sNow'
    BY <2>2
  <2>4. sWaha'[n].at = t /\ sWaha'[n].status = s /\ t \in 0..sNow'
    BY <1>1, <2>1, <2>2, <2>3
  <2>5. Heard(n, s, t)'
    BY <2>4 DEF Heard
  <2> QED
    BY <2>3, <2>5
<1>3. ASSUME NEW heard \in BOOLEAN, NEW n \in SNames, NEW u \in SUsers, S!CreateAtWaha(r, u, n, heard)
      PROVE  SessionsIInv'
  <2>1. S!WahaChange(n, "WORKING") /\ UNCHANGED <<sSession, sGranted, sReferred, sLost, sOvertaken>>
    BY <1>3 DEF S!CreateAtWaha
  <2>2. "WORKING" \in S!Statuses
    BY DEF S!Statuses
  <2>3. PICK t \in -1..SMaxTime : t = sNow' /\ Heard(n, "WORKING", t)'
    BY <1>2, <2>1, <2>2
  <2>4. PICK rec : rec = [S!Idle EXCEPT !.step = "insert", !.by = u, !.name = n, !.status = "WORKING", !.at = t]
    OBVIOUS
  <2>5. rec = [step |-> "insert", by |-> u, row |-> None, name |-> n, status |-> "WORKING", at |-> t]
    BY <2>4 DEF S!Idle
  <2>6. /\ rec \in SessionsRequestState /\ rec.step = "insert" /\ rec.name = n /\ rec.status = "WORKING" /\ rec.at = t
        /\ rec.by = u
    BY <2>2, <2>5 DEF SessionsRequestState, S!Steps
  <2>7. SessionsSound(rec)'
    BY <2>3, <2>6, StepsApart DEF SessionsSound
  <2>8. sRequest' = [sRequest EXCEPT ![r] = rec] \/ sRequest' = [sRequest EXCEPT ![r] = S!Idle]
    BY <1>3, <2>3, <2>4 DEF S!CreateAtWaha, S!Answer, S!Become
  <2> QED
    BY <1>1, <2>1, <2>2, <2>6, <2>7, <2>8, WahaChanges
<1>4. ASSUME NEW heard \in BOOLEAN, NEW s \in S!Statuses, NEW next \in {"write", "save", "idle"},
             sRequest[r].step \in S!Calls, S!CallWaha(r, s, next, heard), next = "idle" => ~heard
      PROVE  SessionsIInv'
  <2>0. PICK q : q = sRequest[r]
    OBVIOUS
  <2>1. /\ q \in SessionsRequestState /\ q.row \in SRows /\ q.name \in SNames
        /\ (S!Exists(q.row) => sSession[q.row].name = q.name)
        /\ q = [step |-> q.step, by |-> q.by, row |-> q.row, name |-> q.name, status |-> q.status, at |-> q.at]
        /\ q.by \in SUsers \cup {None}
    BY <1>4, <2>0 DEF SessionsIInv, Typed, SessionsRequestsSound, SessionsSound, SessionsRequestState
  <2>2. /\ S!WahaChange(q.name, s) /\ UNCHANGED <<sSession, sGranted, sReferred, sLost, sOvertaken>>
        /\ S!Answer(r, [q EXCEPT !.step = next, !.status = s, !.at = sNow'], heard)
    BY <1>4, <2>0 DEF S!CallWaha
  <2>3. PICK t \in -1..SMaxTime : t = sNow' /\ Heard(q.name, s, t)'
    BY <1>2, <2>1, <2>2
  <2>4. PICK rec : rec = [q EXCEPT !.step = next, !.status = s, !.at = t]
    OBVIOUS
  <2>5. rec = [step |-> next, by |-> q.by, row |-> q.row, name |-> q.name, status |-> s, at |-> t]
    BY <2>1, <2>4
  <2>6. \/ sRequest' = [sRequest EXCEPT ![r] = rec] /\ next \in {"write", "save"}
        \/ sRequest' = [sRequest EXCEPT ![r] = S!Idle]
    BY <1>4, <2>2, <2>3, <2>4 DEF S!Answer, S!Become
  <2>7. CASE next \in {"write", "save"}
    <3>1. /\ rec \in SessionsRequestState /\ rec.step = next /\ rec.row = q.row /\ rec.name = q.name
          /\ rec.status = s /\ rec.at = t
      BY <2>1, <2>3, <2>5, <2>7, StepsApart DEF SessionsRequestState
    <3>2. S!Exists(q.row)' => sSession'[q.row].name = q.name
      BY <2>1, <2>2 DEF S!Exists
    <3>3. SessionsSound(rec)'
      BY <2>1, <2>3, <2>7, <3>1, <3>2, StepsApart DEF SessionsSound
    <3> QED
      BY <1>1, <2>1, <2>2, <2>6, <3>1, <3>3, WahaChanges
  <2>8. CASE sRequest' = [sRequest EXCEPT ![r] = S!Idle]
    BY <1>1, <2>1, <2>2, <2>8, WahaChanges
  <2> QED
    BY <2>6, <2>7, <2>8
<1>5. "WORKING" \in S!Statuses /\ "STOPPED" \in S!Statuses
  BY DEF S!Statuses
<1>6. ASSUME NEW heard \in BOOLEAN, S!Lifecycle(r, heard) PROVE SessionsIInv'
  <2>1. PICK s \in S!Statuses : s = IF sRequest[r].step \in {"stop", "logout"} THEN "STOPPED" ELSE "WORKING"
    BY <1>5
  <2>2. S!CallWaha(r, s, "save", heard) /\ sRequest[r].step \in S!Calls
    BY <1>6, <2>1, StepsApart DEF S!Lifecycle
  <2> QED
    BY <1>4, <2>2
<1>7. ASSUME NEW heard \in BOOLEAN, S!Update(r, heard) PROVE SessionsIInv'
  BY <1>4, <1>5, <1>7, StepsApart DEF S!Update, S!AtStep
<1>8. ASSUME S!Pair(r) PROVE SessionsIInv'
  BY <1>4, <1>5, <1>8, StepsApart DEF S!Pair
<1> QED
  BY <1>3, <1>6, <1>7, <1>8

LEMMA OthersKeepIInv ==
  ASSUME SessionsAssumption, SessionsIInv,
         \/ \E r \in SRequests, u \in SUsers, i \in SRows, op \in SOps : S!Begin(r, u, i, op)
         \/ \E r \in SRequests : S!CreateGrant(r) \/ S!Throw(r)
         \/ \E u, v \in SUsers, i \in SRows : S!AdminGrant(u, v, i)
         \/ \E n \in SNames, s \in S!Statuses : S!Spontaneous(n, s)
         \/ \E e \in sEvents : S!StrayEvent(e)
         \/ \E i \in SRows : S!Refer(i)
         \/ UNCHANGED S!vars
  PROVE  SessionsIInv'
<1>1. /\ Typed /\ S!NothingDangles /\ sNow \in 0..SMaxTime /\ sNow \in Nat /\ SMaxTime \in Nat /\ SessionsRequestsSound
      /\ S!Idle \in SessionsRequestState /\ SessionsSound(S!Idle)'
      /\ sGranted \subseteq SUsers \X SRows /\ \A g \in sGranted : S!Exists(g[2])
      /\ sReferred \subseteq SRows /\ \A i \in sReferred : S!Exists(i)
  BY SessionsIdleIsSound DEF SessionsIInv, Typed, S!NothingDangles, SessionsAssumption
<1>2. sNow \in {sNow, sNow + 1} /\ sNow <= SMaxTime
  BY <1>1
<1>3. ASSUME NEW r \in SRequests, S!CreateGrant(r) PROVE SessionsIInv'
  <2>1. sRequest[r].by \in SUsers /\ sRequest[r].row \in SRows
    BY <1>1, <1>3 DEF S!CreateGrant, S!AtStep, SessionsRequestsSound, SessionsSound
  <2>2. /\ sGranted' \subseteq SUsers \X SRows /\ \A g \in sGranted' : S!Exists(g[2])
        /\ sRequest' = [sRequest EXCEPT ![r] = S!Idle]
        /\ UNCHANGED <<sSession, sReferred, sWaha, sEvents, sNow, sLost, sOvertaken>>
    BY <1>1, <1>3, <2>1 DEF S!CreateGrant, S!Finish, S!Become
  <2> QED
    BY <1>1, <1>2, <2>2, RowsStay
<1>4. ASSUME NEW r \in SRequests, S!Throw(r) PROVE SessionsIInv'
  BY <1>1, <1>2, <1>4, RowsStay DEF S!Throw, S!Finish, S!Become
<1>5. ASSUME NEW u \in SUsers, NEW v \in SUsers, NEW i \in SRows, S!AdminGrant(u, v, i) PROVE SessionsIInv'
  <2>1. /\ sGranted' \subseteq SUsers \X SRows /\ \A g \in sGranted' : S!Exists(g[2])
        /\ UNCHANGED <<sSession, sReferred, sWaha, sEvents, sRequest, sNow, sLost, sOvertaken>>
    BY <1>1, <1>5 DEF S!AdminGrant
  <2> QED
    BY <1>1, <1>2, <2>1, RowsStay
<1>6. ASSUME NEW n \in SNames, NEW s \in S!Statuses, S!Spontaneous(n, s) PROVE SessionsIInv'
  BY <1>6, WahaChanges DEF S!Spontaneous
<1>7. ASSUME NEW e \in sEvents, S!StrayEvent(e) PROVE SessionsIInv'
  BY <1>1, <1>2, <1>7, RowsStay DEF S!StrayEvent
<1>8. ASSUME NEW i \in SRows, S!Refer(i) PROVE SessionsIInv'
  <2>1. /\ sReferred' \subseteq SRows /\ \A j \in sReferred' : S!Exists(j)
        /\ UNCHANGED <<sSession, sGranted, sWaha, sEvents, sRequest, sNow, sLost, sOvertaken>>
    BY <1>1, <1>8 DEF S!Refer
  <2> QED
    BY <1>1, <1>2, <2>1, RowsStay
<1>9. CASE UNCHANGED S!vars
  BY <1>1, <1>2, <1>9, RowsStay DEF S!vars
<1>10. ASSUME NEW r \in SRequests, NEW u \in SUsers, NEW i \in SRows, NEW op \in SOps, S!Begin(r, u, i, op)
       PROVE  SessionsIInv'
  <2>1. op \in S!Calls /\ op \in S!Steps
    BY StepsApart DEF SessionsAssumption
  <2>2. S!Exists(i)
    BY <1>10 DEF S!Begin, S!MayCall, S!MayLifecycle, S!Authorized
  <2>3. sSession[i].name \in SNames
    BY <1>1, <2>2, TypesOfRows
  <2>4. PICK rec : rec = [S!Idle EXCEPT !.step = op, !.by = u, !.row = i, !.name = sSession[i].name]
    OBVIOUS
  <2>5. rec = [step |-> op, by |-> u, row |-> i, name |-> sSession[i].name, status |-> None, at |-> -1]
    BY <2>4 DEF S!Idle
  <2>6. rec \in SessionsRequestState /\ rec.step = op /\ rec.row = i /\ rec.name = sSession[i].name
    <3>1. -1 \in -1..SMaxTime
      BY DEF SessionsAssumption
    <3> QED
      BY <2>1, <2>3, <2>5, <3>1 DEF SessionsRequestState
  <2>7. SessionsSound(rec)'
    BY <1>10, <2>1, <2>3, <2>6, StepsApart DEF SessionsSound, S!Begin
  <2>8. /\ sRequest' = [sRequest EXCEPT ![r] = rec]
        /\ UNCHANGED <<sSession, sGranted, sReferred, sWaha, sEvents, sNow, sLost, sOvertaken>>
    BY <1>10, <2>4 DEF S!Begin, S!Become
  <2> QED
    BY <1>1, <1>2, <2>6, <2>7, <2>8, RowsStay
<1> QED
  BY <1>3, <1>4, <1>5, <1>6, <1>7, <1>8, <1>9, <1>10


-----------------------------------------------------------------------------
(* A row gets what an answer or an event said of its session.               *)
LEMMA ToldIsShown ==
  ASSUME SessionsAssumption, SessionsIInv, NEW i \in SRows, S!Exists(i), NEW new \in RowState,
         sSession' = [sSession EXCEPT ![i] = new], new.name = sSession[i].name,
         UNCHANGED sWaha, NEW t, Heard(new.name, new.status, t),
         S!Late(i, t) => i \in sOvertaken'
  PROVE  /\ S!Exists(i)'
         /\ sWaha[new.name] # S!Gone /\ i \notin sOvertaken' =>
              new.status = sWaha[new.name].status /\ t = sWaha[new.name].at
<1>1. sSession \in [SRows -> RowState \cup {S!NoRow}] /\ sWaha \in [SNames -> WahaState \cup {S!Gone}] /\ new.name \in SNames
      /\ sNow \in Nat /\ t \in 0..sNow
  BY DEF SessionsIInv, Typed, RowState, Heard, SessionsAssumption
<1>2. S!Exists(i)'
  <2>1. new # S!NoRow
    BY <1>1 DEF S!NoRow, SessionsAssumption
  <2> QED
    BY <1>1, <2>1 DEF S!Exists
<1>3. ASSUME sWaha[new.name] # S!Gone, i \notin sOvertaken' PROVE new.status = sWaha[new.name].status /\ t = sWaha[new.name].at
  <2>1. sWaha[new.name].at \in 0..SMaxTime /\ SMaxTime \in Nat
    BY <1>1, <1>3 DEF WahaState, SessionsAssumption
  <2>2. ~(sWaha[new.name].at > t)
    BY <1>3 DEF S!Late
  <2>3. t <= sWaha[new.name].at /\ (t = sWaha[new.name].at => new.status = sWaha[new.name].status)
    BY <1>3 DEF Heard
  <2> QED
    BY <1>1, <2>1, <2>2, <2>3
<1> QED
  BY <1>2, <1>3

LEMMA NewRowIs ==
  ASSUME Typed, NEW i \in SRows, S!Exists(i), NEW s \in S!Statuses, NEW t \in -1..SMaxTime
  PROVE  /\ [sSession EXCEPT ![i].status = s] = [sSession EXCEPT ![i] = [sSession[i] EXCEPT !.status = s]]
         /\ [sSession EXCEPT ![i].status = s, ![i].at = t]
              = [sSession EXCEPT ![i] = [name |-> sSession[i].name, status |-> s, at |-> t]]
         /\ [sSession[i] EXCEPT !.status = s] = [name |-> sSession[i].name, status |-> s, at |-> sSession[i].at]
         /\ [name |-> sSession[i].name, status |-> s, at |-> t] \in RowState
         /\ [name |-> sSession[i].name, status |-> s, at |-> sSession[i].at] \in RowState
<1>1. sSession[i] \in RowState /\ sSession \in [SRows -> RowState \cup {S!NoRow}]
  BY TypesOfRows DEF Typed
<1>2. sSession[i] = [name |-> sSession[i].name, status |-> sSession[i].status, at |-> sSession[i].at]
      /\ sSession[i].name \in SNames /\ sSession[i].at \in -1..SMaxTime
  BY <1>1 DEF RowState
<1>3. [sSession[i] EXCEPT !.status = s] = [name |-> sSession[i].name, status |-> s, at |-> sSession[i].at]
  BY <1>2
<1>4. [[sSession[i] EXCEPT !.status = s] EXCEPT !.at = t] = [name |-> sSession[i].name, status |-> s, at |-> t]
  <2>1. ASSUME NEW mid, mid = [name |-> sSession[i].name, status |-> s, at |-> sSession[i].at]
        PROVE  [mid EXCEPT !.at = t] = [name |-> sSession[i].name, status |-> s, at |-> t]
    BY <2>1
  <2> QED
    BY <1>3, <2>1, Zenon
<1>5. [sSession EXCEPT ![i].status = s] = [sSession EXCEPT ![i] = [sSession[i] EXCEPT !.status = s]]
  BY <1>1
<1>6. [sSession EXCEPT ![i].status = s, ![i].at = t]
        = [sSession EXCEPT ![i] = [[sSession[i] EXCEPT !.status = s] EXCEPT !.at = t]]
  BY <1>1
<1>7. /\ [name |-> sSession[i].name, status |-> s, at |-> t] \in RowState
      /\ [name |-> sSession[i].name, status |-> s, at |-> sSession[i].at] \in RowState
  BY <1>2 DEF RowState
<1>8. [sSession EXCEPT ![i].status = s, ![i].at = t]
        = [sSession EXCEPT ![i] = [name |-> sSession[i].name, status |-> s, at |-> t]]
  BY <1>4, <1>6, Zenon
<1> QED
  BY <1>3, <1>5, <1>7, <1>8, Zenon

LEMMA WritesKeepIInv ==
  ASSUME SessionsAssumption, SessionsIInv, NEW r \in SRequests, S!UpdateRow(r)
  PROVE  SessionsIInv'
<1>0. PICK q : q = sRequest[r]
  OBVIOUS
<1>1. /\ Typed /\ SessionsRequestsSound /\ TimesPast /\ sNow \in Nat /\ sNow <= SMaxTime /\ sNow \in {sNow, sNow + 1}
      /\ q \in SessionsRequestState /\ sRequest \in [SRequests -> SessionsRequestState] /\ S!NothingDangles
      /\ sGranted \subseteq SUsers \X SRows /\ sReferred \subseteq SRows /\ sOvertaken \subseteq SRows
  BY <1>0 DEF SessionsIInv, Typed, SessionsAssumption
<1>2. /\ q.row \in SRows /\ Heard(q.name, q.status, q.at) /\ (S!Exists(q.row) => sSession[q.row].name = q.name)
      /\ UNCHANGED <<sGranted, sReferred, sWaha, sEvents, sNow, sLost>> /\ q.step = "write"
  BY <1>0, <1>1 DEF S!UpdateRow, S!AtStep, SessionsRequestsSound, SessionsSound
<1>3. PICK rec : rec = [q EXCEPT !.step = "save"]
  OBVIOUS
<1>4. sRequest' = [sRequest EXCEPT ![r] = rec] /\ rec \in SessionsRequestState /\ rec.step = "save" /\ rec.row = q.row
      /\ rec.name = q.name /\ rec.status = q.status /\ rec.at = q.at
  <2>1. "save" \in S!Steps
    BY DEF S!Steps
  <2>2. sRequest' = [sRequest EXCEPT ![r] = rec]
    BY <1>0, <1>1, <1>3 DEF S!UpdateRow, S!GoTo
  <2> QED
    BY <1>0, <1>1, <1>3, <2>1, <2>2, SessionsStepsOfRequests
<1>5. Heard(rec.name, rec.status, rec.at)'
  <2>1. Heard(rec.name, rec.status, rec.at)
    BY <1>2, <1>4
  <2> QED
    BY <1>0, <1>1, <1>2, <2>1, HeardKept DEF WahaMoves
<1>6. CASE ~S!Exists(q.row)
  <2>1. UNCHANGED <<sSession, sOvertaken>>
    BY <1>0, <1>6 DEF S!UpdateRow
  <2>2. ~S!Exists(q.row)'
    BY <1>6, <2>1 DEF S!Exists
  <2>3. SessionsSound(rec)'
    BY <1>2, <1>4, <1>5, <2>2, StepsApart DEF SessionsSound
  <2>4. (\A g \in sGranted' : S!Exists(g[2])) /\ \A i \in sReferred' : S!Exists(i)
    BY <1>0, <1>1, <1>2 DEF S!NothingDangles
  <2> QED
    BY <1>0, <1>1, <1>2, <1>4, <2>1, <2>3, <2>4, RowsStay
<1>7. CASE S!Exists(q.row)
  <2>0. PICK i \in SRows : i = q.row
    BY <1>2
  <2>1. PICK new : new = [name |-> sSession[i].name, status |-> q.status, at |-> sSession[i].at]
    OBVIOUS
  <2>2. q.status \in S!Statuses /\ 0 \in -1..SMaxTime
    BY <2>0, <1>2 DEF Heard, SessionsAssumption
  <2>3. /\ sSession' = [sSession EXCEPT ![i] = new] /\ new \in RowState
        /\ sOvertaken' = sOvertaken \cup (IF S!Late(i, q.at) THEN {i} ELSE {})
    BY <1>0, <1>1, <1>2, <2>0, <1>7, <2>1, <2>2, NewRowIs DEF S!UpdateRow
  <2>4. new.name = sSession[i].name /\ new.name = q.name /\ new.status = q.status /\ new.at = sSession[i].at
    BY <2>0, <1>2, <1>7, <2>1
  <2>5. /\ S!Exists(i)'
        /\ sWaha[new.name] # S!Gone /\ i \notin sOvertaken' => new.status = sWaha[new.name].status /\ q.at = sWaha[new.name].at
    BY <2>0, <1>2, <1>7, <2>3, <2>4, ToldIsShown
  <2>6. sSession[i].at <= sNow
    BY <1>0, <2>0, <1>1, <1>2 DEF TimesPast
  <2>7. sSession'[i] = new
    BY <1>0, <1>1, <1>2, <2>0, <2>3 DEF Typed
  <2>8. Shown(i)'
    <3>1. SUFFICES ASSUME sWaha[new.name] # S!Gone, i \notin sOvertaken'
                   PROVE  new.at = -1 \/ new.at >= sWaha[new.name].at \/ LastEvent(new.name)' \in sEvents'
      BY <2>0, <1>2, <2>5, <2>7 DEF Shown
    <3>2. i \notin sOvertaken
      BY <2>3, <3>1
    <3>3. Shown(i) /\ LastEvent(new.name)' = LastEvent(new.name) /\ sEvents' = sEvents
      BY <2>0, <1>2 DEF SessionsIInv, LastEvent
    <3> QED
      BY <2>0, <1>7, <2>4, <3>1, <3>2, <3>3 DEF Shown
  <2>9. SessionsSound(rec)'
    BY <2>0, <1>2, <1>4, <1>5, <2>4, <2>7, StepsApart DEF SessionsSound
  <2>10. sOvertaken' \subseteq SRows /\ \A j \in SRows \ {i} : j \in sOvertaken => j \in sOvertaken'
    BY <1>0, <1>1, <1>2, <2>0, <2>3
  <2> QED
    BY <1>0, <1>1, <1>2, <2>0, <1>4, <1>7, <2>3, <2>4, <2>6, <2>8, <2>9, <2>10, RowWritten
<1> QED
  BY <1>6, <1>7

LEMMA SavesKeepIInv ==
  ASSUME SessionsAssumption, SessionsIInv, NEW r \in SRequests, S!SaveStatus(r)
  PROVE  SessionsIInv'
<1>0. PICK q : q = sRequest[r]
  OBVIOUS
<1>1. /\ Typed /\ SessionsRequestsSound /\ TimesPast /\ sNow \in Nat /\ sNow' = sNow + 1 /\ sNow' <= SMaxTime
      /\ sNow' \in {sNow, sNow + 1} /\ sNow' \in -1..SMaxTime
      /\ S!Idle \in SessionsRequestState /\ SessionsSound(S!Idle)' /\ sRequest' = [sRequest EXCEPT ![r] = S!Idle] /\ S!NothingDangles
      /\ sGranted \subseteq SUsers \X SRows /\ sReferred \subseteq SRows /\ sOvertaken \subseteq SRows
  BY SessionsIdleIsSound DEF SessionsIInv, Typed, SessionsAssumption, S!SaveStatus, S!Finish, S!Become
<1>2. /\ q.row \in SRows /\ Heard(q.name, q.status, q.at) /\ (S!Exists(q.row) => sSession[q.row].name = q.name)
      /\ UNCHANGED <<sGranted, sReferred, sWaha, sEvents, sLost>>
  BY <1>0, <1>1 DEF S!SaveStatus, S!AtStep, SessionsRequestsSound, SessionsSound
<1>3. S!Newer(q.row, sNow') <=> S!Exists(q.row)
  <2>1. S!Exists(q.row) => sSession[q.row].at \in -1..SMaxTime /\ sSession[q.row].at <= sNow
    BY <1>0, <1>1, <1>2, TypesOfRows DEF TimesPast
  <2> QED
    BY <1>0, <1>1, <2>1 DEF S!Newer, SessionsAssumption
<1>4. CASE ~S!Exists(q.row)
  <2>1. UNCHANGED <<sSession, sOvertaken>>
    BY <1>0, <1>3, <1>4 DEF S!SaveStatus
  <2>2. (\A g \in sGranted' : S!Exists(g[2])) /\ \A i \in sReferred' : S!Exists(i)
    BY <1>0, <1>1, <1>2 DEF S!NothingDangles
  <2> QED
    BY <1>0, <1>1, <1>2, <2>1, <2>2, RowsStay
<1>5. CASE S!Exists(q.row)
  <2>0. PICK i \in SRows : i = q.row
    BY <1>2
  <2>1. PICK t \in -1..SMaxTime : t = sNow'
    BY <1>0, <2>0, <1>1
  <2>2. PICK new : new = [name |-> sSession[i].name, status |-> q.status, at |-> t]
    OBVIOUS
  <2>3. q.status \in S!Statuses
    BY <2>0, <1>2 DEF Heard
  <2>4. /\ sSession' = [sSession EXCEPT ![i] = new] /\ new \in RowState
        /\ sOvertaken' = S!Judge(i, q.at)
    <3>1. /\ sSession' = [sSession EXCEPT ![i].status = q.status, ![i].at = t]
          /\ sOvertaken' = S!Judge(i, q.at)
      BY <1>0, <1>3, <1>5, <2>0, <2>1 DEF S!SaveStatus
    <3>2. /\ [sSession EXCEPT ![i].status = q.status, ![i].at = t]
              = [sSession EXCEPT ![i] = [name |-> sSession[i].name, status |-> q.status, at |-> t]]
          /\ [name |-> sSession[i].name, status |-> q.status, at |-> t] \in RowState
      <4>1. S!Exists(i) /\ Typed
        BY <1>1, <1>5, <2>0
      <4> QED
        BY <2>3, <4>1, NewRowIs
    <3> QED
      BY <2>2, <3>1, <3>2
  <2>5. new.name = sSession[i].name /\ new.name = q.name /\ new.status = q.status /\ new.at = t
    BY <2>0, <1>2, <1>5, <2>2
  <2>6. S!Late(i, q.at) => i \in sOvertaken'
    BY <2>4 DEF S!Judge
  <2>7. sWaha[new.name] # S!Gone /\ i \notin sOvertaken' => new.status = sWaha[new.name].status /\ q.at = sWaha[new.name].at
    BY <2>0, <1>2, <1>5, <2>4, <2>5, <2>6, ToldIsShown
  <2>8. sSession'[i] = new
    BY <1>0, <1>1, <1>2, <2>0, <2>4 DEF Typed
  <2>9. new.name \in SNames => t >= sWaha[new.name].at
    BY <1>0, <2>0, <1>1, <2>1 DEF TimesPast, Typed, WahaState, S!Gone, SessionsAssumption
  <2>10. Shown(i)'
    BY <2>0, <1>2, <2>4, <2>5, <2>7, <2>8, <2>9 DEF Shown, Heard
  <2>11. sOvertaken' \subseteq SRows /\ \A j \in SRows \ {i} : j \in sOvertaken => j \in sOvertaken'
    BY <1>0, <1>1, <1>2, <2>0, <2>4 DEF S!Judge
  <2>12. new.at <= sNow' /\ sEvents' \subseteq sEvents /\ \A e \in sEvents \ sEvents' : FALSE
    BY <1>0, <1>1, <1>2, <2>0, <2>1, <2>5
  <2> QED
    BY <1>0, <1>1, <1>2, <2>0, <1>5, <2>4, <2>5, <2>10, <2>11, <2>12, RowWritten
<1> QED
  BY <1>4, <1>5


LEMMA EventsKeepIInv ==
  ASSUME SessionsAssumption, SessionsIInv, NEW e \in sEvents, NEW i \in SRows, S!StatusEvent(e, i)
  PROVE  SessionsIInv'
<1> DEFINE missed == {j \in SRows \ {i} : sSession[j].name = e.name}
<1>1. /\ Typed /\ SessionsRequestsSound /\ TimesPast /\ sNow \in Nat /\ sNow <= SMaxTime /\ sNow \in {sNow, sNow + 1}
      /\ sOvertaken \subseteq SRows /\ Heard(e.name, e.status, e.at) /\ e.at \in 0..SMaxTime /\ e.at \in -1..SMaxTime
      /\ e = [name |-> e.name, status |-> e.status, at |-> e.at] /\ Shown(i)
  BY DEF SessionsIInv, Typed, TimesPast, SessionsAssumption
<1>2. /\ sSession[i].name = e.name /\ sEvents' = sEvents \ {e}
      /\ UNCHANGED <<sGranted, sReferred, sWaha, sRequest, sNow, sLost>>
  BY DEF S!StatusEvent
<1>3. S!Exists(i) /\ sSession[i].at \in -1..SMaxTime
  <2>1. S!Exists(i)
    BY <1>1, <1>2 DEF Heard, S!Exists, S!NoRow, SessionsAssumption
  <2> QED
    BY <1>1, <2>1, TypesOfRows
<1>4. ASSUME \A j \in missed : j \in sOvertaken', sOvertaken' \subseteq SRows,
             \A j \in SRows \ {i} : j \in sOvertaken => j \in sOvertaken',
             NEW new \in RowState, sSession' = [sSession EXCEPT ![i] = new], new.name = e.name,
             new.at <= sNow, Shown(i)'
      PROVE  SessionsIInv'
  BY <1>1, <1>2, <1>3, <1>4, RowWritten
<1>5. CASE S!Newer(i, e.at)
  <2>1. PICK new : new = [name |-> sSession[i].name, status |-> e.status, at |-> e.at]
    OBVIOUS
  <2>2. e.status \in S!Statuses /\ e.at <= sNow
    BY <1>1 DEF Heard
  <2>3. sSession' = [sSession EXCEPT ![i] = new] /\ new \in RowState
    <3>1. sSession' = [sSession EXCEPT ![i].status = e.status, ![i].at = e.at]
      BY <1>5 DEF S!StatusEvent
    <3>2. /\ [sSession EXCEPT ![i].status = e.status, ![i].at = e.at]
              = [sSession EXCEPT ![i] = [name |-> sSession[i].name, status |-> e.status, at |-> e.at]]
          /\ [name |-> sSession[i].name, status |-> e.status, at |-> e.at] \in RowState
      BY <1>1, <1>3, <2>2, NewRowIs
    <3> QED
      BY <2>1, <3>1, <3>2
  <2>4. sOvertaken' = missed \cup (IF sSession[i].at = -1 \/ sWaha[e.name].at <= e.at
                                   THEN S!Judge(i, e.at) ELSE sOvertaken)
    BY <1>5 DEF S!StatusEvent
  <2>5. new.name = e.name /\ new.status = e.status /\ new.at = e.at
    BY <1>2, <2>1
  <2>6. /\ \A j \in missed : j \in sOvertaken'
        /\ sOvertaken' \subseteq SRows
        /\ \A j \in SRows \ {i} : j \in sOvertaken => j \in sOvertaken'
        /\ i \notin missed
    BY <1>1, <2>4 DEF S!Judge
  <2>7. sSession'[i] = new
    BY <1>1, <2>3 DEF Typed
  <2>8. Shown(i)'
    <3>1. SUFFICES ASSUME sWaha[e.name] # S!Gone, i \notin sOvertaken' PROVE Shown(i)'
      BY <1>2, <2>5, <2>7 DEF Shown
    <3>2. sWaha[e.name].at \in 0..SMaxTime /\ e.at <= sWaha[e.name].at
      BY <1>1, <3>1 DEF Heard, Typed, WahaState
    <3>3. CASE sSession[i].at = -1 \/ sWaha[e.name].at <= e.at
      <4>1. S!Late(i, e.at) => i \in sOvertaken'
        BY <2>4, <3>3 DEF S!Judge
      <4>2. new.status = sWaha[new.name].status /\ e.at = sWaha[new.name].at
        BY <1>1, <1>2, <1>3, <2>3, <2>5, <3>1, <4>1, ToldIsShown
      <4> QED
        BY <1>1, <1>2, <2>5, <2>7, <3>2, <4>2 DEF Shown
    <3>4. CASE ~(sSession[i].at = -1 \/ sWaha[e.name].at <= e.at)
      <4>1. i \notin sOvertaken /\ e.at < sWaha[e.name].at
        BY <1>1, <2>4, <3>1, <3>2, <3>4
      <4>2. sSession[i].at < sWaha[e.name].at
        BY <1>1, <1>3, <1>5, <3>2, <4>1 DEF S!Newer
      <4>3. LastEvent(e.name) \in sEvents
        BY <1>1, <1>2, <1>3, <3>1, <3>2, <3>4, <4>1, <4>2 DEF Shown
      <4>4. LastEvent(e.name) # e
        BY <3>2, <4>1 DEF LastEvent
      <4>5. LastEvent(e.name)' \in sEvents'
        BY <1>2, <4>3, <4>4 DEF LastEvent
      <4>6. ~(new.at >= sWaha[e.name].at)
        BY <1>1, <2>5, <3>2, <4>1
      <4> QED
        BY <1>2, <2>5, <2>7, <4>5, <4>6 DEF Shown
    <3> QED
      BY <3>3, <3>4
  <2> HIDE DEF missed
  <2> QED
    BY <1>4, <2>2, <2>3, <2>5, <2>6, <2>8
<1>6. CASE ~S!Newer(i, e.at)
  <2>1. sSession' = sSession /\ sOvertaken' = sOvertaken \cup missed
    BY <1>6 DEF S!StatusEvent
  <2>2. PICK new \in RowState : new = sSession[i]
    BY <1>1, <1>3, TypesOfRows
  <2>3. sSession' = [sSession EXCEPT ![i] = new] /\ new.name = e.name /\ new.at <= sNow
    BY <1>1, <1>2, <2>1, <2>2 DEF Typed, TimesPast
  <2>4. sSession[i].at >= e.at
    BY <1>1, <1>3, <1>6 DEF S!Newer
  <2>5. Shown(i)'
    <3>1. SUFFICES ASSUME sWaha[e.name] # S!Gone, i \notin sOvertaken' PROVE Shown(i)'
      BY <1>2, <2>1 DEF Shown
    <3>2. sWaha[e.name].at \in 0..SMaxTime /\ e.at <= sWaha[e.name].at /\ i \notin sOvertaken
      BY <1>1, <2>1, <3>1 DEF Heard, Typed, WahaState
    <3>3. sSession[i].at >= sWaha[e.name].at => sSession[i].status = sWaha[e.name].status
      BY <1>1, <1>2, <1>3, <3>1, <3>2 DEF Shown
    <3>4. CASE sSession[i].at >= sWaha[e.name].at
      BY <1>2, <2>1, <3>3, <3>4 DEF Shown
    <3>5. CASE ~(sSession[i].at >= sWaha[e.name].at)
      <4>1. e.at < sWaha[e.name].at
        BY <1>1, <1>3, <2>4, <3>2, <3>5
      <4>2. LastEvent(e.name) # e
        BY <1>1, <3>2, <4>1 DEF LastEvent
      <4>3. LastEvent(e.name)' = LastEvent(e.name) /\ (LastEvent(e.name) \in sEvents => LastEvent(e.name) \in sEvents')
        BY <1>2, <4>2 DEF LastEvent
      <4>4. S!Exists(i)' <=> S!Exists(i)
        BY <2>1 DEF S!Exists
      <4> QED
        BY <1>1, <1>2, <2>1, <3>1, <3>2, <4>3, <4>4 DEF Shown
    <3> QED
      BY <3>4, <3>5
  <2>6. /\ \A j \in missed : j \in sOvertaken'
        /\ sOvertaken' \subseteq SRows
        /\ \A j \in SRows \ {i} : j \in sOvertaken => j \in sOvertaken'
    BY <1>1, <2>1
  <2> HIDE DEF missed
  <2> QED
    BY <1>4, <2>3, <2>5, <2>6
<1> QED
  BY <1>5, <1>6


-----------------------------------------------------------------------------
(* A session goes at WAHA, and its rows are left over.                      *)
LEMMA DeletesKeepIInv ==
  ASSUME SessionsAssumption, SessionsIInv, NEW r \in SRequests, NEW heard \in BOOLEAN, S!DeleteAtWaha(r, heard)
  PROVE  SessionsIInv'
<1>0. PICK q : q = sRequest[r]
  OBVIOUS
<1>1. /\ Typed /\ SessionsRequestsSound /\ TimesPast /\ sNow \in Nat /\ S!Idle \in SessionsRequestState /\ SessionsSound(S!Idle)'
      /\ sWaha \in [SNames -> WahaState \cup {S!Gone}] /\ sLost \subseteq SRows /\ q \in SessionsRequestState
  BY <1>0, SessionsIdleIsSound DEF SessionsIInv, Typed, SessionsAssumption
<1>2. PICK n : n = q.name
  OBVIOUS
<1>3. /\ n \in SNames /\ q.row \in SRows /\ sWaha' = [sWaha EXCEPT ![n] = S!Gone]
      /\ sLost' = sLost \cup {j \in SRows : sSession[j].name = n}
      /\ UNCHANGED <<sSession, sGranted, sReferred, sEvents, sNow, sOvertaken>>
  <2>1. n \in SNames /\ q.row \in SRows
    BY <1>0, <1>1, <1>2, StepsApart DEF S!DeleteAtWaha, S!AtStep, SessionsRequestsSound, SessionsSound
  <2> QED
    BY <1>0, <1>2, <2>1 DEF S!DeleteAtWaha
<1>4. PICK rec : rec = [q EXCEPT !.step = "remove"]
  OBVIOUS
<1>5. rec \in SessionsRequestState /\ SessionsSound(rec)'
  <2>1. "remove" \in S!Steps
    BY DEF S!Steps
  <2>2. rec \in SessionsRequestState /\ rec.step = "remove" /\ rec.row = q.row
    BY <1>1, <1>4, <2>1, SessionsStepsOfRequests
  <2> QED
    BY <1>3, <2>2, StepsApart DEF SessionsSound
<1>6. sRequest' = [sRequest EXCEPT ![r] = rec] \/ sRequest' = [sRequest EXCEPT ![r] = S!Idle]
  BY <1>0, <1>4 DEF S!DeleteAtWaha, S!Answer, S!Become
<1>7. \A j : S!Exists(j)' <=> S!Exists(j)
  BY <1>3 DEF S!Exists
<1>8. WahaMoves /\ HeldKept
  BY <1>3, <1>7 DEF WahaMoves, HeldKept
<1>9. sRequest' \in [SRequests -> SessionsRequestState] /\ SessionsRequestsSound'
  BY <1>1, <1>5, <1>6, <1>8, SessionsRequestMoves
<1>10. \A m \in SNames : sWaha'[m] = IF m = n THEN S!Gone ELSE sWaha[m]
  BY <1>1, <1>3
<1>11. Typed'
  <2>1. sWaha' \in [SNames -> WahaState \cup {S!Gone}] /\ sLost' \subseteq SRows
    BY <1>1, <1>3
  <2> QED
    BY <1>1, <1>3, <1>9, <2>1 DEF Typed
<1>12. TimesPast'
  <2>1. \A m \in SNames : sWaha'[m].at <= sNow'
    BY <1>1, <1>3, <1>10 DEF TimesPast, S!Gone
  <2>2. \A e \in sEvents' : Heard(e.name, e.status, e.at)'
    BY <1>1, <1>3, <1>8, HeardKept DEF TimesPast
  <2> QED
    BY <1>1, <1>3, <2>1, <2>2 DEF TimesPast
<1>13. S!NothingDangles'
  BY <1>3, <1>7 DEF SessionsIInv, S!NothingDangles
<1>14. S!RowsAreBacked'
  <2>1. SUFFICES ASSUME NEW j \in SRows, S!Exists(j), sWaha'[sSession[j].name] = S!Gone PROVE j \in sLost'
    BY <1>3, <1>7 DEF S!RowsAreBacked
  <2>2. sSession[j].name \in SNames
    BY <1>1, <2>1, TypesOfRows
  <2> QED
    BY <1>3, <1>10, <2>1, <2>2 DEF SessionsIInv, S!RowsAreBacked
<1>15. ASSUME NEW j \in SRows PROVE Shown(j)'
  <2>1. SUFFICES ASSUME S!Exists(j), sWaha'[sSession[j].name] # S!Gone PROVE Shown(j)'
    BY <1>3, <1>7 DEF Shown
  <2>2. sSession[j].name \in SNames
    BY <1>1, <2>1, TypesOfRows
  <2>3. sWaha'[sSession[j].name] = sWaha[sSession[j].name] /\ Shown(j)
    BY <1>10, <2>1, <2>2 DEF SessionsIInv
  <2> QED
    BY <1>3, <1>7, <2>3 DEF Shown, LastEvent
<1> QED
  BY <1>9, <1>11, <1>12, <1>13, <1>14, <1>15 DEF SessionsIInv

(* A row comes or goes: all else of it comes and goes with it.              *)
LEMMA RowsComeAndGo ==
  ASSUME SessionsAssumption, SessionsIInv, NEW i \in SRows, NEW new \in RowState \cup {S!NoRow},
         sSession' = [sSession EXCEPT ![i] = new], UNCHANGED <<sWaha, sEvents, sReferred, sNow>>,
         new.at <= sNow, HeldKept, sLost' \subseteq SRows, sOvertaken' \subseteq SRows,
         sLost \ {i} \subseteq sLost', sOvertaken \ {i} \subseteq sOvertaken',
         sGranted' \subseteq sGranted, \A g \in sGranted' : g[2] = i => new # S!NoRow,
         i \in sReferred => new # S!NoRow,
         new # S!NoRow /\ sWaha[new.name] = S!Gone => i \in sLost',
         Shown(i)',
         NEW r \in SRequests, NEW rec \in SessionsRequestState, sRequest' = [sRequest EXCEPT ![r] = rec], SessionsSound(rec)'
  PROVE  SessionsIInv'
<1>1. /\ Typed /\ SessionsRequestsSound /\ TimesPast /\ WahaMoves /\ sSession \in [SRows -> RowState \cup {S!NoRow}]
      /\ sGranted \subseteq SUsers \X SRows
  BY DEF SessionsIInv, Typed, WahaMoves
<1>2. \A j \in SRows : sSession'[j] = IF j = i THEN new ELSE sSession[j]
  BY <1>1
<1>3. sRequest' \in [SRequests -> SessionsRequestState] /\ SessionsRequestsSound'
  BY <1>1, SessionsRequestMoves
<1>4. Typed'
  <2>1. sSession' \in [SRows -> RowState \cup {S!NoRow}]
    BY <1>1
  <2> QED
    BY <1>1, <1>3, <2>1 DEF Typed
<1>5. TimesPast'
  <2>1. \A e \in sEvents' : Heard(e.name, e.status, e.at)'
    BY <1>1, HeardKept DEF TimesPast
  <2> QED
    BY <1>1, <1>2, <2>1 DEF TimesPast
<1>6. \A j \in SRows : j # i => (S!Exists(j)' <=> S!Exists(j))
  BY <1>2 DEF S!Exists
<1>7. S!Exists(i)' <=> new # S!NoRow
  BY <1>2 DEF S!Exists
<1>8. S!NothingDangles'
  <2>1. \A g \in sGranted' : g[2] \in SRows /\ S!Exists(g[2])
    BY <1>1 DEF SessionsIInv, S!NothingDangles
  <2>2. \A j \in sReferred' : j \in SRows /\ S!Exists(j)
    BY DEF SessionsIInv, S!NothingDangles, Typed
  <2> QED
    BY <1>6, <1>7, <2>1, <2>2 DEF S!NothingDangles
<1>9. S!RowsAreBacked'
  BY <1>2, <1>6, <1>7 DEF SessionsIInv, S!RowsAreBacked
<1>10. ASSUME NEW j \in SRows, j # i PROVE Shown(j)'
  <2>1. Shown(j) /\ sSession'[j] = sSession[j] /\ (j \in sOvertaken => j \in sOvertaken')
    BY <1>2, <1>10 DEF SessionsIInv
  <2> QED
    BY <1>6, <1>10, <2>1 DEF Shown, LastEvent
<1>11. \A j \in SRows : Shown(j)'
  BY <1>10
<1> QED
  BY <1>3, <1>4, <1>5, <1>8, <1>9, <1>11 DEF SessionsIInv

LEMMA CreatesKeepIInv ==
  ASSUME SessionsAssumption, SessionsIInv, NEW r \in SRequests, NEW i \in SRows, S!CreateRow(r, i)
  PROVE  SessionsIInv'
<1>0. PICK q : q = sRequest[r]
  OBVIOUS
<1>1. /\ Typed /\ q \in SessionsRequestState /\ Heard(q.name, q.status, q.at) /\ q.step = "insert" /\ q.by \in SUsers
      /\ sNow \in Nat /\ sRequest \in [SRequests -> SessionsRequestState] /\ -1 \in -1..SMaxTime
      /\ sSession \in [SRows -> RowState \cup {S!NoRow}] /\ sLost \subseteq SRows /\ sOvertaken \subseteq SRows
      /\ sWaha \in [SNames -> WahaState \cup {S!Gone}]
  BY <1>0 DEF SessionsIInv, Typed, SessionsRequestsSound, SessionsSound, S!CreateRow, S!AtStep, SessionsAssumption
<1>2. PICK new : new = [name |-> q.name, status |-> q.status, at |-> -1]
  OBVIOUS
<1>3. /\ new \in RowState /\ new.name = q.name /\ new.status = q.status /\ new.at = -1
      /\ sSession' = [sSession EXCEPT ![i] = new] /\ ~S!Exists(i)
      /\ \A p \in SRequests : sRequest[p].row # i
      /\ UNCHANGED <<sGranted, sReferred, sWaha, sEvents, sNow>>
  BY <1>0, <1>1, <1>2 DEF S!CreateRow, RowState, Heard
<1>4. PICK rec : rec = [[q EXCEPT !.step = "grant"] EXCEPT !.row = i]
  OBVIOUS
<1>5. sRequest' = [sRequest EXCEPT ![r] = rec] /\ rec \in SessionsRequestState /\ rec.step = "grant" /\ rec.row = i
      /\ rec.by = q.by
  <2>1. PICK mid : mid = [q EXCEPT !.step = "grant"]
    OBVIOUS
  <2>2. "grant" \in S!Steps
    BY DEF S!Steps
  <2>3. mid \in SessionsRequestState /\ mid.step = "grant" /\ mid.by = q.by
    BY <1>1, <2>1, <2>2, SessionsStepsOfRequests
  <2>4. rec = [mid EXCEPT !.row = i]
    BY <1>4, <2>1
  <2>5. rec \in SessionsRequestState /\ rec.step = "grant" /\ rec.row = i /\ rec.by = q.by
    BY <2>3, <2>4 DEF SessionsRequestState
  <2>6. sRequest' = [sRequest EXCEPT ![r] = rec]
    <3>1. sRequest' = [sRequest EXCEPT ![r].step = "grant", ![r].row = i]
      BY DEF S!CreateRow
    <3>2. [sRequest EXCEPT ![r].step = "grant", ![r].row = i]
            = [sRequest EXCEPT ![r] = [[sRequest[r] EXCEPT !.step = "grant"] EXCEPT !.row = i]]
      BY <1>1
    <3> QED
      BY <1>0, <1>4, <3>1, <3>2, Zenon
  <2> QED
    BY <2>5, <2>6
<1>6. SessionsSound(rec)'
  BY <1>1, <1>5, StepsApart DEF SessionsSound
<1>7. HeldKept
  BY <1>1, <1>3 DEF HeldKept, S!Exists
<1>8. sSession'[i] = new /\ new \in RowState \cup {S!NoRow} /\ new # S!NoRow
  BY <1>1, <1>3 DEF Heard, S!NoRow, SessionsAssumption
<1>9. /\ sOvertaken' = IF S!Late(i, q.at)' THEN sOvertaken \cup {i} ELSE sOvertaken
      /\ sLost' = IF sWaha[q.name] = S!Gone THEN sLost \cup {i} ELSE sLost
  BY <1>0, <1>3, <1>8 DEF S!CreateRow, S!Late
<1>10. Shown(i)'
  <2>1. SUFFICES ASSUME sWaha[q.name] # S!Gone, i \notin sOvertaken' PROVE Shown(i)'
    BY <1>3, <1>8 DEF Shown
  <2>2. ~(sWaha[q.name].at > q.at)
    BY <1>3, <1>8, <1>9, <2>1 DEF S!Late
  <2>3. q.at <= sWaha[q.name].at /\ q.at \in Nat /\ sWaha[q.name].at \in Nat
    BY <1>1, <2>1 DEF Heard, WahaState, SessionsAssumption
  <2>4. q.at = sWaha[q.name].at /\ q.status = sWaha[q.name].status
    BY <1>1, <2>1, <2>2, <2>3 DEF Heard
  <2> QED
    BY <1>3, <1>8, <2>4 DEF Shown
<1>11. /\ new.at <= sNow /\ sLost' \subseteq SRows /\ sOvertaken' \subseteq SRows
       /\ sLost \ {i} \subseteq sLost' /\ sOvertaken \ {i} \subseteq sOvertaken'
       /\ sGranted' \subseteq sGranted
       /\ new # S!NoRow /\ sWaha[new.name] = S!Gone => i \in sLost'
  BY <1>1, <1>3, <1>9
<1> QED
  BY <1>3, <1>5, <1>6, <1>7, <1>8, <1>10, <1>11, RowsComeAndGo

LEMMA RemovalsKeepIInv ==
  ASSUME SessionsAssumption, SessionsIInv, NEW r \in SRequests, S!RemoveRow(r)
  PROVE  SessionsIInv'
<1>0. PICK i : i = sRequest[r].row
  OBVIOUS
<1>1. /\ Typed /\ S!NothingDangles /\ i \in SRows /\ sNow \in Nat /\ sNow \in {sNow, sNow + 1} /\ sNow <= SMaxTime
      /\ S!Idle \in SessionsRequestState /\ SessionsSound(S!Idle)'
      /\ sSession \in [SRows -> RowState \cup {S!NoRow}] /\ sLost \subseteq SRows /\ sOvertaken \subseteq SRows
      /\ sGranted \subseteq SUsers \X SRows /\ sReferred \subseteq SRows
  BY <1>0, SessionsIdleIsSound DEF SessionsIInv, Typed, SessionsRequestsSound, SessionsSound, S!RemoveRow, S!AtStep, SessionsAssumption
<1>2. UNCHANGED <<sReferred, sWaha, sEvents, sNow>> /\ sRequest' = [sRequest EXCEPT ![r] = S!Idle]
  BY DEF S!RemoveRow, S!Finish, S!Become
<1>3. CASE i \in sReferred
  <2>1. UNCHANGED <<sSession, sGranted, sLost, sOvertaken>>
    BY <1>0, <1>3 DEF S!RemoveRow
  <2>2. (\A g \in sGranted' : S!Exists(g[2])) /\ \A j \in sReferred' : S!Exists(j)
    BY <1>1, <1>2, <2>1 DEF S!NothingDangles
  <2> QED
    BY <1>1, <1>2, <2>1, <2>2, RowsStay
<1>4. CASE i \notin sReferred
  <2>1. /\ sSession' = [sSession EXCEPT ![i] = S!NoRow] /\ sGranted' = {g \in sGranted : g[2] # i}
        /\ sLost' = sLost \ {i} /\ sOvertaken' = sOvertaken \ {i}
    BY <1>0, <1>4 DEF S!RemoveRow
  <2>2. sSession'[i] = S!NoRow /\ \A j \in SRows : j # i => sSession'[j] = sSession[j]
    BY <1>1, <2>1
  <2>3. HeldKept /\ Shown(i)'
    BY <1>1, <2>2 DEF HeldKept, S!Exists, Shown
  <2>4. /\ S!NoRow \in RowState \cup {S!NoRow} /\ S!NoRow.at <= sNow /\ sLost' \subseteq SRows /\ sOvertaken' \subseteq SRows
        /\ sLost \ {i} \subseteq sLost' /\ sOvertaken \ {i} \subseteq sOvertaken' /\ sGranted' \subseteq sGranted
        /\ \A g \in sGranted' : g[2] = i => FALSE
    BY <1>1, <2>1 DEF S!NoRow
  <2> QED
    BY <1>1, <1>2, <1>4, <2>1, <2>3, <2>4, RowsComeAndGo
<1> QED
  BY <1>3, <1>4

LEMMA NextSessions ==
  ASSUME SessionsAssumption, SessionsIInv, [S!Next]_S!vars
  PROVE  SessionsIInv'
<1>1. ASSUME NEW r \in SRequests, NEW u \in SUsers, NEW heard \in BOOLEAN, NEW n \in SNames,
             S!CreateAtWaha(r, u, n, heard)
      PROVE  SessionsIInv'
  BY <1>1, CallsKeepIInv
<1>2. ASSUME NEW r \in SRequests, NEW heard \in BOOLEAN,
             S!Lifecycle(r, heard) \/ S!Update(r, heard) \/ S!DeleteAtWaha(r, heard)
      PROVE  SessionsIInv'
  BY <1>2, CallsKeepIInv, DeletesKeepIInv
<1>3. ASSUME NEW r \in SRequests,
             \/ \E i \in SRows : S!CreateRow(r, i)
             \/ S!CreateGrant(r) \/ S!UpdateRow(r) \/ S!SaveStatus(r) \/ S!RemoveRow(r) \/ S!Throw(r)
      PROVE  SessionsIInv'
  BY <1>3, CreatesKeepIInv, OthersKeepIInv, WritesKeepIInv, SavesKeepIInv, RemovalsKeepIInv
<1>4. ASSUME NEW r \in SRequests, S!Pair(r)
      PROVE  SessionsIInv'
  BY <1>4, CallsKeepIInv
<1>5. ASSUME NEW e \in sEvents, NEW i \in SRows, S!StatusEvent(e, i)
      PROVE  SessionsIInv'
  BY <1>5, EventsKeepIInv
<1>6. ASSUME \/ \E r \in SRequests, u \in SUsers, i \in SRows, op \in SOps : S!Begin(r, u, i, op)
             \/ \E u, v \in SUsers, i \in SRows : S!AdminGrant(u, v, i)
             \/ \E n \in SNames, s \in S!Statuses : S!Spontaneous(n, s)
             \/ \E e \in sEvents : S!StrayEvent(e)
             \/ \E i \in SRows : S!Refer(i)
             \/ UNCHANGED S!vars
      PROVE  SessionsIInv'
  BY <1>6, OthersKeepIInv
<1> QED
  BY <1>1, <1>2, <1>3, <1>4, <1>5, <1>6 DEF S!Next

(* Whatever answers are lost and in whatever order statuses are stored,      *)
(* nothing refers to a session that is gone, a row has its session at WAHA   *)
(* or waits to be removed, and a row shows the newest status it can know     *)
(* (waha/sessions.ts, db/repositories/transport.ts).                         *)
THEOREM SessionsHold ==
  ASSUME SessionsAssumption
  PROVE  S!Spec => [](S!SessionsInv /\ S!StatusShown)
<1>1. SessionsIInv => S!SessionsInv /\ S!StatusShown
  BY SessionsSuffices
<1>2. S!Init => SessionsIInv
  BY InitSessions
<1>3. SessionsIInv /\ [S!Next]_S!vars => SessionsIInv'
  BY NextSessions
<1> QED
  BY <1>1, <1>2, <1>3, PTL DEF S!Spec

=============================================================================
