------------------------------ MODULE SentHistory ------------------------------
(***************************************************************************)
(* The message history at the server (sent-history.ts and its repository). *)
(* A page is read by offset, newest job first, with one statement for the  *)
(* jobs, one for their attempts, one for the total and one for the names   *)
(* of contacts, and other requests send, change and remove jobs between    *)
(* any two of them.  A search reads the newest jobs only and pages over    *)
(* those it finds among them.  A reader asks for the pages of one listing  *)
(* in turn, or for the detail of a job.                                    *)
(***************************************************************************)
EXTENDS Integers, Sequences, FiniteSets

CONSTANTS
  Jobs,        \* job ids from 1, in the order they are created
  SessionOf,   \* the session of each job
  PhoneOf,     \* its recipient
  TextHits,    \* the jobs whose id, phone or text has the words searched for
  PageSize,    \* rows of a page, at most Cap
  Cap,         \* SENT_HISTORY_PAGE_SIZE_CAP, also the repository's bound
  MaxChanges,  \* bound on what other requests change
  None

VARIABLES
  job,         \* the jobs stored, by id: a state, or None
  grants,      \* sessions granted to the reader
  role,        \* the reader is logged in and has a role in the scope
  contacts,    \* contacts with a name, as pairs of session and phone
  changes,     \* changes made
  listing,     \* what the pages are asked with: search, state filter
  request,     \* the request being served
  pages,       \* the pages answered for the listing
  detail,      \* the detail answered last
  could,       \* history: jobs the reader could see at some time of the request
  stayed,      \* history: jobs in the list since its first page was read
  lost,        \* history: one left the list since then
  grown        \* history: one joined it, or a name changed

vars == <<job, grants, role, contacts, changes, listing, request, pages, detail, could, stayed, lost, grown>>

Sessions == {SessionOf[j] : j \in Jobs}
Phones == {PhoneOf[j] : j \in Jobs}
Listings == [search : BOOLEAN, state : {"scheduled", None}]

TypeOK ==
  /\ job \in [Jobs -> {"scheduled", "cancelled", None}]
  /\ grants \subseteq Sessions /\ role \in BOOLEAN /\ contacts \subseteq Sessions \X Phones
  /\ listing = None \/ listing \in Listings
  /\ request = None \/ request.step \in {"jobs", "total", "names", "answer"}
  /\ could \subseteq Jobs /\ stayed \subseteq Jobs /\ lost \in BOOLEAN /\ grown \in BOOLEAN

Init ==
  /\ job = [j \in Jobs |-> IF j = Cardinality(Jobs) THEN None ELSE "scheduled"]
  /\ grants \in {Sessions, {SessionOf[1]}} /\ role = TRUE /\ contacts = {} /\ changes = 0
  /\ listing = None /\ request = None /\ pages = <<>> /\ detail = None
  /\ could = {} /\ stayed = {} /\ lost = FALSE /\ grown = FALSE

(* the jobs of the scope joined with the reader's grants *)
Readable == {j \in Jobs : job[j] # None /\ SessionOf[j] \in grants}
Listed(l) == {j \in Readable : l.state \in {None, job[j]}}
Above(j, S) == {k \in S : k > j}
(* newest first: n rows after those skipped *)
Rows(S, from, n) == {j \in S : Cardinality(Above(j, S)) \in from..(from + n - 1)}
Offset(page) == (page - 1) * PageSize

(* resolveRecipientNames: the contact with the job's phone in its own session *)
NameOf(j) == IF <<SessionOf[j], PhoneOf[j]>> \in contacts THEN <<SessionOf[j], PhoneOf[j]>> ELSE None

-----------------------------------------------------------------------------
Reading == <<job, grants, role, contacts, changes>>

(* authenticate and the check of the scope: without a role the answer is 403 *)
Accepted(kind, page, j) ==
  /\ request = None /\ role
  /\ request' = [kind |-> kind, step |-> "jobs", page |-> page, job |-> j,
                 rows |-> {}, more |-> FALSE, total |-> 0, names |-> <<>>, quiet |-> TRUE]
  /\ could' = Readable

AskFirst(l) ==
  /\ Accepted("list", 1, None)
  /\ listing' = l /\ pages' = <<>> /\ stayed' = {} /\ lost' = FALSE /\ grown' = FALSE
  /\ UNCHANGED <<Reading, detail>>

AskNext ==
  /\ pages # <<>> /\ pages[Len(pages)].more
  /\ Accepted("list", Len(pages) + 1, None)
  /\ UNCHANGED <<Reading, listing, pages, detail, stayed, lost, grown>>

AskDetail(j) ==
  /\ Accepted("detail", 1, j) /\ detail' = None
  /\ UNCHANGED <<Reading, listing, pages, stayed, lost, grown>>

Step(from, to, fields) ==
  /\ request # None /\ request.step = from
  /\ request' = [fields EXCEPT !.step = to]
  /\ UNCHANGED <<Reading, listing, pages, detail, could>>

(* listForUser: one row more than the limit tells whether there are more, and *)
(* a search's limit of 200 is cut to the repository's.  The attempts of the   *)
(* rows, read next, add nothing that is told apart here.                      *)
ReadJobs ==
  LET limit == IF listing.search THEN Cap ELSE PageSize
      from == IF listing.search THEN 0 ELSE Offset(request.page)
      found == Listed(listing) IN
  /\ request # None /\ request.kind = "list"
  /\ Step("jobs", "total", [request EXCEPT !.rows = Rows(found, from, limit), !.more = Cardinality(found) > from + limit])
  /\ stayed' = IF pages = <<>> THEN Listed(listing) ELSE stayed
  /\ lost' = IF pages = <<>> THEN FALSE ELSE lost
  /\ grown' = IF pages = <<>> THEN FALSE ELSE grown

(* the count of the same condition *)
ReadTotal ==
  /\ request # None
  /\ Step("total", "names", [request EXCEPT !.total = Cardinality(Listed(listing))])
  /\ UNCHANGED <<stayed, lost, grown>>

(* findForUser *)
ReadJob ==
  /\ request # None /\ request.kind = "detail"
  /\ IF request.job \in Readable
     THEN Step("jobs", "names", [request EXCEPT !.rows = {request.job}])
     ELSE /\ request.step = "jobs" /\ request' = None
          /\ UNCHANGED <<Reading, listing, pages, detail, could>>
  /\ UNCHANGED <<stayed, lost, grown>>

ReadNames ==
  /\ request # None
  /\ Step("names", "answer", [request EXCEPT !.names = [j \in request.rows |-> NameOf(j)]])
  /\ UNCHANGED <<stayed, lost, grown>>

(* What is found by a search: in the job or in the recipient's name. *)
Found == {j \in request.rows : j \in TextHits \/ request.names[j] # None}

AnswerList ==
  LET from == Offset(request.page) IN
  /\ request # None /\ request.step = "answer" /\ request.kind = "list"
  /\ pages' = Append(pages, IF listing.search
       THEN [items |-> Rows(Found, from, PageSize), more |-> Cardinality(Found) > from + PageSize, total |-> Cardinality(Found)]
       ELSE [items |-> request.rows, more |-> request.more, total |-> request.total])
  /\ request' = None
  /\ UNCHANGED <<Reading, listing, detail, could, stayed, lost, grown>>

AnswerDetail ==
  /\ request # None /\ request.step = "answer" /\ request.kind = "detail"
  /\ detail' = [job |-> request.job, name |-> request.names[request.job]] /\ request' = None
  /\ UNCHANGED <<Reading, listing, pages, could, stayed, lost, grown>>

-----------------------------------------------------------------------------
(* What the other requests do meanwhile. *)
ListedNow == IF listing = None THEN {} ELSE Listed(listing)
Watched(named) ==
  /\ UNCHANGED <<listing, pages, detail>>
  /\ changes < MaxChanges /\ changes' = changes + 1
  /\ could' = could \cup Readable'
  /\ stayed' = stayed \cap ListedNow'
  /\ lost' = (lost \/ ListedNow \ ListedNow' # {})
  /\ grown' = (grown \/ named \/ ListedNow' \ ListedNow # {})
  /\ request' = IF request = None THEN None ELSE [request EXCEPT !.quiet = FALSE]

(* A job is sent, changed, or removed: ids are not used again. *)
Sent == job[Cardinality(Jobs)] = None /\ changes = 0
         /\ job' = [job EXCEPT ![Cardinality(Jobs)] = "scheduled"]
Cancelled(j) == job[j] = "scheduled" /\ job' = [job EXCEPT ![j] = "cancelled"]
Removed(j) == job[j] # None /\ job' = [job EXCEPT ![j] = None]
SessionRemoved(s) ==
  /\ job' = [j \in Jobs |-> IF SessionOf[j] = s THEN None ELSE job[j]]
  /\ contacts' = {c \in contacts : c[1] # s} /\ grants' = grants \ {s}
Rename(c) == contacts' = IF c \in contacts THEN contacts \ {c} ELSE contacts \cup {c}
GrantMade(s) == grants' = grants \cup {s}
(* the reader logs out or is disabled *)
LoggedOut == role /\ role' = FALSE

Change ==
  \/ /\ Sent \/ \E j \in Jobs : Cancelled(j) \/ Removed(j)
     /\ UNCHANGED <<grants, role, contacts>> /\ Watched(FALSE)
  \/ \E s \in Sessions \ grants :
       GrantMade(s) /\ UNCHANGED <<job, role, contacts>> /\ Watched(FALSE)
  \/ \E s \in grants : SessionRemoved(s) /\ UNCHANGED role /\ Watched(FALSE)
  \/ \E c \in Sessions \X Phones : Rename(c) /\ UNCHANGED <<job, grants, role>> /\ Watched(TRUE)
  \/ LoggedOut /\ UNCHANGED <<job, grants, contacts>> /\ Watched(FALSE)

Next ==
  \/ \E l \in Listings : AskFirst(l)
  \/ AskNext
  \/ \E j \in Jobs : AskDetail(j)
  \/ ReadJobs \/ ReadTotal \/ ReadJob \/ ReadNames \/ AnswerList \/ AnswerDetail
  \/ Change

Spec == Init /\ [][Next]_vars

-----------------------------------------------------------------------------
(* Only jobs the reader could see while the request was served are shown,    *)
(* and each with the name of its own recipient in its own session (the join  *)
(* with the grants, resolveRecipientNames).                                  *)
OnlyOwn ==
  request # None =>
    /\ request.rows \subseteq could
    /\ \A j \in DOMAIN request.names : request.names[j] \in {None, <<SessionOf[j], PhoneOf[j]>>}

(* Unless something changed meanwhile, the three statements agree: there are *)
(* more rows just when the total says so (listForUser).                      *)
StatementsAgree ==
  request # None /\ request.kind = "list" /\ request.step \in {"names", "answer"}
  /\ request.quiet /\ ~listing.search =>
    request.more = (Offset(request.page) + Cardinality(request.rows) < request.total)

Seen == UNION {pages[p].items : p \in 1..Len(pages)}
ReadToEnd == pages # <<>> /\ ~pages[Len(pages)].more

(* A reader who goes on to the last page has seen every job that was listed  *)
(* all the time, unless one left the list between pages and moved the        *)
(* offsets; a search misses what is not among the newest jobs (the offset    *)
(* and the limits of registerSentHistoryRoutes).                             *)
NothingSkipped ==
  ReadToEnd /\ ~lost =>
    IF ~listing.search THEN stayed \subseteq Seen
    ELSE ~grown =>
           \A j \in Rows(stayed, 0, Cap) : j \in TextHits \/ NameOf(j) # None => j \in Seen

(* A job is shown on two pages only if one joined the list between them.     *)
RepeatedOnlyAfterGrowth ==
  \A p, q \in 1..Len(pages) :
    p < q /\ pages[p].items \cap pages[q].items # {} => grown

SentHistoryInv == TypeOK /\ OnlyOwn /\ StatementsAgree /\ NothingSkipped /\ RepeatedOnlyAfterGrowth
=============================================================================
