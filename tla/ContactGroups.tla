----------------------------- MODULE ContactGroups -----------------------------
(***************************************************************************)
(* Contact groups and their members (db/repositories/contact-groups.ts and *)
(* its routes), with the campaigns and contacts they hang on.  No operation*)
(* is a transaction: the grant is read in one statement and used in later  *)
(* ones.  The database itself keeps the foreign keys and the unique keys.  *)
(***************************************************************************)
EXTENDS FiniteSets

CONSTANTS
  Groups,     \* ids a group may get
  Titles,     \* names of groups
  Users,      \* principals; the scope is one
  Sessions,   \* sessions of the scope
  Contacts,   \* ids of contacts
  SessionOf,  \* the session of each contact
  PhoneOf,    \* the phone of each contact
  Phones,     \* phones of members entered by hand
  Requests,   \* requests that may be in progress together
  None

VARIABLES
  group,      \* contact_groups: name and created_by, or None
  member,     \* contact_group_members: pairs of a group and a target
  contacts,   \* rows of contacts
  used,       \* groups a campaign refers to
  request,    \* the local variables of each request
  joined,     \* history: members put in and not taken out one by one
  emptied     \* history: groups whose delete has got halfway

vars == <<group, member, contacts, used, request, joined, emptied>>

(* one_target_check: a member is a contact or a phone *)
Targets == Contacts \cup Phones
Idle == [step |-> "idle", by |-> None, group |-> None, target |-> None]

TypeOK ==
  /\ group \in [Groups -> [name : Titles, by : Users] \cup {None}]
  /\ member \subseteq Groups \X Targets
  /\ contacts \subseteq Contacts /\ used \subseteq Groups /\ emptied \subseteq Groups
  /\ joined \subseteq Groups \X Targets
  /\ request \in [Requests -> [step : {"idle", "contact", "insert", "remove", "empty", "drop"},
                               by : Users \cup {None}, group : Groups \cup {None},
                               target : Targets \cup {None}]]

Init ==
  /\ group = [g \in Groups |-> None]
  /\ member = {} /\ contacts = Contacts /\ used = {} /\ joined = {} /\ emptied = {}
  /\ request = [r \in Requests |-> Idle]

AtStep(r, s) == request[r].step = s
Become(r, rec) == request' = [request EXCEPT ![r] = rec]
GoTo(r, s) == request' = [request EXCEPT ![r].step = s]
MembersOf(g) == {m \in member : m[1] = g}

Stored == {g \in Groups : group[g] # None}

(* hasGrant: the group exists and the user created it *)
HasGrant(u, g) == group[g] # None /\ group[g].by = u

(* hasMember, asked when a reaction arrives at a session: by the phone of a  *)
(* contact of that session, or a phone entered by hand                       *)
HasMember(g, s, phone) ==
  \/ \E c \in contacts : SessionOf[c] = s /\ PhoneOf[c] = phone /\ <<g, c>> \in member
  \/ <<g, phone>> \in member

-----------------------------------------------------------------------------
(* create: the name is unique in the scope, whoever asks; a random id is new *)
Create(u, g, title) ==
  /\ group[g] = None /\ \A r \in Requests : request[r].group # g
  /\ \A h \in Stored : group[h].name # title
  /\ group' = [group EXCEPT ![g] = [name |-> title, by |-> u]]
  /\ UNCHANGED <<member, contacts, used, request, joined, emptied>>

(* addMember and removeMember and delete first read the grant. *)
Begin(r, u, g, target, step) ==
  /\ AtStep(r, "idle") /\ HasGrant(u, g)
  /\ Become(r, [step |-> step, by |-> u, group |-> g, target |-> target])
  /\ UNCHANGED <<group, member, contacts, used, joined, emptied>>

AddMember(r, u, g, target) == Begin(r, u, g, target, IF target \in Contacts THEN "contact" ELSE "insert")
RemoveMember(r, u, g, target) == <<g, target>> \in member /\ Begin(r, u, g, target, "remove")
Delete(r, u, g) == Begin(r, u, g, None, "empty")

(* The contact may be of any session of the scope. *)
FindContact(r) ==
  /\ AtStep(r, "contact")
  /\ IF request[r].target \in contacts THEN GoTo(r, "insert") ELSE Become(r, Idle)
  /\ UNCHANGED <<group, member, contacts, used, joined, emptied>>

(* The insert fails when the group or the contact went since, or is a member. *)
InsertMember(r) ==
  LET q == request[r] IN
  /\ AtStep(r, "insert")
  /\ member' = IF group[q.group] # None /\ (q.target \in Contacts => q.target \in contacts)
               THEN member \cup {<<q.group, q.target>>} ELSE member
  /\ joined' = joined \cup (member' \ member)
  /\ Become(r, Idle)
  /\ UNCHANGED <<group, contacts, used, emptied>>

(* Mutant: every member of the group goes. *)
MutDropMember(r) ==
  /\ AtStep(r, "remove")
  /\ member' = member \ MembersOf(request[r].group)
  /\ joined' = joined \ {<<request[r].group, request[r].target>>}
  /\ Become(r, Idle)
  /\ UNCHANGED <<group, contacts, used, emptied>>

DropMember(r) ==
  /\ AtStep(r, "remove")
  /\ member' = member \ {<<request[r].group, request[r].target>>}
  /\ joined' = joined \ {<<request[r].group, request[r].target>>}
  /\ Become(r, Idle)
  /\ UNCHANGED <<group, contacts, used, emptied>>

(* delete: every member first, ... *)
Empty(r) ==
  LET g == request[r].group IN
  /\ AtStep(r, "empty")
  /\ member' = member \ MembersOf(g)
  /\ emptied' = IF MembersOf(g) # {} THEN emptied \cup {g} ELSE emptied
  /\ GoTo(r, "drop")
  /\ UNCHANGED <<group, contacts, used, joined>>

(* ... then the group, with the members that joined since (cascade), unless *)
(* a campaign refers to it: then the statement fails.                        *)
Drop(r) ==
  LET g == request[r].group IN
  /\ AtStep(r, "drop")
  /\ group' = IF HasGrant(request[r].by, g) /\ g \notin used THEN [group EXCEPT ![g] = None] ELSE group
  /\ member' = IF group'[g] = None THEN member \ MembersOf(g) ELSE member
  /\ joined' = IF group'[g] = None THEN {m \in joined : m[1] # g} ELSE joined
  /\ emptied' = IF group'[g] = None THEN emptied \ {g} ELSE emptied
  /\ Become(r, Idle)
  /\ UNCHANGED <<contacts, used>>

(* A statement fails, or the process stops. *)
Throw(r) ==
  /\ ~AtStep(r, "idle")
  /\ Become(r, Idle)
  /\ UNCHANGED <<group, member, contacts, used, joined, emptied>>

(* A campaign is made by the group's creator, or removed.                    *)
UseGroup(u, g) ==
  /\ HasGrant(u, g) /\ g \notin used
  /\ used' = used \cup {g}
  /\ UNCHANGED <<group, member, contacts, request, joined, emptied>>
Release(g) == used' = used \ {g} /\ UNCHANGED <<group, member, contacts, request, joined, emptied>>

(* deleteContacts of a purge: the memberships go with the contact (cascade). *)
ContactGone(c) ==
  /\ c \in contacts
  /\ contacts' = contacts \ {c}
  /\ member' = {m \in member : m[2] # c}
  /\ joined' = {m \in joined : m[2] # c}
  /\ UNCHANGED <<group, used, request, emptied>>

(* contacts.save: a lookup from before the purge inserts it with its id.     *)
ContactSaved(c) ==
  /\ contacts' = contacts \cup {c}
  /\ UNCHANGED <<group, member, used, request, joined, emptied>>

Next ==
  \/ \E u \in Users, g \in Groups :
       \/ \E title \in Titles : Create(u, g, title)
       \/ UseGroup(u, g)
       \/ \E r \in Requests :
            \/ Delete(r, u, g)
            \/ \E target \in Targets : AddMember(r, u, g, target) \/ RemoveMember(r, u, g, target)
  \/ \E r \in Requests :
       FindContact(r) \/ InsertMember(r) \/ DropMember(r) \/ Empty(r) \/ Drop(r) \/ Throw(r)
  \/ \E g \in used : Release(g)
  \/ \E c \in Contacts : ContactGone(c) \/ ContactSaved(c)

Spec == Init /\ [][Next]_vars

-----------------------------------------------------------------------------
(* Members and campaigns have their group, and a member that is a contact    *)
(* has its contact, however a delete, an insert and a campaign interleave    *)
(* (delete of the repository, and the cascades of its tables).               *)
NothingDangles ==
  /\ \A m \in member : m[1] \in Stored /\ (m[2] \in Contacts => m[2] \in contacts)
  /\ used \subseteq Stored

NamesUnique ==
  \A g, h \in Stored : g # h => group[g].name # group[h].name

(* A group someone else's request was let into has not changed hands: what a *)
(* request does after its check, it does to a group its user created, or to  *)
(* none (requireGrant, then a statement without the user).                   *)
ActsOnOwnGroup ==
  \A r \in Requests :
    LET q == request[r] IN q.step # "idle" => group[q.group] = None \/ HasGrant(q.by, q.group)

(* A group that is still there has every member that was put in and not      *)
(* taken out, for the reactions that ask hasMember: a contact for those of   *)
(* its own session, a phone for all.  One whose delete emptied it and then   *)
(* was refused or interrupted has lost them (the two statements of delete).  *)
MembersStay ==
  \A m \in joined : m[1] \in Stored \ emptied =>
    IF m[2] \in Contacts THEN HasMember(m[1], SessionOf[m[2]], PhoneOf[m[2]])
    ELSE \A s \in Sessions : HasMember(m[1], s, m[2])

(* What makes these inductive: a request in progress is about a group and, in *)
(* its later steps, a target; and what joined a group that is there is in it. *)
RequestsSound ==
  \A r \in Requests :
    /\ request[r].step # "idle" => request[r].group \in Groups
    /\ request[r].step \in {"contact", "insert", "remove"} => request[r].target \in Targets

JoinedAreMembers ==
  \A m \in joined : m[1] \in Stored /\ (m[1] \notin emptied => m \in member)

GroupsInv ==
  /\ TypeOK /\ RequestsSound /\ JoinedAreMembers
  /\ NothingDangles /\ NamesUnique /\ ActsOnOwnGroup /\ MembersStay
=============================================================================
