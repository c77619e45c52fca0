------------------------------ MODULE ReadProofs ------------------------------
(***************************************************************************)
(* Proofs about what is read of several sources, for every value of the    *)
(* constants: lists of chats, the history of messages sent, the time of a  *)
(* schedule and the figures of a scope.  A part is an instance with        *)
(* variables and constants that carry its letter.                          *)
(***************************************************************************)
EXTENDS Integers, Sequences, FiniteSets, FiniteSetTheorems, WellFoundedInduction, TLAPS

CONSTANTS
  None,
  HPositions, HBatch, HLids, HPrefix,
  EJobs, ESessionOf, EPhoneOf, ETextHits, EPageSize, ECap, EMaxChanges,
  YZones, YInstants, YDay, YGrain,
  ISessions, IJobs, ISessionOf, IEnvelopes, IMaxTime, IMaxAttempts, IMaxChanges,
  IMaxWindow, IFroms, ITos

VARIABLES
  hChat, hStep, hInFlight, hQueue, hPhones, hNames, hAsked, hView, hText,
  eJob, eGrants, eRole, eContacts, eChanges, eListing, eRequest, ePages, eDetail, eCould,
  eStayed, eLost, eGrown,
  yJob, yShown, yForm, yRequest,
  iNow, iStored, iGranted, iJob, iAttempts, iEvents, iRequest

H == INSTANCE Chats WITH
  chat <- hChat, step <- hStep, inFlight <- hInFlight, queue <- hQueue, phones <- hPhones,
  names <- hNames, asked <- hAsked, view <- hView, text <- hText, Positions <- HPositions,
  Batch <- HBatch, Lids <- HLids, Prefix <- HPrefix

E == INSTANCE SentHistory WITH
  job <- eJob, grants <- eGrants, role <- eRole, contacts <- eContacts, changes <-
  eChanges, listing <- eListing, request <- eRequest, pages <- ePages, detail <- eDetail,
  could <- eCould, stayed <- eStayed, lost <- eLost, grown <- eGrown, Jobs <- EJobs,
  SessionOf <- ESessionOf, PhoneOf <- EPhoneOf, TextHits <- ETextHits, PageSize <-
  EPageSize, Cap <- ECap, MaxChanges <- EMaxChanges

Y == INSTANCE ScheduleTime WITH
  job <- yJob, shown <- yShown, form <- yForm, request <- yRequest, Zones <- YZones,
  Instants <- YInstants, Day <- YDay, Grain <- YGrain

I == INSTANCE Analytics WITH
  now <- iNow, stored <- iStored, granted <- iGranted, job <- iJob, attempts <- iAttempts,
  events <- iEvents, request <- iRequest, Sessions <- ISessions, Jobs <- IJobs, SessionOf
  <- ISessionOf, Envelopes <- IEnvelopes, MaxTime <- IMaxTime, MaxAttempts <-
  IMaxAttempts, MaxChanges <- IMaxChanges, MaxWindow <- IMaxWindow, Froms <- IFroms, Tos
  <- ITos

-----------------------------------------------------------------------------
(* Chats *)

(* The cardinality is the library's. *)
LEMMA HCardinality == \A set : H!Cardinality(set) = Cardinality(set)
BY DEF H!Cardinality, Cardinality

ChatsAssumption ==
  /\ HPositions \subseteq Nat /\ IsFiniteSet(HPositions) /\ HBatch \in Nat /\ IsFiniteSet(HLids)
  /\ None \notin {"own", "theirs", "lid"}
  /\ \A i \in HPositions : <<"found", i>> # None /\ <<"raw", i>> # None

Chat == [HPositions -> [kind : H!Kinds, name : H!RawNames]]
Wanted(i) == hChat[i].kind # "group" /\ hNames[i] = None /\ H!IsPhoneLikeName(hChat[i].name)

ChatsTyped ==
  /\ hStep \in {"start", "lids", "names", "done"}
  /\ hStep # "start" => hChat \in Chat
  /\ hQueue \subseteq HPositions /\ hInFlight \subseteq HPositions \ hQueue
  /\ hPhones \in [HPositions -> {"theirs", None}]
  /\ hNames \in [HPositions -> {None} \cup {<<"found", i>> : i \in HPositions}]
  /\ \A i \in HPositions : hNames[i] \in {None, <<"found", i>>}
  /\ hAsked \in [HPositions -> Nat] /\ IsFiniteSet(hInFlight) /\ Cardinality(hInFlight) <= HBatch

(* Nothing is asked before the chats are listed; then the LIDs, each once;   *)
(* then again the chats that want a name, each once more.                    *)
NothingYet ==
  hStep = "start" => hChat = None /\ hQueue = {} /\ hInFlight = {} /\ \A i \in HPositions : hAsked[i] = 0 /\ hPhones[i] = None
LidsAsked ==
  hStep = "lids" =>
    /\ \A i \in hQueue \cup hInFlight : hChat[i].kind = "lid"
    /\ \A i \in HPositions : hAsked[i] = IF hChat[i].kind = "lid" /\ i \notin hQueue THEN 1 ELSE 0
NamesAsked ==
  hStep \in {"names", "done"} =>
    \A i \in HPositions :
      /\ hAsked[i] <= (IF hChat[i].kind = "lid" THEN 1 ELSE 0)
                      + (IF hChat[i].kind # "group" /\ i \notin hQueue THEN 1 ELSE 0)
      /\ i \in hQueue => hChat[i].kind # "group"
      /\ Wanted(i) => i \in hQueue \/ hAsked[i] > 0
PhonesOfLids == hStep # "start" => \A i \in HPositions : hPhones[i] # None => hChat[i].kind = "lid"
Shown ==
  /\ hStep = "done" => hQueue = {} /\ hInFlight = {}
  /\ hView # None => hStep = "done" /\ hView = [i \in HPositions |-> H!ChatView(i)]

ChatsIInv == ChatsTyped /\ NothingYet /\ LidsAsked /\ NamesAsked /\ PhonesOfLids /\ Shown /\ H!MentionsTrue

-----------------------------------------------------------------------------
(* A batch is no larger than it may be: each of its positions has as many    *)
(* before it as no other one has.                                            *)
LEMMA BatchBounded ==
  ASSUME ChatsAssumption, NEW S, S \subseteq HPositions
  PROVE  H!FirstOf(S) \subseteq S /\ IsFiniteSet(H!FirstOf(S)) /\ Cardinality(H!FirstOf(S)) <= HBatch
<1> DEFINE F == H!FirstOf(S)
           Before(i) == {j \in S : j < i}
           rank == [i \in F |-> Cardinality(Before(i))]
<1>1. F \subseteq S /\ S \subseteq Nat /\ IsFiniteSet(S) /\ IsFiniteSet(F)
  <2>1. F \subseteq S
    BY HCardinality DEF H!FirstOf
  <2> QED
    BY <2>1, FS_Subset DEF ChatsAssumption
<1>2. \A i \in S : IsFiniteSet(Before(i)) /\ Cardinality(Before(i)) \in Nat
  <2>1. \A i \in S : Before(i) \subseteq S
    OBVIOUS
  <2> QED
    BY <2>1, <1>1, FS_Subset, FS_CardinalityType
<1>3. \A i \in F : rank[i] \in 0..(HBatch - 1)
  BY <1>1, <1>2, HCardinality DEF H!FirstOf, ChatsAssumption
<1>4. ASSUME NEW i \in F, NEW j \in F, i < j
      PROVE  rank[i] < rank[j]
  <2>0. i \in S /\ j \in S /\ \A k \in S : k \in Nat
    BY <1>1
  <2>1. Before(i) \subseteq Before(j) /\ i \in Before(j) /\ i \notin Before(i)
    <3> HIDE DEF F
    <3> QED
      BY <2>0, <1>4
  <2>2. Cardinality(Before(i)) <= Cardinality(Before(j)) /\ Cardinality(Before(i)) # Cardinality(Before(j))
    BY <2>0, <2>1, <1>2, FS_Subset
  <2>3. Cardinality(Before(i)) \in Nat /\ Cardinality(Before(j)) \in Nat
    BY <2>0, <1>2
  <2>4. rank[i] = Cardinality(Before(i)) /\ rank[j] = Cardinality(Before(j))
    BY <1>4
  <2> HIDE DEF F, rank, Before
  <2> QED
    BY <2>2, <2>3, <2>4
<1>5. rank \in Injection(F, 0..(HBatch - 1))
  <2>1. \A i, j \in F : rank[i] = rank[j] => i = j
    <3> HIDE DEF F, rank
    <3>1. \A i, j \in F : i \in Nat /\ j \in Nat /\ rank[i] \in Int /\ rank[j] \in Int
      BY <1>1, <1>3
    <3> QED
      BY <3>1, <1>4
  <2>2. rank \in [F -> 0..(HBatch - 1)]
    BY <1>3
  <2> QED
    BY <2>1, <2>2 DEF Injection, IsInjective
<1>6. IsFiniteSet(0..(HBatch - 1)) /\ Cardinality(0..(HBatch - 1)) = HBatch
  BY FS_Interval DEF ChatsAssumption
<1>7. Cardinality(F) <= Cardinality(0..(HBatch - 1))
  BY <1>5, <1>6, FS_Injection
<1> QED
  BY <1>1, <1>6, <1>7

LEMMA LeastOf ==
  ASSUME NEW S, S \subseteq Nat, S # {}
  PROVE  \E x \in S : \A y \in S : x <= y
<1>1. PICK R : R = OpToRel(<, Nat)
  OBVIOUS
<1>2. IsWellFoundedOn(R, Nat)
  BY <1>1, NatLessThanWellFounded
<1>3. PICK x \in S : \A y \in S : <<y, x>> \notin R
  BY <1>2, WFMin
<1>4. \A a, b \in Nat : a < b => <<a, b>> \in R
  BY <1>1 DEF OpToRel
<1>5. \A y \in S : ~(y < x) /\ x \in Nat /\ y \in Nat
  BY <1>3, <1>4
<1> QED
  BY <1>5

(* What replacing the mentions of a page does to one: the first LID that is  *)
(* known and fits leaves its label, and no later one changes it.             *)
Fits(l, m, known) == m \in known /\ (m = l \/ <<m, l>> \in HPrefix)
Fit(l, order, known, n) == {k \in 1..n : Fits(l, order[k], known)}
After(l, order, known, n) ==
  LET fit == Fit(l, order, known, n) IN
  IF fit = {} THEN <<"raw", l>> ELSE <<"label", order[CHOOSE k \in fit : \A i \in fit : k <= i]>>

LEMMA OneMore ==
  ASSUME NEW l, NEW order, NEW known, NEW n \in Nat, n > 0
  PROVE  After(l, order, known, n) = IF order[n] \in known THEN H!ReplaceOne(After(l, order, known, n - 1), order[n])
                                     ELSE After(l, order, known, n - 1)
<1> DEFINE old == Fit(l, order, known, n - 1)
           new == Fit(l, order, known, n)
<1>1. new = old \cup (IF Fits(l, order[n], known) THEN {n} ELSE {})
  <2>1. 1..n = 1..(n - 1) \cup {n}
    OBVIOUS
  <2> QED
    BY <2>1 DEF Fit
<1>2. old \subseteq 1..(n - 1)
  BY DEF Fit
<1>3. CASE ~Fits(l, order[n], known)
  <2>1. After(l, order, known, n) = After(l, order, known, n - 1)
    BY <1>1, <1>3 DEF After
  <2>2. order[n] \in known /\ old = {} => H!ReplaceOne(<<"raw", l>>, order[n]) = <<"raw", l>>
    BY <1>3 DEF Fits, H!ReplaceOne
  <2>3. \A x : H!ReplaceOne(<<"label", x>>, order[n]) = <<"label", x>>
    BY DEF H!ReplaceOne
  <2> QED
    BY <2>1, <2>2, <2>3 DEF After
<1>4. CASE Fits(l, order[n], known) /\ old = {}
  <2>1. new = {n}
    BY <1>1, <1>4
  <2>2. (CHOOSE k \in {n} : \A i \in {n} : k <= i) = n
    OBVIOUS
  <2>3. After(l, order, known, n) = <<"label", order[n]>>
    BY <2>1, <2>2 DEF After
  <2>4. H!ReplaceOne(<<"raw", l>>, order[n]) = <<"label", order[n]>>
    BY <1>4 DEF Fits, H!ReplaceOne
  <2> QED
    BY <2>3, <2>4, <1>4 DEF After, Fits
<1>5. CASE Fits(l, order[n], known) /\ old # {}
  <2> DEFINE first == CHOOSE k \in old : \A i \in old : k <= i
  <2>1. first \in old /\ \A i \in old : first <= i
    <3>1. \E k \in old : \A i \in old : k <= i
      BY <1>2, <1>5, LeastOf
    <3> QED
      BY <3>1
  <2>2. new = old \cup {n}
    BY <1>1, <1>5
  <2>3. \A k \in new : (\A i \in new : k <= i) <=> k = first
    <3> HIDE DEF first, old, new
    <3> QED
      BY <2>1, <2>2, <1>2
  <2>4. (CHOOSE k \in new : \A i \in new : k <= i) = first
    <3> HIDE DEF first, old, new
    <3> QED
      BY <2>1, <2>2, <2>3
  <2>5. After(l, order, known, n) = <<"label", order[first]>> /\ After(l, order, known, n - 1) = <<"label", order[first]>>
    BY <2>2, <2>4, <1>5 DEF After
  <2>6. \A x : H!ReplaceOne(<<"label", x>>, order[n]) = <<"label", x>>
    BY DEF H!ReplaceOne
  <2> QED
    BY <2>5, <2>6
<1> QED
  BY <1>3, <1>4, <1>5

(* The recursion has one solution, for any length.                           *)
LEMMA ReplacedIs ==
  ASSUME NEW l, NEW order, NEW known, Len(order) \in Nat
  PROVE  H!Replaced(l, order, known) = After(l, order, known, Len(order))
<1> DEFINE D == 0..Len(order)
           Eq(f) == f = [k \in D |-> IF k = 0 THEN <<"raw", l>>
                            ELSE IF order[k] \in known THEN H!ReplaceOne(f[k - 1], order[k]) ELSE f[k - 1]]
           g == [k \in D |-> After(l, order, known, k)]
           after[k \in 0..Len(order)] ==
             IF k = 0 THEN <<"raw", l>>
             ELSE IF order[k] \in known THEN H!ReplaceOne(after[k - 1], order[k]) ELSE after[k - 1]
<1>1. Eq(g)
  <2>1. After(l, order, known, 0) = <<"raw", l>>
    BY DEF After, Fit
  <2>2. ASSUME NEW k \in D, k # 0
        PROVE  g[k] = IF order[k] \in known THEN H!ReplaceOne(g[k - 1], order[k]) ELSE g[k - 1]
    <3>1. k \in Nat /\ k > 0 /\ k - 1 \in D
      BY <2>2
    <3> QED
      BY <3>1, OneMore
  <2> QED
    BY <2>1, <2>2
<1>2. ASSUME NEW f, Eq(f)
      PROVE  f = g
  <2> DEFINE bad == {k \in D : f[k] # g[k]}
  <2>1. ASSUME bad # {}
        PROVE  FALSE
    <3>0. bad \subseteq Nat
      OBVIOUS
    <3>1. PICK x \in bad : \A y \in bad : x <= y
      <4> HIDE DEF bad
      <4> QED
        BY <2>1, <3>0, LeastOf
    <3>2. x \in D /\ f[x] # g[x]
      OBVIOUS
    <3>3. CASE x = 0
      BY <3>2, <3>3, <1>1, <1>2
    <3>4. CASE x # 0
      <4>1. x - 1 \in D /\ ~(x <= x - 1)
        BY <3>2, <3>4
      <4>2. f[x - 1] = g[x - 1]
        BY <4>1, <3>1
      <4> QED
        BY <3>2, <3>4, <4>2, <1>1, <1>2
    <3> QED
      BY <3>3, <3>4
  <2>2. \A k \in D : f[k] = g[k]
    BY <2>1
  <2> QED
    BY <2>2, <1>2
<1>3. after = CHOOSE f : Eq(f)
  BY DEF after
<1>4. after = g
  BY <1>1, <1>2, <1>3
<1>5. H!Replaced(l, order, known) = after[Len(order)]
  BY DEF H!Replaced
<1>6. g[Len(order)] = After(l, order, known, Len(order))
  OBVIOUS
<1> HIDE DEF after, g
<1> QED
  BY <1>4, <1>5, <1>6

-----------------------------------------------------------------------------
LEMMA InitChats ==
  ASSUME ChatsAssumption
  PROVE  H!Init => ChatsIInv
<1> SUFFICES ASSUME H!Init PROVE ChatsIInv
  OBVIOUS
<1>1. IsFiniteSet({}) /\ Cardinality({}) = 0
  BY FS_EmptySet
<1> QED
  BY <1>1 DEF ChatsAssumption, H!Init, ChatsIInv, ChatsTyped, NothingYet, LidsAsked, NamesAsked, PhonesOfLids, Shown, H!MentionsTrue

(* What a batch leaves behind, whoever sends it.                             *)
LEMMA Batched ==
  ASSUME ChatsAssumption, ChatsIInv, NEW S, S \subseteq HPositions, H!SendBatch(S)
  PROVE  /\ hQueue' \subseteq S /\ hInFlight' \subseteq S \ hQueue' /\ hQueue' \cup hInFlight' = S
         /\ IsFiniteSet(hInFlight') /\ Cardinality(hInFlight') <= HBatch
         /\ hAsked' \in [HPositions -> Nat]
         /\ \A i \in HPositions : hAsked'[i] = IF i \in S /\ i \notin hQueue' THEN hAsked[i] + 1 ELSE hAsked[i]
<1>1. H!FirstOf(S) \subseteq S /\ IsFiniteSet(H!FirstOf(S)) /\ Cardinality(H!FirstOf(S)) <= HBatch
  BY BatchBounded
<1> QED
  BY <1>1 DEF H!SendBatch, ChatsIInv, ChatsTyped

LEMMA KeepsStart ==
  ASSUME ChatsAssumption, ChatsIInv, NEW listed \in Chat, H!Start(listed)
  PROVE  ChatsIInv'
<1> DEFINE S == {i \in HPositions : listed[i].kind = "lid"}
<1>1. S \subseteq HPositions /\ H!SendBatch(S)
  BY DEF H!Start
<1>2. /\ hQueue' \subseteq S /\ hInFlight' \subseteq S \ hQueue' /\ hQueue' \cup hInFlight' = S
      /\ IsFiniteSet(hInFlight') /\ Cardinality(hInFlight') <= HBatch
      /\ hAsked' \in [HPositions -> Nat]
      /\ \A i \in HPositions : hAsked'[i] = IF i \in S /\ i \notin hQueue' THEN hAsked[i] + 1 ELSE hAsked[i]
  <2> HIDE DEF S
  <2> QED
    BY <1>1, Batched
<1>3. /\ hStep = "start" /\ hStep' = "lids" /\ hChat' = listed /\ hPhones' = hPhones /\ hNames' = hNames /\ hView' = hView /\ hText' = hText
  BY DEF H!Start
<1>4. ChatsTyped'
  BY <1>2, <1>3 DEF ChatsIInv, ChatsTyped
<1>5. LidsAsked'
  BY <1>2, <1>3 DEF ChatsIInv, LidsAsked, NothingYet
<1>6. PhonesOfLids'
  BY <1>3 DEF ChatsIInv, NothingYet, PhonesOfLids
<1>7. Shown' /\ NothingYet' /\ NamesAsked' /\ H!MentionsTrue'
  BY <1>3 DEF ChatsIInv, NothingYet, Shown, NamesAsked, H!MentionsTrue
<1> QED
  BY <1>4, <1>5, <1>6, <1>7 DEF ChatsIInv

LEMMA KeepsNextBatch ==
  ASSUME ChatsAssumption, ChatsIInv, H!NextBatch
  PROVE  ChatsIInv'
<1>1. hQueue \subseteq HPositions /\ H!SendBatch(hQueue)
  BY DEF H!NextBatch, ChatsIInv, ChatsTyped
<1>2. /\ hQueue' \subseteq hQueue /\ hInFlight' \subseteq hQueue \ hQueue' /\ hQueue' \cup hInFlight' = hQueue
      /\ IsFiniteSet(hInFlight') /\ Cardinality(hInFlight') <= HBatch
      /\ hAsked' \in [HPositions -> Nat]
      /\ \A i \in HPositions : hAsked'[i] = IF i \in hQueue /\ i \notin hQueue' THEN hAsked[i] + 1 ELSE hAsked[i]
  BY <1>1, Batched
<1>3. /\ hStep \in {"lids", "names"} /\ UNCHANGED <<hChat, hStep, hPhones, hNames, hView, hText>>
  BY DEF H!NextBatch
<1>4. ChatsTyped'
  BY <1>2, <1>3 DEF ChatsIInv, ChatsTyped
<1>5. LidsAsked'
  BY <1>2, <1>3 DEF ChatsIInv, LidsAsked
<1>6. NamesAsked'
  <2> SUFFICES ASSUME hStep = "names", NEW i \in HPositions
               PROVE  /\ hAsked'[i] <= (IF hChat[i].kind = "lid" THEN 1 ELSE 0)
                                       + (IF hChat[i].kind # "group" /\ i \notin hQueue' THEN 1 ELSE 0)
                      /\ i \in hQueue' => hChat[i].kind # "group"
                      /\ Wanted(i) => i \in hQueue' \/ hAsked'[i] > 0
    BY <1>3 DEF NamesAsked, Wanted
  <2>1. /\ hAsked[i] \in Nat /\ hAsked'[i] \in Nat
        /\ i \in hQueue => hChat[i].kind # "group"
        /\ hAsked[i] <= (IF hChat[i].kind = "lid" THEN 1 ELSE 0) + (IF hChat[i].kind # "group" /\ i \notin hQueue THEN 1 ELSE 0)
        /\ Wanted(i) => i \in hQueue \/ hAsked[i] > 0
    BY <1>2 DEF ChatsIInv, ChatsTyped, NamesAsked
  <2> QED
    BY <1>2, <2>1
<1>7. PhonesOfLids' /\ Shown' /\ NothingYet' /\ H!MentionsTrue'
  BY <1>3 DEF ChatsIInv, PhonesOfLids, Shown, NothingYet, H!MentionsTrue
<1> QED
  BY <1>4, <1>5, <1>6, <1>7 DEF ChatsIInv

LEMMA KeepsStartNames ==
  ASSUME ChatsAssumption, ChatsIInv, H!StartNames
  PROVE  ChatsIInv'
<1> DEFINE S == {i \in HPositions : hChat[i].kind # "group" /\ hNames[i] = None /\ H!IsPhoneLikeName(hChat[i].name)}
<1>1. S \subseteq HPositions /\ H!SendBatch(S)
  BY DEF H!StartNames
<1>2. /\ hQueue' \subseteq S /\ hInFlight' \subseteq S \ hQueue' /\ hQueue' \cup hInFlight' = S
      /\ IsFiniteSet(hInFlight') /\ Cardinality(hInFlight') <= HBatch
      /\ hAsked' \in [HPositions -> Nat]
      /\ \A i \in HPositions : hAsked'[i] = IF i \in S /\ i \notin hQueue' THEN hAsked[i] + 1 ELSE hAsked[i]
  <2> HIDE DEF S
  <2> QED
    BY <1>1, Batched
<1>3. /\ hStep = "lids" /\ hStep' = "names" /\ hQueue = {} /\ UNCHANGED <<hChat, hPhones, hNames, hView, hText>>
  BY DEF H!StartNames
<1>4. ChatsTyped'
  BY <1>2, <1>3 DEF ChatsIInv, ChatsTyped
<1>5. NamesAsked'
  <2> SUFFICES ASSUME NEW i \in HPositions
               PROVE  /\ hAsked'[i] <= (IF hChat[i].kind = "lid" THEN 1 ELSE 0)
                                       + (IF hChat[i].kind # "group" /\ i \notin hQueue' THEN 1 ELSE 0)
                      /\ i \in hQueue' => hChat[i].kind # "group"
                      /\ Wanted(i) => i \in hQueue' \/ hAsked'[i] > 0
    BY <1>3 DEF NamesAsked, Wanted
  <2>1. hAsked[i] = (IF hChat[i].kind = "lid" THEN 1 ELSE 0) /\ hAsked'[i] \in Nat
    BY <1>2, <1>3 DEF ChatsIInv, LidsAsked
  <2>2. i \in S <=> Wanted(i)
    BY DEF Wanted
  <2>3. i \in S => hChat[i].kind # "group"
    OBVIOUS
  <2> HIDE DEF S
  <2> QED
    BY <1>2, <2>1, <2>2, <2>3
<1>6. LidsAsked' /\ PhonesOfLids' /\ Shown' /\ NothingYet' /\ H!MentionsTrue'
  BY <1>3 DEF ChatsIInv, LidsAsked, PhonesOfLids, Shown, NothingYet, H!MentionsTrue
<1> QED
  BY <1>4, <1>5, <1>6 DEF ChatsIInv

LEMMA KeepsSettle ==
  ASSUME ChatsAssumption, ChatsIInv, NEW i \in HPositions, NEW answer \in H!Answers \cup {None}, H!Settle(i, answer)
  PROVE  ChatsIInv'
<1>1. /\ i \in hInFlight /\ hInFlight' = hInFlight \ {i} /\ UNCHANGED <<hChat, hStep, hQueue, hAsked, hView, hText>>
      /\ hStep # "start" /\ hStep # "done"
  BY DEF H!Settle, ChatsIInv, NothingYet, Shown
<1>2. /\ \A j \in HPositions : j # i => hPhones'[j] = hPhones[j]
      /\ hPhones'[i] # hPhones[i] => hStep = "lids"
      /\ hPhones' \in [HPositions -> {"theirs", None}]
  <2>1. answer # None => H!ContactPhone(answer.jid, answer.number) \in {"theirs", None}
    BY DEF H!Answers, H!ContactPhone
  <2> QED
    BY <2>1 DEF H!Settle, ChatsIInv, ChatsTyped
<1>3. /\ \A j \in HPositions : hNames'[j] \in {None, <<"found", j>>} /\ (hNames[j] # None => hNames'[j] = hNames[j])
      /\ hNames' \in [HPositions -> {None} \cup {<<"found", k>> : k \in HPositions}]
  BY DEF H!Settle, ChatsIInv, ChatsTyped
<1>4. IsFiniteSet(hInFlight') /\ Cardinality(hInFlight') <= HBatch
  <2>1. hInFlight' \subseteq hInFlight /\ IsFiniteSet(hInFlight) /\ Cardinality(hInFlight) <= HBatch /\ HBatch \in Nat
    BY <1>1 DEF ChatsIInv, ChatsTyped, ChatsAssumption
  <2>2. IsFiniteSet(hInFlight') /\ Cardinality(hInFlight') <= Cardinality(hInFlight)
    BY <2>1, FS_Subset
  <2>3. Cardinality(hInFlight') \in Nat /\ Cardinality(hInFlight) \in Nat
    BY <2>1, <2>2, FS_CardinalityType
  <2> QED
    BY <2>1, <2>2, <2>3
<1>5. ChatsTyped'
  BY <1>1, <1>2, <1>3, <1>4 DEF ChatsIInv, ChatsTyped
<1>6. LidsAsked' /\ Shown' /\ NothingYet' /\ H!MentionsTrue'
  BY <1>1 DEF ChatsIInv, LidsAsked, Shown, NothingYet, H!MentionsTrue
<1>7. NamesAsked'
  BY <1>1, <1>3 DEF ChatsIInv, NamesAsked, Wanted
<1>8. PhonesOfLids'
  BY <1>1, <1>2 DEF ChatsIInv, PhonesOfLids, LidsAsked
<1> QED
  BY <1>5, <1>6, <1>7, <1>8 DEF ChatsIInv

LEMMA KeepsShow ==
  ASSUME ChatsAssumption, ChatsIInv, H!Show
  PROVE  ChatsIInv'
<1>1. /\ hStep = "names" /\ hStep' = "done" /\ hQueue = {} /\ hInFlight = {}
      /\ hView' = [i \in HPositions |-> H!ChatView(i)]
      /\ UNCHANGED <<hChat, hInFlight, hQueue, hPhones, hNames, hAsked, hText>>
  BY DEF H!Show
<1>2. ChatsTyped'
  BY <1>1 DEF ChatsIInv, ChatsTyped
<1>3. NamesAsked'
  BY <1>1 DEF ChatsIInv, NamesAsked, Wanted
<1>4. LidsAsked' /\ PhonesOfLids' /\ Shown' /\ NothingYet' /\ H!MentionsTrue'
  BY <1>1 DEF ChatsIInv, LidsAsked, PhonesOfLids, Shown, NothingYet, H!MentionsTrue, H!ChatView
<1> QED
  BY <1>2, <1>3, <1>4 DEF ChatsIInv

LEMMA KeepsMention ==
  ASSUME ChatsAssumption, ChatsIInv, NEW order \in H!Orders, NEW known \in SUBSET HLids, NEW k \in DOMAIN order,
         H!Mention(order[k], order, known)
  PROVE  ChatsIInv'
<1> DEFINE l == order[k]
           n == Len(order)
           fit == Fit(l, order, known, n)
           first == CHOOSE j \in fit : \A i \in fit : j <= i
           at == CHOOSE j \in DOMAIN order : order[j] = l
<1>1. /\ hText' = [lid |-> l, shown |-> H!Replaced(l, order, known), known |-> known, order |-> order]
      /\ UNCHANGED <<hChat, hStep, hInFlight, hQueue, hPhones, hNames, hAsked, hView>>
  BY DEF H!Mention
<1>2. n \in Nat /\ DOMAIN order = 1..n /\ \A a, b \in 1..n : order[a] = order[b] => a = b
  <2>1. PICK m \in 0..Cardinality(HLids) : order \in [1..m -> HLids]
    BY HCardinality DEF H!Orders
  <2>2. Cardinality(HLids) \in Nat
    BY FS_CardinalityType DEF ChatsAssumption
  <2>3. m \in Nat /\ DOMAIN order = 1..m
    BY <2>1, <2>2
  <2>4. Len(order) = m
    BY <2>1, <2>3
  <2> QED
    BY <2>3, <2>4, HCardinality DEF H!Orders
<1>3. at \in 1..n /\ order[at] = l
  BY <1>2
<1>4. H!Replaced(l, order, known) = IF fit = {} THEN <<"raw", l>> ELSE <<"label", order[first]>>
  BY <1>2, ReplacedIs DEF After
<1>5. fit # {} => first \in fit /\ \A i \in fit : first <= i
  <2>1. fit \subseteq Nat
    BY DEF Fit
  <2> HIDE DEF fit
  <2>2. fit # {} => \E j \in fit : \A i \in fit : j <= i
    BY <2>1, LeastOf
  <2> QED
    BY <2>2
<1>6. l \in known => at \in fit
  BY <1>3 DEF Fit, Fits
<1>7. first \in fit => first \in 1..n /\ order[first] \in known /\ (order[first] = l \/ <<order[first], l>> \in HPrefix)
  BY DEF Fit, Fits
<1> HIDE DEF l, n, fit, first, at
<1>8. \/ H!Replaced(l, order, known) = IF l \in known THEN <<"label", l>> ELSE <<"raw", l>>
      \/ \E j \in DOMAIN order :
           /\ order[j] \in known /\ <<order[j], l>> \in HPrefix /\ H!Replaced(l, order, known) = <<"label", order[j]>>
           /\ l \in known => j < at
  <2>1. CASE fit = {}
    BY <2>1, <1>4, <1>6
  <2>2. CASE fit # {} /\ order[first] = l
    BY <2>2, <1>4, <1>5, <1>7
  <2>3. CASE fit # {} /\ order[first] # l
    <3>1. first \in 1..n /\ order[first] \in known /\ <<order[first], l>> \in HPrefix
      BY <2>3, <1>5, <1>7
    <3>2. l \in known => first <= at /\ first # at
      BY <2>3, <1>3, <1>5, <1>6
    <3>3. l \in known => first < at
      BY <3>1, <3>2, <1>2, <1>3
    <3> QED
      BY <2>3, <3>1, <3>3, <1>2, <1>4
  <2> QED
    BY <2>1, <2>2, <2>3
<1>9. H!MentionsTrue'
  <2>1. hText'.lid = l /\ hText'.shown = H!Replaced(l, order, known) /\ hText'.known = known /\ hText'.order = order
    BY <1>1
  <2> QED
    BY <2>1, <1>8 DEF H!MentionsTrue, at
<1>10. (ChatsTyped /\ NothingYet /\ LidsAsked /\ NamesAsked /\ PhonesOfLids /\ Shown)'
  BY <1>1 DEF ChatsIInv, ChatsTyped, NothingYet, LidsAsked, NamesAsked, Wanted, PhonesOfLids, Shown, H!ChatView
<1> QED
  BY <1>9, <1>10 DEF ChatsIInv

LEMMA NextChats ==
  ASSUME ChatsAssumption
  PROVE  ChatsIInv /\ [H!Next]_H!vars => ChatsIInv'
<1> SUFFICES ASSUME ChatsIInv, [H!Next]_H!vars PROVE ChatsIInv'
  OBVIOUS
<1>1. CASE UNCHANGED H!vars
  BY <1>1 DEF H!vars, ChatsIInv, ChatsTyped, NothingYet, LidsAsked, NamesAsked, Wanted, PhonesOfLids, Shown, H!ChatView, H!MentionsTrue
<1>2. CASE \E listed \in Chat : H!Start(listed)
  BY <1>2, KeepsStart
<1>3. CASE \E i \in HPositions, answer \in H!Answers \cup {None} : H!Settle(i, answer)
  BY <1>3, KeepsSettle
<1>4. CASE \E order \in H!Orders, known \in SUBSET HLids : \E k \in DOMAIN order : H!Mention(order[k], order, known)
  BY <1>4, KeepsMention
<1> QED
  BY <1>1, <1>2, <1>3, <1>4, KeepsNextBatch, KeepsStartNames, KeepsShow DEF H!Next, Chat

LEMMA ChatsSuffices ==
  ASSUME ChatsAssumption
  PROVE  ChatsIInv => H!ChatsInv
<1> SUFFICES ASSUME ChatsIInv PROVE H!ChatsInv
  OBVIOUS
<1>1. H!TypeOK
  <2>1. \A i \in HPositions : <<"found", i>> \in {"found"} \X HPositions
    OBVIOUS
  <2>2. \A i \in HPositions : hNames[i] \in {None} \cup ({"found"} \X HPositions)
    BY <2>1 DEF ChatsIInv, ChatsTyped
  <2>3. hPhones \in [HPositions -> {"own", "theirs", None}]
    BY DEF ChatsIInv, ChatsTyped
  <2> QED
    BY <2>2, <2>3 DEF ChatsIInv, ChatsTyped, NothingYet, H!TypeOK, Chat
<1>2. H!LookupsBounded
  <2> SUFFICES ASSUME hChat # None, NEW i \in HPositions
               PROVE  hAsked[i] <= (CASE hChat[i].kind = "lid" -> 2 [] hChat[i].kind = "phone" -> 1 [] OTHER -> 0)
    BY HCardinality DEF ChatsIInv, ChatsTyped, H!LookupsBounded
  <2>1. hStep # "start" /\ hChat[i].kind \in H!Kinds /\ hAsked[i] \in Nat
    BY DEF ChatsIInv, ChatsTyped, NothingYet, Chat
  <2>2. hAsked[i] <= (IF hChat[i].kind = "lid" THEN 1 ELSE 0) + (IF hChat[i].kind # "group" THEN 1 ELSE 0)
    <3>1. CASE hStep = "lids"
      BY <2>1, <3>1 DEF ChatsIInv, LidsAsked
    <3>2. CASE hStep \in {"names", "done"}
      BY <2>1, <3>2 DEF ChatsIInv, NamesAsked
    <3> QED
      BY <2>1, <3>1, <3>2 DEF ChatsIInv, ChatsTyped
  <2> QED
    BY <2>1, <2>2 DEF H!Kinds
<1>3. H!ViewsTrue
  <2> SUFFICES ASSUME hView # None, NEW i \in HPositions
               PROVE  /\ hView[i].name # None => hView[i].name[2] = i
                      /\ hView[i].name = None /\ hChat[i].kind # "group" => hAsked[i] > 0
                      /\ hView[i].phone # "lid"
                      /\ hChat[i].kind = "phone" => hView[i].phone = "own"
                      /\ hChat[i].kind = "group" => hView[i].phone = None
    BY DEF H!ViewsTrue
  <2>1. hStep = "done" /\ hQueue = {} /\ hView[i] = H!ChatView(i)
    BY DEF ChatsIInv, Shown
  <2>2. /\ hNames[i] \in {None, <<"found", i>>} /\ hPhones[i] \in {"theirs", None}
        /\ hPhones[i] # None => hChat[i].kind = "lid"
        /\ Wanted(i) => hAsked[i] > 0
    BY <2>1 DEF ChatsIInv, ChatsTyped, PhonesOfLids, NamesAsked
  <2>3. <<"found", i>> # None /\ <<"raw", i>> # None /\ None # "lid"
    BY DEF ChatsAssumption
  <2> QED
    BY <2>1, <2>2, <2>3 DEF H!ChatView, Wanted
<1> QED
  BY <1>1, <1>2, <1>3 DEF ChatsIInv, H!ChatsInv

(* Whatever settles first: no more lookups under way than a batch, each chat *)
(* asked for at most twice, each chat shown under its own name and phone,    *)
(* and a mention under its own label but for a LID that begins its digits.   *)
THEOREM ChatsHold ==
  ASSUME ChatsAssumption
  PROVE  H!Spec => []H!ChatsInv
<1>1. H!Init => ChatsIInv
  BY InitChats
<1>2. ChatsIInv /\ [H!Next]_H!vars => ChatsIInv'
  BY NextChats
<1>3. ChatsIInv => H!ChatsInv
  BY ChatsSuffices
<1> QED
  BY <1>1, <1>2, <1>3, PTL DEF H!Spec

-----------------------------------------------------------------------------
(* SentHistory *)

(* The cardinality is the library's. *)
LEMMA ECardinality == \A set : E!Cardinality(set) = Cardinality(set)
BY DEF E!Cardinality, Cardinality

SentHistoryAssumption ==
  /\ IsFiniteSet(EJobs) /\ EJobs = 1..Cardinality(EJobs) /\ EJobs # {}
  /\ EPageSize \in Nat /\ EPageSize > 0 /\ ECap \in Nat
  /\ None \notin {"scheduled", "cancelled"} /\ None \notin E!Listings
  /\ \A j \in EJobs : <<ESessionOf[j], EPhoneOf[j]>> # None

-----------------------------------------------------------------------------
(* Ranks: how many of a set are newer than a job.                            *)
LEMMA AboveIs ==
  ASSUME SentHistoryAssumption, NEW S \in SUBSET EJobs
  PROVE  /\ S \subseteq Nat /\ IsFiniteSet(S) /\ Cardinality(S) \in Nat
         /\ \A j : E!Above(j, S) \subseteq S /\ IsFiniteSet(E!Above(j, S)) /\ Cardinality(E!Above(j, S)) \in Nat
         /\ \A j \in S : Cardinality(E!Above(j, S)) < Cardinality(S)
<1>1. S \subseteq Nat
  <2>1. Cardinality(EJobs) \in Nat
    BY FS_CardinalityType DEF SentHistoryAssumption
  <2>2. \A j \in EJobs : j \in Nat
    BY <2>1 DEF SentHistoryAssumption
  <2> QED
    BY <2>2
<1>2. IsFiniteSet(S) /\ Cardinality(S) \in Nat
  BY FS_Subset, FS_CardinalityType DEF SentHistoryAssumption
<1>3. \A j : E!Above(j, S) \subseteq S
  BY DEF E!Above
<1>4. \A j : IsFiniteSet(E!Above(j, S)) /\ Cardinality(E!Above(j, S)) \in Nat /\ Cardinality(E!Above(j, S)) <= Cardinality(S)
  BY <1>2, <1>3, FS_Subset, FS_CardinalityType
<1>5. \A j \in S : Cardinality(E!Above(j, S)) # Cardinality(S)
  <2>1. \A j \in S : j \notin E!Above(j, S)
    BY <1>1 DEF E!Above
  <2> QED
    BY <1>2, <1>3, <2>1, FS_Subset
<1> QED
  BY <1>1, <1>2, <1>3, <1>4, <1>5

LEMMA FewerOf ==
  ASSUME SentHistoryAssumption, NEW T \in SUBSET EJobs, NEW S \in SUBSET T
  PROVE  Cardinality(S) \in Nat /\ Cardinality(T) \in Nat /\ Cardinality(S) <= Cardinality(T)
BY AboveIs, FS_Subset

LEMMA FewerAbove ==
  ASSUME SentHistoryAssumption, NEW T \in SUBSET EJobs, NEW S \in SUBSET T, NEW j
  PROVE  Cardinality(E!Above(j, S)) <= Cardinality(E!Above(j, T))
<1>1. E!Above(j, S) \subseteq E!Above(j, T) /\ E!Above(j, T) \subseteq EJobs
  BY DEF E!Above
<1> QED
  BY <1>1, FewerOf

LEMMA RankLess ==
  ASSUME SentHistoryAssumption, NEW S \in SUBSET EJobs, NEW i \in S, NEW j \in S, i < j
  PROVE  Cardinality(E!Above(j, S)) < Cardinality(E!Above(i, S))
<1>1. i \in Nat /\ j \in Nat /\ S \subseteq Nat
  BY AboveIs
<1>2. E!Above(j, S) \subseteq E!Above(i, S) /\ j \in E!Above(i, S) /\ j \notin E!Above(j, S)
  <2>1. \A k \in S : k \in Nat /\ (k > j => k > i)
    <3> SUFFICES ASSUME NEW k \in S PROVE k \in Nat /\ (k > j => k > i)
      OBVIOUS
    <3>1. k \in Nat
      BY <1>1
    <3> QED
      BY <1>1, <3>1
  <2>2. j > i /\ ~(j > j)
    BY <1>1
  <2> QED
    BY <2>1, <2>2 DEF E!Above
<1>3. IsFiniteSet(E!Above(i, S)) /\ Cardinality(E!Above(i, S)) \in Nat /\ Cardinality(E!Above(j, S)) \in Nat
  BY AboveIs
<1>4. Cardinality(E!Above(j, S)) <= Cardinality(E!Above(i, S)) /\ Cardinality(E!Above(i, S)) # Cardinality(E!Above(j, S))
  BY <1>2, <1>3, FS_Subset
<1> QED
  BY <1>3, <1>4

(* A page has no more rows than its limit.                                   *)
LEMMA RowsBounded ==
  ASSUME SentHistoryAssumption, NEW S \in SUBSET EJobs, NEW from \in Nat, NEW n \in Nat
  PROVE  E!Rows(S, from, n) \subseteq S /\ IsFiniteSet(E!Rows(S, from, n)) /\ Cardinality(E!Rows(S, from, n)) <= n
<1> DEFINE R == E!Rows(S, from, n)
           top == from + n - 1
           rank == [j \in R |-> Cardinality(E!Above(j, S))]
<1>1. R \subseteq S
  BY ECardinality DEF E!Rows
<1>2. IsFiniteSet(R) /\ R \subseteq Nat
  BY <1>1, AboveIs, FS_Subset
<1>3. top \in Int /\ IsFiniteSet(from..top) /\ Cardinality(from..top) = n
  <2>1. top \in Int
    OBVIOUS
  <2>2. IsFiniteSet(from..top) /\ Cardinality(from..top) = IF from > top THEN 0 ELSE top - from + 1
    <3> HIDE DEF top
    <3> QED
      BY <2>1, FS_Interval
  <2> QED
    BY <2>1, <2>2
<1>4. rank \in [R -> from..top]
  BY ECardinality DEF E!Rows
<1>5. \A i, j \in R : rank[i] = rank[j] => i = j
  <2> SUFFICES ASSUME NEW i \in R, NEW j \in R, rank[i] = rank[j] PROVE i = j
    OBVIOUS
  <2>1. i \in S /\ j \in S /\ i \in Nat /\ j \in Nat
    BY <1>1, <1>2
  <2>2. rank[i] = Cardinality(E!Above(i, S)) /\ rank[j] = Cardinality(E!Above(j, S))
    OBVIOUS
  <2>3. rank[i] \in Nat /\ rank[j] \in Nat
    BY <2>2, AboveIs
  <2> HIDE DEF R, rank
  <2>4. i < j => rank[j] < rank[i]
    BY <2>1, <2>2, RankLess
  <2>5. j < i => rank[i] < rank[j]
    BY <2>1, <2>2, RankLess
  <2>6. i < j \/ j < i \/ i = j
    BY <2>1
  <2> QED
    BY <2>3, <2>4, <2>5, <2>6
<1> HIDE DEF R, rank, top
<1>6. rank \in Injection(R, from..top)
  BY <1>4, <1>5 DEF Injection, IsInjective
<1>7. Cardinality(R) <= Cardinality(from..top)
  BY <1>3, <1>6, FS_Injection
<1> QED
  BY <1>1, <1>2, <1>3, <1>7 DEF R

(* It has fewer just when the set is used up.                                *)
LEMMA RowsCount ==
  ASSUME SentHistoryAssumption, NEW S \in SUBSET EJobs, NEW from \in Nat, NEW n \in Nat
  PROVE  (Cardinality(S) > from + n) <=> (from + Cardinality(E!Rows(S, from, n)) < Cardinality(S))
<1> DEFINE R == E!Rows(S, from, n)
           A == E!Rows(S, 0, from)
           rest == Cardinality(S) - (from + n)
           B == E!Rows(S, from + n, rest)
<1>0. Cardinality(S) \in Nat /\ IsFiniteSet(S)
  BY AboveIs
<1>1. R \subseteq S /\ IsFiniteSet(R) /\ Cardinality(R) <= n /\ Cardinality(R) \in Nat
  BY RowsBounded, FS_CardinalityType
<1>2. A \subseteq S /\ IsFiniteSet(A) /\ Cardinality(A) <= from /\ Cardinality(A) \in Nat
  BY RowsBounded, FS_CardinalityType
<1>3. CASE Cardinality(S) > from + n
  BY <1>0, <1>1, <1>3
<1>4. CASE Cardinality(S) <= from + n
  <2>1. S \subseteq A \cup R
    <3> SUFFICES ASSUME NEW j \in S, j \notin A PROVE j \in R
      OBVIOUS
    <3>1. Cardinality(E!Above(j, S)) \in Nat /\ Cardinality(E!Above(j, S)) < Cardinality(S)
      BY AboveIs
    <3> QED
      BY <1>0, <1>4, <3>1, ECardinality DEF E!Rows
  <2> HIDE DEF A, R
  <2>2. S = A \cup R
    BY <1>1, <1>2, <2>1
  <2>3. IsFiniteSet(A \cap R) /\ Cardinality(A \cup R) = Cardinality(A) + Cardinality(R) - Cardinality(A \cap R)
    BY <1>1, <1>2, FS_Union, FS_Intersection
  <2>4. Cardinality(A \cap R) \in Nat
    BY <2>3, FS_CardinalityType
  <2>5. Cardinality(S) <= from + Cardinality(R)
    <3>1. Cardinality(S) = Cardinality(A) + Cardinality(R) - Cardinality(A \cap R)
      BY <2>2, <2>3
    <3> QED
      BY <1>0, <1>1, <1>2, <2>4, <3>1
  <2>6. ~(Cardinality(S) > from + n) /\ ~(from + Cardinality(R) < Cardinality(S))
    BY <1>0, <1>1, <1>4, <2>5
  <2> QED
    BY <2>6 DEF R
<1> QED
  BY <1>0, <1>3, <1>4

(* Above the newest rows of a set there are only newest rows.                *)
LEMMA RowsClosed ==
  ASSUME SentHistoryAssumption, NEW S \in SUBSET EJobs, NEW n \in Nat, NEW j \in E!Rows(S, 0, n)
  PROVE  E!Above(j, S) \subseteq E!Rows(S, 0, n)
<1> SUFFICES ASSUME NEW k \in E!Above(j, S) PROVE k \in E!Rows(S, 0, n)
  OBVIOUS
<1>1. j \in S /\ k \in S /\ j < k
  BY ECardinality DEF E!Above, E!Rows
<1>2. Cardinality(E!Above(k, S)) < Cardinality(E!Above(j, S)) /\ Cardinality(E!Above(k, S)) \in Nat /\ Cardinality(E!Above(j, S)) \in Nat
  BY <1>1, RankLess, AboveIs
<1> QED
  BY <1>1, <1>2, ECardinality DEF E!Rows

(* Pages follow each other without a gap or an overlap.                      *)
LEMMA PagesInTurn ==
  ASSUME SentHistoryAssumption, NEW p \in Nat, NEW q \in Nat
  PROVE  /\ p * EPageSize \in Nat /\ (p + 1) * EPageSize = p * EPageSize + EPageSize
         /\ p <= q => p * EPageSize <= q * EPageSize
         /\ q > 0 => E!Offset(q) \in Nat /\ E!Offset(q) + EPageSize = q * EPageSize
<1>1. EPageSize \in Nat /\ p * EPageSize \in Nat /\ q * EPageSize \in Nat /\ (p + 1) * EPageSize = p * EPageSize + EPageSize
  BY DEF SentHistoryAssumption
<1>2. p <= q => p * EPageSize <= q * EPageSize
  <2> SUFFICES ASSUME p <= q PROVE p * EPageSize <= q * EPageSize
    OBVIOUS
  <2>1. PICK d \in Nat : q = p + d
    <3>1. q - p \in Nat /\ q = p + (q - p)
      OBVIOUS
    <3> QED
      BY <3>1
  <2>2. q * EPageSize = p * EPageSize + d * EPageSize /\ d * EPageSize \in Nat
    BY <1>1, <2>1
  <2> QED
    BY <1>1, <2>2
<1>3. q > 0 => E!Offset(q) \in Nat /\ E!Offset(q) + EPageSize = q * EPageSize
  <2> SUFFICES ASSUME q > 0 PROVE E!Offset(q) \in Nat /\ E!Offset(q) + EPageSize = q * EPageSize
    OBVIOUS
  <2>1. PICK d \in Nat : q = d + 1 /\ q - 1 = d
    <3>1. q - 1 \in Nat /\ q = (q - 1) + 1
      OBVIOUS
    <3> QED
      BY <3>1
  <2>2. d * EPageSize \in Nat /\ q * EPageSize = d * EPageSize + EPageSize
    BY <1>1, <2>1
  <2> QED
    BY <2>1, <2>2 DEF E!Offset
<1> QED
  BY <1>1, <1>2, <1>3

(* What is among the first n pages of a set is on one of them.               *)
LEMMA OnSomePage ==
  ASSUME SentHistoryAssumption, NEW S \in SUBSET EJobs, NEW n \in Nat, NEW j \in S,
         Cardinality(E!Above(j, S)) < n * EPageSize
  PROVE  \E p \in 1..n : j \in E!Rows(S, E!Offset(p), EPageSize)
<1> DEFINE a == Cardinality(E!Above(j, S))
           T == {p \in Nat : a < p * EPageSize}
<1>0. a \in Nat
  BY AboveIs
<1>1. T \subseteq Nat /\ n \in T
  OBVIOUS
<1>2. PICK p \in T : \A q \in T : p <= q
  <2> HIDE DEF T
  <2> QED
    BY <1>1, LeastOf
<1>3. p \in Nat /\ a < p * EPageSize /\ p <= n
  BY <1>1, <1>2
<1>4. p # 0
  BY <1>0, <1>3 DEF SentHistoryAssumption
<1>5. p - 1 \in Nat /\ ~(p <= p - 1)
  BY <1>3, <1>4
<1>6. ~(a < (p - 1) * EPageSize)
  BY <1>2, <1>5
<1>7. E!Offset(p) \in Nat /\ E!Offset(p) + EPageSize = p * EPageSize
  BY <1>3, <1>4, PagesInTurn
<1>8. E!Offset(p) <= a
  BY <1>0, <1>6, <1>7 DEF E!Offset
<1>9. j \in E!Rows(S, E!Offset(p), EPageSize)
  <2>1. EPageSize \in Nat
    BY DEF SentHistoryAssumption
  <2>2. a \in E!Offset(p)..(E!Offset(p) + EPageSize - 1)
    BY <1>0, <1>3, <1>7, <1>8, <2>1
  <2> QED
    BY <2>2, ECardinality DEF E!Rows
<1> QED
  BY <1>3, <1>4, <1>9
-----------------------------------------------------------------------------
SentHistoryFields == {"kind", "step", "page", "job", "rows", "more", "total", "names", "quiet"}
Page == [items : SUBSET EJobs, more : BOOLEAN, total : Nat]
OwnName(j) == <<ESessionOf[j], EPhoneOf[j]>>
Match(k) == ~eListing.search \/ k \in ETextHits \/ E!NameOf(k) # None
Hits == {j \in E!Rows(eStayed, 0, ECap) : j \in ETextHits \/ E!NameOf(j) # None}
Newer(j) == {k \in E!ListedNow : k > j /\ Match(k)}

(* The rows of the page under way have been read.                            *)
RowsRead == eRequest # None /\ eRequest.kind = "list" /\ eRequest.step # "jobs"
Begun == ePages # <<>> \/ RowsRead

SentHistoryTyped ==
  /\ eJob \in [EJobs -> {"scheduled", "cancelled", None}] /\ eGrants \subseteq E!Sessions
  /\ eRole \in BOOLEAN /\ eContacts \subseteq E!Sessions \X E!Phones
  /\ eListing = None \/ eListing \in E!Listings
  /\ ePages \in Seq(Page) /\ (eListing = None => ePages = <<>>)
  /\ eCould \subseteq EJobs /\ eStayed \subseteq E!ListedNow /\ eLost \in BOOLEAN /\ eGrown \in BOOLEAN

SentHistoryRequested ==
  eRequest # None =>
    /\ DOMAIN eRequest = SentHistoryFields
    /\ eRequest.kind \in {"list", "detail"} /\ eRequest.step \in {"jobs", "total", "names", "answer"}
    /\ eRequest.more \in BOOLEAN /\ eRequest.total \in Nat
    /\ E!Readable \subseteq eCould /\ eRequest.rows \subseteq eCould
    /\ \A j \in DOMAIN eRequest.names : eRequest.names[j] \in {None, OwnName(j)}
    /\ eRequest.step = "answer" => DOMAIN eRequest.names = eRequest.rows
    /\ eRequest.kind = "list" => eListing \in E!Listings /\ eRequest.page = Len(ePages) + 1

(* Nothing has changed since the rows were read.                             *)
Agreeing ==
  RowsRead /\ eRequest.step = "total" /\ eRequest.quiet /\ ~eListing.search =>
    /\ eRequest.rows = E!Rows(E!ListedNow, E!Offset(eRequest.page), EPageSize)
    /\ eRequest.more = (Cardinality(E!ListedNow) > E!Offset(eRequest.page) + EPageSize)

(* None left the list: a job that stayed is only pushed to later pages.      *)
Pushed ==
  ~eLost /\ eListing # None /\ ~eListing.search =>
    /\ \A j \in eStayed : Cardinality(E!Above(j, E!ListedNow)) < Len(ePages) * EPageSize => j \in E!Seen
    /\ RowsRead =>
         \A j \in eStayed : Cardinality(E!Above(j, E!ListedNow)) < eRequest.page * EPageSize \/ ~eRequest.more
                             => j \in E!Seen \cup eRequest.rows
    /\ E!ReadToEnd => eStayed \subseteq E!Seen

(* None joined it either: a search pages over the same hits all the time.    *)
Searched ==
  ~eLost /\ ~eGrown /\ eListing # None /\ eListing.search /\ Begun =>
    /\ eStayed = E!ListedNow
    /\ \A p \in 1..Len(ePages) :
         /\ ePages[p].items = E!Rows(Hits, E!Offset(p), EPageSize)
         /\ ePages[p].more = (Cardinality(Hits) > p * EPageSize)
    /\ RowsRead => eRequest.rows = E!Rows(eStayed, 0, ECap)
    /\ RowsRead /\ eRequest.step = "answer" => \A j \in eRequest.rows : eRequest.names[j] = E!NameOf(j)

(* None joined it: a job shown is only pulled to earlier pages.              *)
Pulled ==
  ~eGrown /\ eListing # None =>
    /\ \A p \in 1..Len(ePages), j \in EJobs : j \in ePages[p].items => Cardinality(Newer(j)) < p * EPageSize
    /\ RowsRead /\ ~eListing.search =>
         \A j \in eRequest.rows :
           /\ Cardinality(E!Above(j, E!ListedNow)) < eRequest.page * EPageSize
           /\ \A p \in 1..Len(ePages) : j \notin ePages[p].items
    /\ RowsRead /\ eListing.search =>
         /\ \A j \in eRequest.rows : E!Above(j, E!ListedNow) \subseteq eRequest.rows
         /\ eRequest.step # "answer" =>
              \A p \in 1..Len(ePages), j \in EJobs :
                j \in ePages[p].items => Cardinality({k \in eRequest.rows : k > j /\ Match(k)}) < p * EPageSize
         /\ eRequest.step = "answer" =>
              /\ \A k \in eRequest.rows : E!NameOf(k) # None => eRequest.names[k] # None
              /\ \A p \in 1..Len(ePages), j \in EJobs :
                   j \in ePages[p].items => Cardinality(E!Above(j, E!Found)) < p * EPageSize

SentHistoryIInv ==
  /\ SentHistoryTyped /\ SentHistoryRequested /\ Agreeing /\ E!StatementsAgree /\ Pushed
  /\ Searched /\ Pulled /\ E!RepeatedOnlyAfterGrowth

-----------------------------------------------------------------------------
LEMMA Within ==
  ASSUME SentHistoryAssumption, SentHistoryTyped
  PROVE  /\ E!Readable \in SUBSET EJobs /\ E!ListedNow \in SUBSET EJobs /\ E!ListedNow \subseteq E!Readable /\ eStayed \in SUBSET EJobs
         /\ \A j : Newer(j) \in SUBSET E!ListedNow /\ Cardinality(Newer(j)) \in Nat
         /\ Len(ePages) \in Nat
         /\ \A p \in 1..Len(ePages) : ePages[p].items \in SUBSET EJobs
<1>1. E!Readable \in SUBSET EJobs /\ E!ListedNow \in SUBSET EJobs /\ E!ListedNow \subseteq E!Readable
  BY DEF E!Readable, E!ListedNow, E!Listed
<1>2. \A j : Newer(j) \in SUBSET E!ListedNow
  BY DEF Newer
<1>3. \A j : Cardinality(Newer(j)) \in Nat
  BY <1>1, <1>2, FewerOf
<1>4. Len(ePages) \in Nat /\ \A p \in 1..Len(ePages) : ePages[p] \in Page
  BY DEF SentHistoryTyped
<1>5. \A p \in 1..Len(ePages) : ePages[p].items \in SUBSET EJobs
  BY <1>4 DEF Page
<1> QED
  BY <1>1, <1>2, <1>3, <1>4, <1>5 DEF SentHistoryTyped

LEMMA Unmoved ==
  ASSUME UNCHANGED <<eJob, eGrants, eContacts, eListing>>
  PROVE  /\ E!Readable' = E!Readable /\ E!ListedNow' = E!ListedNow
         /\ \A j : E!NameOf(j)' = E!NameOf(j) /\ (Match(j)' <=> Match(j)) /\ Newer(j)' = Newer(j)
<1>1. E!Readable' = E!Readable
  BY DEF E!Readable
<1>2. E!ListedNow' = E!ListedNow
  BY <1>1 DEF E!ListedNow, E!Listed
<1>3. \A j : E!NameOf(j)' = E!NameOf(j)
  BY DEF E!NameOf
<1>4. \A j : Match(j)' <=> Match(j)
  BY <1>3 DEF Match
<1>5. \A j : Newer(j)' = Newer(j)
  BY <1>2, <1>4 DEF Newer
<1> QED
  BY <1>1, <1>2, <1>3, <1>4, <1>5

(* A step after which no rows are under way, and that answers no page.       *)
LEMMA NoRows ==
  ASSUME SentHistoryAssumption, SentHistoryIInv, UNCHANGED <<E!Reading, eListing, ePages, eStayed, eLost, eGrown>>, ~RowsRead'
  PROVE  (Agreeing /\ E!StatementsAgree /\ Pushed /\ Searched /\ Pulled /\ E!RepeatedOnlyAfterGrowth)'
<1>1. UNCHANGED <<eJob, eGrants, eContacts, eListing>>
  BY DEF E!Reading
<1>2. /\ E!Readable' = E!Readable /\ E!ListedNow' = E!ListedNow
      /\ \A j : E!NameOf(j)' = E!NameOf(j) /\ (Match(j)' <=> Match(j)) /\ Newer(j)' = Newer(j)
  BY <1>1, Unmoved
<1>3. E!Seen' = E!Seen /\ (E!ReadToEnd' <=> E!ReadToEnd)
  BY DEF E!Seen, E!ReadToEnd
<1>4. Agreeing'
  BY DEF Agreeing
<1>5. E!StatementsAgree'
  BY ECardinality DEF E!StatementsAgree, RowsRead
<1>6. Pushed'
  BY <1>2, <1>3 DEF SentHistoryIInv, Pushed
<1>7. Searched'
  <2>1. Hits' = Hits
    BY <1>2 DEF Hits
  <2>2. Begun' => Begun
    BY DEF Begun
  <2> QED
    BY <1>2, <2>1, <2>2 DEF SentHistoryIInv, Searched
<1>8. Pulled'
  BY <1>2 DEF SentHistoryIInv, Pulled
<1>9. E!RepeatedOnlyAfterGrowth'
  BY DEF SentHistoryIInv, E!RepeatedOnlyAfterGrowth
<1> QED
  BY <1>4, <1>5, <1>6, <1>7, <1>8, <1>9

LEMMA KeepsAskFirst ==
  ASSUME SentHistoryAssumption, SentHistoryIInv, NEW l \in E!Listings, E!AskFirst(l)
  PROVE  SentHistoryIInv'
<1>1. /\ eRequest' = [kind |-> "list", step |-> "jobs", page |-> 1, job |-> None,
                      rows |-> {}, more |-> FALSE, total |-> 0, names |-> <<>>, quiet |-> TRUE]
      /\ UNCHANGED <<eJob, eGrants, eRole, eContacts, eChanges, eDetail>> /\ eCould' = E!Readable
      /\ eListing' = l /\ ePages' = <<>> /\ eStayed' = {} /\ eLost' = FALSE /\ eGrown' = FALSE
  BY DEF E!AskFirst, E!Accepted, E!Reading
<1>2. E!Readable' = E!Readable /\ E!Readable \subseteq EJobs /\ Len(ePages') = 0 /\ eListing' \in E!Listings
  BY <1>1 DEF E!Readable
<1>3. SentHistoryTyped'
  <2>1. ePages' \in Seq(Page)
    BY <1>1
  <2> QED
    BY <1>1, <1>2, <2>1 DEF SentHistoryIInv, SentHistoryTyped
<1>4. SentHistoryRequested'
  <2>1. DOMAIN eRequest' = SentHistoryFields
    BY <1>1 DEF SentHistoryFields
  <2>2. DOMAIN eRequest'.names = {}
    BY <1>1
  <2> QED
    BY <1>1, <1>2, <2>1, <2>2 DEF SentHistoryRequested
<1>5. ~RowsRead' /\ ~Begun' /\ ~E!ReadToEnd'
  BY <1>1 DEF RowsRead, Begun, E!ReadToEnd
<1>6. Agreeing' /\ E!StatementsAgree'
  BY <1>1, <1>5, ECardinality DEF Agreeing, E!StatementsAgree
<1>7. Pushed' /\ Searched'
  BY <1>1, <1>5 DEF Pushed, Searched
<1>8. Pulled' /\ E!RepeatedOnlyAfterGrowth'
  <2>1. 1..Len(ePages') = {}
    BY <1>2
  <2> QED
    BY <1>5, <2>1 DEF Pulled, E!RepeatedOnlyAfterGrowth
<1> QED
  BY <1>3, <1>4, <1>6, <1>7, <1>8 DEF SentHistoryIInv

LEMMA KeepsAskNext ==
  ASSUME SentHistoryAssumption, SentHistoryIInv, E!AskNext
  PROVE  SentHistoryIInv'
<1>1. /\ eRequest' = [kind |-> "list", step |-> "jobs", page |-> Len(ePages) + 1, job |-> None,
                      rows |-> {}, more |-> FALSE, total |-> 0, names |-> <<>>, quiet |-> TRUE]
      /\ UNCHANGED <<E!Reading, eListing, ePages, eStayed, eLost, eGrown>> /\ eCould' = E!Readable /\ ePages # <<>>
  BY DEF E!AskNext, E!Accepted
<1>2. E!Readable' = E!Readable /\ E!ListedNow' = E!ListedNow /\ E!Readable \subseteq EJobs
  BY <1>1, Unmoved DEF E!Reading, E!Readable
<1>3. SentHistoryTyped'
  BY <1>1, <1>2 DEF SentHistoryIInv, SentHistoryTyped, E!Reading
<1>4. SentHistoryRequested'
  <2>1. DOMAIN eRequest' = SentHistoryFields
    BY <1>1 DEF SentHistoryFields
  <2>2. DOMAIN eRequest'.names = {}
    BY <1>1
  <2>3. eListing' \in E!Listings
    BY <1>1 DEF SentHistoryIInv, SentHistoryTyped
  <2> QED
    BY <1>1, <1>2, <2>1, <2>2, <2>3 DEF SentHistoryRequested
<1>5. ~RowsRead'
  BY <1>1 DEF RowsRead
<1> QED
  BY <1>1, <1>3, <1>4, <1>5, NoRows DEF SentHistoryIInv

LEMMA KeepsAskDetail ==
  ASSUME SentHistoryAssumption, SentHistoryIInv, NEW j \in EJobs, E!AskDetail(j)
  PROVE  SentHistoryIInv'
<1>1. /\ eRequest' = [kind |-> "detail", step |-> "jobs", page |-> 1, job |-> j,
                      rows |-> {}, more |-> FALSE, total |-> 0, names |-> <<>>, quiet |-> TRUE]
      /\ UNCHANGED <<E!Reading, eListing, ePages, eStayed, eLost, eGrown>> /\ eCould' = E!Readable
  BY DEF E!AskDetail, E!Accepted
<1>2. E!Readable' = E!Readable /\ E!ListedNow' = E!ListedNow /\ E!Readable \subseteq EJobs
  BY <1>1, Unmoved DEF E!Reading, E!Readable
<1>3. SentHistoryTyped'
  BY <1>1, <1>2 DEF SentHistoryIInv, SentHistoryTyped, E!Reading
<1>4. SentHistoryRequested'
  <2>1. DOMAIN eRequest' = SentHistoryFields
    BY <1>1 DEF SentHistoryFields
  <2>2. DOMAIN eRequest'.names = {}
    BY <1>1
  <2> QED
    BY <1>1, <1>2, <2>1, <2>2 DEF SentHistoryRequested
<1>5. ~RowsRead'
  BY <1>1 DEF RowsRead
<1> QED
  BY <1>1, <1>3, <1>4, <1>5, NoRows DEF SentHistoryIInv

LEMMA KeepsReadJob ==
  ASSUME SentHistoryAssumption, SentHistoryIInv, E!ReadJob
  PROVE  SentHistoryIInv'
<1>1. eRequest # None /\ eRequest.kind = "detail" /\ UNCHANGED <<E!Reading, eListing, ePages, eCould, eStayed, eLost, eGrown>>
  BY DEF E!ReadJob, E!Step
<1>2. E!Readable' = E!Readable /\ E!ListedNow' = E!ListedNow /\ E!Readable \subseteq EJobs
  BY <1>1, Unmoved DEF E!Reading, E!Readable
<1>3. SentHistoryTyped'
  BY <1>1, <1>2 DEF SentHistoryIInv, SentHistoryTyped, E!Reading
<1>4. CASE eRequest.job \in E!Readable
  <2>1. eRequest' = [[eRequest EXCEPT !.rows = {eRequest.job}] EXCEPT !.step = "names"]
    BY <1>4 DEF E!ReadJob, E!Step
  <2>2. DOMAIN eRequest = SentHistoryFields
    BY <1>1 DEF SentHistoryIInv, SentHistoryRequested
  <2>3. /\ DOMAIN eRequest' = SentHistoryFields /\ eRequest'.kind = eRequest.kind /\ eRequest'.step = "names"
        /\ eRequest'.rows = {eRequest.job} /\ eRequest'.more = eRequest.more /\ eRequest'.total = eRequest.total
        /\ eRequest'.names = eRequest.names
    BY <2>1, <2>2 DEF SentHistoryFields
  <2>4. SentHistoryRequested'
    BY <1>1, <1>2, <1>4, <2>3 DEF SentHistoryIInv, SentHistoryRequested
  <2>5. ~RowsRead'
    BY <1>1, <2>3 DEF RowsRead
  <2> QED
    BY <1>1, <1>3, <2>4, <2>5, NoRows DEF SentHistoryIInv
<1>5. CASE eRequest.job \notin E!Readable
  <2>1. eRequest' = None
    BY <1>5 DEF E!ReadJob
  <2>2. SentHistoryRequested' /\ ~RowsRead'
    BY <2>1 DEF SentHistoryRequested, RowsRead
  <2> QED
    BY <1>1, <1>3, <2>2, NoRows DEF SentHistoryIInv
<1> QED
  BY <1>4, <1>5

LEMMA KeepsAnswerDetail ==
  ASSUME SentHistoryAssumption, SentHistoryIInv, E!AnswerDetail
  PROVE  SentHistoryIInv'
<1>1. UNCHANGED <<E!Reading, eListing, ePages, eCould, eStayed, eLost, eGrown>> /\ eRequest' = None
  BY DEF E!AnswerDetail
<1>2. E!ListedNow' = E!ListedNow
  BY <1>1, Unmoved DEF E!Reading
<1>3. SentHistoryTyped'
  BY <1>1, <1>2 DEF SentHistoryIInv, SentHistoryTyped, E!Reading
<1>4. SentHistoryRequested' /\ ~RowsRead'
  BY <1>1 DEF SentHistoryRequested, RowsRead
<1> QED
  BY <1>1, <1>3, <1>4, NoRows DEF SentHistoryIInv

LEMMA KeepsReadTotal ==
  ASSUME SentHistoryAssumption, SentHistoryIInv, E!ReadTotal
  PROVE  SentHistoryIInv'
<1>1. /\ eRequest # None /\ eRequest.step = "total"
      /\ eRequest' = [[eRequest EXCEPT !.total = Cardinality(E!Listed(eListing))] EXCEPT !.step = "names"]
      /\ UNCHANGED <<E!Reading, eListing, ePages, eCould, eStayed, eLost, eGrown>>
  BY ECardinality DEF E!ReadTotal, E!Step
<1>2. /\ DOMAIN eRequest' = SentHistoryFields /\ eRequest'.step = "names" /\ eRequest'.total = Cardinality(E!Listed(eListing))
      /\ eRequest'.kind = eRequest.kind /\ eRequest'.page = eRequest.page
      /\ eRequest'.rows = eRequest.rows /\ eRequest'.more = eRequest.more
      /\ eRequest'.names = eRequest.names /\ eRequest'.quiet = eRequest.quiet
  <2>1. DOMAIN eRequest = SentHistoryFields
    BY <1>1 DEF SentHistoryIInv, SentHistoryRequested
  <2> QED
    BY <1>1, <2>1 DEF SentHistoryFields
<1>3. /\ E!Readable' = E!Readable /\ E!ListedNow' = E!ListedNow
      /\ \A j : E!NameOf(j)' = E!NameOf(j) /\ (Match(j)' <=> Match(j)) /\ Newer(j)' = Newer(j)
  BY <1>1, Unmoved DEF E!Reading
<1>4. SentHistoryTyped'
  BY <1>1, <1>3 DEF SentHistoryIInv, SentHistoryTyped, E!Reading
<1>5. E!Listed(eListing) \in SUBSET EJobs /\ Cardinality(E!Listed(eListing)) \in Nat
  <2>1. E!Listed(eListing) \in SUBSET EJobs
    BY DEF E!Listed, E!Readable
  <2> QED
    BY <2>1, AboveIs
<1>6. SentHistoryRequested'
  BY <1>1, <1>2, <1>3, <1>5 DEF SentHistoryIInv, SentHistoryRequested
<1>7. CASE eRequest'.kind = "list"
  <2>1. RowsRead /\ (RowsRead' <=> eRequest' # None) /\ (eRequest' # None => RowsRead') /\ eListing \in E!Listings /\ eListing # None
    BY <1>1, <1>2, <1>7 DEF RowsRead, SentHistoryIInv, SentHistoryRequested, SentHistoryAssumption
  <2>2. Agreeing'
    BY <1>2 DEF Agreeing
  <2>3. E!StatementsAgree'
    <3> SUFFICES ASSUME eRequest' # None, eRequest'.quiet, ~eListing.search
                 PROVE  eRequest'.more = (E!Offset(eRequest'.page) + Cardinality(eRequest'.rows) < eRequest'.total)
      BY <1>1, ECardinality DEF E!StatementsAgree, E!Offset
    <3>1. /\ eRequest.rows = E!Rows(E!ListedNow, E!Offset(eRequest.page), EPageSize)
          /\ eRequest.more = (Cardinality(E!ListedNow) > E!Offset(eRequest.page) + EPageSize)
      BY <1>1, <1>2, <2>1 DEF SentHistoryIInv, Agreeing
    <3>2. E!ListedNow = E!Listed(eListing)
      BY <2>1 DEF E!ListedNow
    <3>3. E!Offset(eRequest.page) \in Nat
      <4>1. Len(ePages) \in Nat /\ eRequest.page = Len(ePages) + 1
        BY <1>1, <1>2, <1>7, Within DEF SentHistoryIInv, SentHistoryRequested
      <4> QED
        BY <4>1, PagesInTurn
    <3>4. EPageSize \in Nat
      BY DEF SentHistoryAssumption
    <3> QED
      BY <1>2, <1>5, <3>1, <3>2, <3>3, <3>4, RowsCount
  <2>4. E!Seen' = E!Seen /\ (E!ReadToEnd' <=> E!ReadToEnd) /\ Hits' = Hits /\ (Begun' => Begun)
    BY <1>1, <1>3, <2>1 DEF E!Seen, E!ReadToEnd, Hits, Begun
  <2>5. Pushed'
    BY <1>1, <1>2, <1>3, <2>1, <2>4 DEF SentHistoryIInv, Pushed
  <2>6. Searched'
    BY <1>1, <1>2, <1>3, <2>1, <2>4 DEF SentHistoryIInv, Searched
  <2>7. Pulled'
    <3>1. \A j : {k \in eRequest'.rows : k > j /\ Match(k)'} = {k \in eRequest.rows : k > j /\ Match(k)}
      BY <1>2, <1>3
    <3> QED
      BY <1>1, <1>2, <1>3, <2>1, <3>1 DEF SentHistoryIInv, Pulled
  <2>8. E!RepeatedOnlyAfterGrowth'
    BY <1>1 DEF SentHistoryIInv, E!RepeatedOnlyAfterGrowth
  <2> QED
    BY <1>4, <1>6, <2>2, <2>3, <2>5, <2>6, <2>7, <2>8 DEF SentHistoryIInv
<1>8. CASE eRequest'.kind # "list"
  <2>1. ~RowsRead'
    BY <1>8 DEF RowsRead
  <2> QED
    BY <1>1, <1>4, <1>6, <2>1, NoRows DEF SentHistoryIInv
<1> QED
  BY <1>7, <1>8

LEMMA KeepsReadJobs ==
  ASSUME SentHistoryAssumption, SentHistoryIInv, E!ReadJobs
  PROVE  SentHistoryIInv'
<1> DEFINE limit == IF eListing.search THEN ECap ELSE EPageSize
           from == IF eListing.search THEN 0 ELSE E!Offset(eRequest.page)
           L == E!ListedNow
<1>1. /\ eRequest # None /\ eRequest.kind = "list" /\ eRequest.step = "jobs"
      /\ eRequest' = [[eRequest EXCEPT !.rows = E!Rows(E!Listed(eListing), from, limit),
                                       !.more = Cardinality(E!Listed(eListing)) > from + limit] EXCEPT !.step = "total"]
      /\ UNCHANGED <<E!Reading, eListing, ePages, eCould>>
      /\ eStayed' = IF ePages = <<>> THEN E!Listed(eListing) ELSE eStayed
      /\ eLost' = (IF ePages = <<>> THEN FALSE ELSE eLost)
      /\ eGrown' = (IF ePages = <<>> THEN FALSE ELSE eGrown)
  BY ECardinality DEF E!ReadJobs, E!Step
<1>2. eListing \in E!Listings /\ eListing # None /\ L = E!Listed(eListing) /\ eRequest.page = Len(ePages) + 1 /\ DOMAIN eRequest = SentHistoryFields
  BY <1>1 DEF SentHistoryIInv, SentHistoryRequested, SentHistoryAssumption, E!ListedNow
<1>3. /\ DOMAIN eRequest' = SentHistoryFields /\ eRequest'.step = "total" /\ eRequest'.kind = "list"
      /\ eRequest'.page = eRequest.page /\ eRequest'.total = eRequest.total
      /\ eRequest'.names = eRequest.names /\ eRequest'.quiet = eRequest.quiet
      /\ eRequest'.rows = E!Rows(L, from, limit) /\ eRequest'.more = (Cardinality(L) > from + limit)
  BY <1>1, <1>2 DEF SentHistoryFields
<1>4. /\ E!Readable' = E!Readable /\ L' = L
      /\ \A j : E!NameOf(j)' = E!NameOf(j) /\ (Match(j)' <=> Match(j)) /\ Newer(j)' = Newer(j)
  BY <1>1, Unmoved DEF E!Reading
<1>5. /\ L \in SUBSET EJobs /\ L \subseteq E!Readable /\ Len(ePages) \in Nat
      /\ \A p \in 1..Len(ePages) : ePages[p].items \in SUBSET EJobs
      /\ \A j : Newer(j) \in SUBSET L
  BY Within DEF SentHistoryIInv
<1>6. /\ EPageSize \in Nat /\ ECap \in Nat /\ Cardinality(L) \in Nat
      /\ E!Offset(eRequest.page) \in Nat /\ E!Offset(eRequest.page) + EPageSize = eRequest.page * EPageSize
      /\ E!Offset(eRequest.page) = Len(ePages) * EPageSize /\ Len(ePages) * EPageSize \in Nat
  BY <1>2, <1>5, PagesInTurn, AboveIs DEF SentHistoryAssumption, E!Offset
<1>7. from \in Nat /\ limit \in Nat
  BY <1>6
<1>8. /\ eRequest'.rows \subseteq L
      /\ \A j \in L : Cardinality(E!Above(j, L)) \in Nat /\ Cardinality(E!Above(j, L)) < Cardinality(L)
  BY <1>3, <1>5, <1>7, RowsBounded, AboveIs
<1>9. ePages = <<>> => 1..Len(ePages) = {} /\ Len(ePages) * EPageSize = 0
  BY <1>6
<1> HIDE DEF L
<1>10. eStayed' \subseteq L /\ (ePages = <<>> => eStayed' = L /\ eLost' = FALSE /\ eGrown' = FALSE)
       /\ (ePages # <<>> => eStayed' = eStayed /\ eLost' = eLost /\ eGrown' = eGrown) /\ eStayed \subseteq L
  BY <1>1, <1>2 DEF SentHistoryIInv, SentHistoryTyped, L
<1>11. SentHistoryTyped'
  BY <1>1, <1>4, <1>10 DEF SentHistoryIInv, SentHistoryTyped, E!Reading, L
<1>12. SentHistoryRequested'
  <2>1. eRequest'.rows \subseteq eCould
    BY <1>1, <1>5, <1>8 DEF SentHistoryIInv, SentHistoryRequested
  <2>2. eRequest'.more \in BOOLEAN
    BY <1>3
  <2> QED
    BY <1>1, <1>2, <1>3, <1>4, <2>1, <2>2 DEF SentHistoryIInv, SentHistoryRequested
<1>13. Agreeing' /\ E!StatementsAgree'
  <2>1. Agreeing'
    BY <1>1, <1>3, <1>4 DEF Agreeing, L, E!Offset
  <2> QED
    BY <1>3, <2>1, ECardinality DEF E!StatementsAgree
<1>14. E!Seen' = E!Seen /\ (E!ReadToEnd' <=> E!ReadToEnd) /\ (ePages = <<>> => ~E!ReadToEnd)
  BY <1>1 DEF E!Seen, E!ReadToEnd
<1>15. Pushed'
  <2> SUFFICES ASSUME ~eLost', ~eListing.search
               PROVE  /\ \A j \in eStayed' : Cardinality(E!Above(j, L)) < Len(ePages) * EPageSize => j \in E!Seen
                      /\ \A j \in eStayed' : Cardinality(E!Above(j, L)) < eRequest.page * EPageSize \/ ~eRequest'.more
                            => j \in E!Seen \cup eRequest'.rows
                      /\ E!ReadToEnd => eStayed' \subseteq E!Seen
    BY <1>1, <1>2, <1>3, <1>4, <1>14 DEF Pushed, L
  <2>1. \A j \in eStayed' : Cardinality(E!Above(j, L)) < Len(ePages) * EPageSize => j \in E!Seen
    <3>1. CASE ePages = <<>>
      BY <3>1, <1>8, <1>9, <1>10
    <3>2. CASE ePages # <<>>
      BY <3>2, <1>2, <1>10 DEF SentHistoryIInv, Pushed, L
    <3> QED
      BY <3>1, <3>2
  <2>2. ASSUME NEW j \in eStayed', Cardinality(E!Above(j, L)) < eRequest.page * EPageSize \/ ~eRequest'.more
        PROVE  j \in E!Seen \cup eRequest'.rows
    <3>1. j \in L /\ Cardinality(E!Above(j, L)) \in Nat /\ Cardinality(E!Above(j, L)) < Cardinality(L)
      BY <1>8, <1>10
    <3>2. from = E!Offset(eRequest.page) /\ limit = EPageSize
      OBVIOUS
    <3>3. Cardinality(E!Above(j, L)) < E!Offset(eRequest.page) + EPageSize
      <4>1. ~eRequest'.more => ~(Cardinality(L) > E!Offset(eRequest.page) + EPageSize)
        BY <1>3, <3>2
      <4> QED
        BY <1>6, <2>2, <3>1, <4>1
    <3>4. CASE Cardinality(E!Above(j, L)) < E!Offset(eRequest.page)
      BY <1>6, <2>1, <3>4
    <3>5. CASE Cardinality(E!Above(j, L)) >= E!Offset(eRequest.page)
      BY <1>3, <1>6, <3>1, <3>2, <3>3, <3>5, ECardinality DEF E!Rows
    <3> QED
      BY <1>6, <3>1, <3>4, <3>5
  <2>3. E!ReadToEnd => eStayed' \subseteq E!Seen
    BY <1>2, <1>10, <1>14 DEF SentHistoryIInv, Pushed
  <2> QED
    BY <2>1, <2>2, <2>3
<1>16. Searched'
  <2> SUFFICES ASSUME ~eLost', ~eGrown', eListing.search
               PROVE  /\ eStayed' = L
                      /\ \A p \in 1..Len(ePages) :
                           /\ ePages[p].items = E!Rows(Hits', E!Offset(p), EPageSize)
                           /\ ePages[p].more = (Cardinality(Hits') > p * EPageSize)
                      /\ eRequest'.rows = E!Rows(eStayed', 0, ECap)
    BY <1>1, <1>2, <1>3, <1>4 DEF Searched, L, E!Offset
  <2>1. eStayed' = L
    BY <1>2, <1>10 DEF SentHistoryIInv, Searched, L, Begun
  <2>2. ePages # <<>> => Hits' = Hits
    BY <1>4, <1>10 DEF Hits
  <2>3. \A p \in 1..Len(ePages) :
          /\ ePages[p].items = E!Rows(Hits', E!Offset(p), EPageSize)
          /\ ePages[p].more = (Cardinality(Hits') > p * EPageSize)
    BY <1>2, <1>9, <1>10, <2>2 DEF SentHistoryIInv, Searched, Begun
  <2> QED
    BY <1>3, <2>1, <2>3
<1>17. Pulled'
  <2> SUFFICES ASSUME ~eGrown'
               PROVE  /\ \A p \in 1..Len(ePages), j \in EJobs : j \in ePages[p].items => Cardinality(Newer(j)) < p * EPageSize
                      /\ ~eListing.search =>
                           \A j \in eRequest'.rows :
                             /\ Cardinality(E!Above(j, L)) < eRequest.page * EPageSize
                             /\ \A p \in 1..Len(ePages) : j \notin ePages[p].items
                      /\ eListing.search =>
                           /\ \A j \in eRequest'.rows : E!Above(j, L) \subseteq eRequest'.rows
                           /\ \A p \in 1..Len(ePages), j \in EJobs :
                                j \in ePages[p].items => Cardinality({k \in eRequest'.rows : k > j /\ Match(k)}) < p * EPageSize
    BY <1>1, <1>3, <1>4 DEF Pulled, L
  <2>1. \A p \in 1..Len(ePages), j \in EJobs : j \in ePages[p].items => Cardinality(Newer(j)) < p * EPageSize
    <3>1. CASE ePages = <<>>
      BY <3>1, <1>9
    <3>2. CASE ePages # <<>>
      BY <3>2, <1>2, <1>10 DEF SentHistoryIInv, Pulled
    <3> QED
      BY <3>1, <3>2
  <2>2. ASSUME ~eListing.search, NEW j \in eRequest'.rows
        PROVE  /\ Cardinality(E!Above(j, L)) < eRequest.page * EPageSize
               /\ \A p \in 1..Len(ePages) : j \notin ePages[p].items
    <3>1. from = E!Offset(eRequest.page) /\ limit = EPageSize
      BY <2>2
    <3>2. Cardinality(E!Above(j, L)) \in E!Offset(eRequest.page)..(E!Offset(eRequest.page) + EPageSize - 1) /\ j \in L
      BY <1>3, <2>2, <3>1, ECardinality DEF E!Rows
    <3>3. Newer(j) = E!Above(j, L)
      BY <2>2 DEF Newer, Match, E!Above, L
    <3>4. ASSUME NEW p \in 1..Len(ePages), j \in ePages[p].items
          PROVE  FALSE
      <4>1. Cardinality(E!Above(j, L)) < p * EPageSize
        BY <1>5, <2>1, <3>2, <3>3, <3>4
      <4>2. p * EPageSize <= Len(ePages) * EPageSize /\ p * EPageSize \in Nat
        BY <1>5, PagesInTurn
      <4> QED
        BY ONLY <1>6, <3>2, <4>1, <4>2
    <3>5. Cardinality(E!Above(j, L)) < eRequest.page * EPageSize
      BY ONLY <1>6, <3>2
    <3> QED
      BY ONLY <3>4, <3>5
  <2>3. ASSUME eListing.search
        PROVE  /\ \A j \in eRequest'.rows : E!Above(j, L) \subseteq eRequest'.rows
               /\ \A p \in 1..Len(ePages), j \in EJobs :
                    j \in ePages[p].items => Cardinality({k \in eRequest'.rows : k > j /\ Match(k)}) < p * EPageSize
    <3>1. eRequest'.rows = E!Rows(L, 0, ECap)
      BY <1>3, <2>3
    <3>2. \A j \in eRequest'.rows : E!Above(j, L) \subseteq eRequest'.rows
      BY <1>5, <1>6, <3>1, RowsClosed
    <3>3. ASSUME NEW p \in 1..Len(ePages), NEW j \in EJobs, j \in ePages[p].items
          PROVE  Cardinality({k \in eRequest'.rows : k > j /\ Match(k)}) < p * EPageSize
      <4>1. {k \in eRequest'.rows : k > j /\ Match(k)} \subseteq Newer(j) /\ Newer(j) \in SUBSET EJobs
        BY <1>5, <1>8 DEF Newer, L
      <4>2. Cardinality({k \in eRequest'.rows : k > j /\ Match(k)}) <= Cardinality(Newer(j))
            /\ Cardinality({k \in eRequest'.rows : k > j /\ Match(k)}) \in Nat /\ Cardinality(Newer(j)) \in Nat
        BY <4>1, FewerOf
      <4>3. Cardinality(Newer(j)) < p * EPageSize /\ p * EPageSize \in Nat
        <5>1. p \in Nat
          BY <1>5
        <5> QED
          BY <2>1, <3>3, <5>1, PagesInTurn
      <4> QED
        BY <4>2, <4>3
    <3> QED
      BY <3>2, <3>3
  <2> QED
    BY <2>1, <2>2, <2>3
<1>18. E!RepeatedOnlyAfterGrowth'
  <2>1. CASE ePages = <<>>
    BY <2>1, <1>1, <1>9 DEF E!RepeatedOnlyAfterGrowth
  <2>2. CASE ePages # <<>>
    BY <2>2, <1>1, <1>10 DEF SentHistoryIInv, E!RepeatedOnlyAfterGrowth
  <2> QED
    BY <2>1, <2>2
<1> QED
  BY <1>11, <1>12, <1>13, <1>15, <1>16, <1>17, <1>18 DEF SentHistoryIInv

LEMMA KeepsReadNames ==
  ASSUME SentHistoryAssumption, SentHistoryIInv, E!ReadNames
  PROVE  SentHistoryIInv'
<1>1. /\ eRequest # None /\ eRequest.step = "names"
      /\ eRequest' = [[eRequest EXCEPT !.names = [j \in eRequest.rows |-> E!NameOf(j)]] EXCEPT !.step = "answer"]
      /\ UNCHANGED <<E!Reading, eListing, ePages, eCould, eStayed, eLost, eGrown>>
  BY DEF E!ReadNames, E!Step
<1>2. /\ DOMAIN eRequest' = SentHistoryFields /\ eRequest'.step = "answer" /\ eRequest'.total = eRequest.total
      /\ eRequest'.kind = eRequest.kind /\ eRequest'.page = eRequest.page
      /\ eRequest'.rows = eRequest.rows /\ eRequest'.more = eRequest.more
      /\ eRequest'.names = [j \in eRequest.rows |-> E!NameOf(j)] /\ eRequest'.quiet = eRequest.quiet
  <2>1. DOMAIN eRequest = SentHistoryFields
    BY <1>1 DEF SentHistoryIInv, SentHistoryRequested
  <2> QED
    BY <1>1, <2>1 DEF SentHistoryFields
<1>3. /\ E!Readable' = E!Readable /\ E!ListedNow' = E!ListedNow
      /\ \A j : E!NameOf(j)' = E!NameOf(j) /\ (Match(j)' <=> Match(j)) /\ Newer(j)' = Newer(j)
  BY <1>1, Unmoved DEF E!Reading
<1>4. SentHistoryTyped'
  BY <1>1, <1>3 DEF SentHistoryIInv, SentHistoryTyped, E!Reading
<1>5. SentHistoryRequested'
  <2>1. \A j : E!NameOf(j) \in {None, OwnName(j)}
    BY DEF E!NameOf, OwnName
  <2> QED
    BY <1>1, <1>2, <1>3, <2>1 DEF SentHistoryIInv, SentHistoryRequested, OwnName
<1>6. CASE eRequest'.kind = "list"
  <2>1. RowsRead /\ (eRequest' # None => RowsRead') /\ eListing \in E!Listings /\ eListing # None
    BY <1>1, <1>2, <1>6 DEF RowsRead, SentHistoryIInv, SentHistoryRequested, SentHistoryAssumption
  <2>2. Agreeing' /\ E!StatementsAgree'
    BY <1>1, <1>2, ECardinality DEF SentHistoryIInv, Agreeing, E!StatementsAgree, E!Offset
  <2>3. E!Seen' = E!Seen /\ (E!ReadToEnd' <=> E!ReadToEnd) /\ Hits' = Hits /\ (Begun' => Begun)
    BY <1>1, <1>3, <2>1 DEF E!Seen, E!ReadToEnd, Hits, Begun
  <2>4. Pushed'
    BY <1>1, <1>2, <1>3, <2>1, <2>3 DEF SentHistoryIInv, Pushed
  <2>5. Searched'
    BY <1>1, <1>2, <1>3, <2>1, <2>3 DEF SentHistoryIInv, Searched
  <2>6. eListing.search => E!Found' = {k \in eRequest.rows : Match(k)}
    BY <1>1, <1>2 DEF E!Found, Match
  <2>7. eListing.search => \A j : E!Above(j, E!Found') = {k \in eRequest.rows : k > j /\ Match(k)}
    BY <2>6 DEF E!Above
  <2>8. Pulled'
    <3> SUFFICES ASSUME ~eGrown
                 PROVE  /\ \A p \in 1..Len(ePages), j \in EJobs : j \in ePages[p].items => Cardinality(Newer(j)) < p * EPageSize
                        /\ ~eListing.search =>
                             \A j \in eRequest.rows :
                               /\ Cardinality(E!Above(j, E!ListedNow)) < eRequest.page * EPageSize
                               /\ \A p \in 1..Len(ePages) : j \notin ePages[p].items
                        /\ eListing.search =>
                             /\ \A j \in eRequest.rows : E!Above(j, E!ListedNow) \subseteq eRequest.rows
                             /\ \A k \in eRequest.rows : E!NameOf(k) # None => eRequest'.names[k] # None
                             /\ \A p \in 1..Len(ePages), j \in EJobs :
                                  j \in ePages[p].items => Cardinality(E!Above(j, E!Found')) < p * EPageSize
      BY <1>1, <1>2, <1>3 DEF Pulled
    <3>1. \A k \in eRequest.rows : E!NameOf(k) # None => eRequest'.names[k] # None
      BY <1>2
    <3> QED
      BY <1>1, <2>1, <2>7, <3>1 DEF SentHistoryIInv, Pulled
  <2>9. E!RepeatedOnlyAfterGrowth'
    BY <1>1 DEF SentHistoryIInv, E!RepeatedOnlyAfterGrowth
  <2> QED
    BY <1>4, <1>5, <2>2, <2>4, <2>5, <2>8, <2>9 DEF SentHistoryIInv
<1>7. CASE eRequest'.kind # "list"
  <2>1. ~RowsRead'
    BY <1>7 DEF RowsRead
  <2> QED
    BY <1>1, <1>4, <1>5, <2>1, NoRows DEF SentHistoryIInv
<1> QED
  BY <1>6, <1>7

LEMMA KeepsAnswerList ==
  ASSUME SentHistoryAssumption, SentHistoryIInv, E!AnswerList
  PROVE  SentHistoryIInv'
<1> DEFINE from == E!Offset(eRequest.page)
           n == Len(ePages)
           x == IF eListing.search
                THEN [items |-> E!Rows(E!Found, from, EPageSize), more |-> Cardinality(E!Found) > from + EPageSize, total |-> Cardinality(E!Found)]
                ELSE [items |-> eRequest.rows, more |-> eRequest.more, total |-> eRequest.total]
<1>1. /\ eRequest # None /\ eRequest.step = "answer" /\ eRequest.kind = "list" /\ eRequest' = None
      /\ ePages' = Append(ePages, x) /\ UNCHANGED <<E!Reading, eListing, eCould, eStayed, eLost, eGrown>>
  BY ECardinality DEF E!AnswerList
<1>2. /\ eListing \in E!Listings /\ eListing # None /\ RowsRead /\ Begun /\ ~RowsRead'
      /\ eRequest.page = n + 1 /\ n \in Nat
  BY <1>1, Within DEF SentHistoryIInv, SentHistoryRequested, SentHistoryAssumption, RowsRead, Begun
<1>3. /\ E!Readable' = E!Readable /\ E!ListedNow' = E!ListedNow
      /\ \A j : E!NameOf(j)' = E!NameOf(j) /\ (Match(j)' <=> Match(j)) /\ Newer(j)' = Newer(j)
  BY <1>1, Unmoved DEF E!Reading
<1>4. /\ eRequest.rows \in SUBSET EJobs /\ E!Found \in SUBSET eRequest.rows /\ E!Found \in SUBSET EJobs /\ E!ListedNow \in SUBSET EJobs
      /\ Cardinality(E!Found) \in Nat /\ eRequest.more \in BOOLEAN /\ eRequest.total \in Nat
  <2>1. eRequest.rows \in SUBSET EJobs /\ eRequest.more \in BOOLEAN /\ eRequest.total \in Nat
    BY <1>1 DEF SentHistoryIInv, SentHistoryRequested, SentHistoryTyped
  <2>2. E!Found \in SUBSET eRequest.rows
    BY DEF E!Found
  <2>3. E!Found \in SUBSET EJobs
    BY <2>1, <2>2
  <2> QED
    BY <2>1, <2>2, <2>3, AboveIs, Within DEF SentHistoryIInv
<1>5. from \in Nat /\ from + EPageSize = (n + 1) * EPageSize /\ from = n * EPageSize /\ EPageSize \in Nat /\ (n + 1) * EPageSize \in Nat
  <2>1. n + 1 \in Nat /\ n + 1 > 0 /\ (n + 1) - 1 = n
    BY <1>2
  <2>2. E!Offset(n + 1) \in Nat /\ E!Offset(n + 1) + EPageSize = (n + 1) * EPageSize
    BY <2>1, PagesInTurn
  <2> QED
    BY <1>2, <2>1, <2>2 DEF E!Offset, SentHistoryAssumption
<1>6. x \in Page /\ x.items \subseteq eRequest.rows
  <2>1. CASE eListing.search
    <3>1. E!Rows(E!Found, from, EPageSize) \subseteq E!Found
      BY ECardinality DEF E!Rows
    <3>2. (Cardinality(E!Found) > from + EPageSize) \in BOOLEAN
      OBVIOUS
    <3>3. /\ x.items = E!Rows(E!Found, from, EPageSize) /\ x.total = Cardinality(E!Found)
          /\ x = [items |-> E!Rows(E!Found, from, EPageSize), more |-> Cardinality(E!Found) > from + EPageSize, total |-> Cardinality(E!Found)]
      BY <2>1
    <3> QED
      BY <1>4, <3>1, <3>2, <3>3 DEF Page
  <2>2. CASE ~eListing.search
    BY <1>4, <2>2 DEF Page
  <2> QED
    BY <2>1, <2>2
<1>7. /\ ePages \in Seq(Page) /\ ePages' \in Seq(Page) /\ Len(ePages') = n + 1
      /\ ePages'[n + 1] = x /\ \A p \in 1..n : ePages'[p] = ePages[p]
  BY <1>1, <1>6 DEF SentHistoryIInv, SentHistoryTyped
<1>8. E!Seen' = E!Seen \cup x.items /\ (E!ReadToEnd' => ~x.more) /\ ePages' # <<>>
  <2>1. 1..(n + 1) = 1..n \cup {n + 1}
    BY <1>2
  <2>2. \A j : j \in E!Seen' <=> \E p \in 1..(n + 1) : j \in ePages'[p].items
    BY <1>7 DEF E!Seen
  <2>3. \A j : j \in E!Seen <=> \E p \in 1..n : j \in ePages[p].items
    BY DEF E!Seen
  <2>4. E!Seen' = E!Seen \cup x.items
    <3> HIDE DEF x, n
    <3> QED
      BY <1>7, <2>1, <2>2, <2>3
  <2>5. E!ReadToEnd' => ~x.more
    BY <1>7 DEF E!ReadToEnd
  <2>6. ePages' # <<>>
    BY <1>2, <1>7
  <2> QED
    BY <2>4, <2>5, <2>6
<1>9. /\ eListing.search => x.items = E!Rows(E!Found, from, EPageSize) /\ x.more = (Cardinality(E!Found) > from + EPageSize)
      /\ ~eListing.search => x.items = eRequest.rows /\ x.more = eRequest.more
  OBVIOUS
<1> HIDE DEF x, n, from
<1>10. SentHistoryTyped'
  BY <1>1, <1>2, <1>3, <1>7 DEF SentHistoryIInv, SentHistoryTyped, E!Reading
<1>11. SentHistoryRequested' /\ Agreeing' /\ E!StatementsAgree'
  BY <1>1, <1>2, ECardinality DEF SentHistoryRequested, Agreeing, E!StatementsAgree
<1>12. Pushed'
  <2> SUFFICES ASSUME ~eLost, ~eListing.search
               PROVE  /\ \A j \in eStayed : Cardinality(E!Above(j, E!ListedNow)) < (n + 1) * EPageSize => j \in E!Seen'
                      /\ E!ReadToEnd' => eStayed \subseteq E!Seen'
    BY <1>1, <1>2, <1>3, <1>7 DEF Pushed
  <2>1. \A j \in eStayed : Cardinality(E!Above(j, E!ListedNow)) < (n + 1) * EPageSize \/ ~eRequest.more => j \in E!Seen \cup eRequest.rows
    BY <1>2 DEF SentHistoryIInv, Pushed
  <2> QED
    BY <1>8, <1>9, <2>1
<1>13. Searched'
  <2> SUFFICES ASSUME ~eLost, ~eGrown, eListing.search
               PROVE  /\ eStayed = E!ListedNow
                      /\ \A p \in 1..(n + 1) :
                           /\ ePages'[p].items = E!Rows(Hits, E!Offset(p), EPageSize)
                           /\ ePages'[p].more = (Cardinality(Hits) > p * EPageSize)
    <3>1. Hits' = Hits
      BY <1>1, <1>3 DEF Hits
    <3>2. \A p : E!Offset(p)' = E!Offset(p)
      BY DEF E!Offset
    <3> QED
      BY <1>1, <1>2, <1>3, <1>7, <3>1, <3>2 DEF Searched
  <2>1. /\ eStayed = E!ListedNow
        /\ \A p \in 1..n :
             /\ ePages[p].items = E!Rows(Hits, E!Offset(p), EPageSize)
             /\ ePages[p].more = (Cardinality(Hits) > p * EPageSize)
        /\ eRequest.rows = E!Rows(eStayed, 0, ECap)
        /\ \A j \in eRequest.rows : eRequest.names[j] = E!NameOf(j)
    BY <1>1, <1>2 DEF SentHistoryIInv, Searched, n
  <2>2. E!Found = Hits
    BY <2>1 DEF E!Found, Hits
  <2>3. x.items = E!Rows(Hits, E!Offset(n + 1), EPageSize) /\ x.more = (Cardinality(Hits) > (n + 1) * EPageSize)
    BY <1>2, <1>5, <1>9, <2>2 DEF from
  <2>4. \A p \in 1..(n + 1) : p \in 1..n \/ p = n + 1
    BY <1>2
  <2> QED
    BY <1>7, <2>1, <2>3, <2>4
<1>14. ~eGrown => \A j \in x.items : Cardinality(Newer(j)) < (n + 1) * EPageSize
  <2> SUFFICES ASSUME ~eGrown, NEW j \in x.items PROVE Cardinality(Newer(j)) < (n + 1) * EPageSize
    OBVIOUS
  <2>1. CASE ~eListing.search
    <3>1. Cardinality(E!Above(j, E!ListedNow)) < (n + 1) * EPageSize
      BY <1>2, <1>9, <2>1 DEF SentHistoryIInv, Pulled
    <3>2. Newer(j) = E!Above(j, E!ListedNow)
      BY <2>1 DEF Newer, Match, E!Above
    <3> QED
      BY <3>1, <3>2
  <2>2. CASE eListing.search
    <3>1. /\ E!Above(j, E!ListedNow) \subseteq eRequest.rows
          /\ \A k \in eRequest.rows : E!NameOf(k) # None => eRequest.names[k] # None
      BY <1>1, <1>2, <1>6, <2>2 DEF SentHistoryIInv, Pulled
    <3>2. Newer(j) \subseteq E!Above(j, E!Found)
      BY <2>2, <3>1 DEF Newer, Match, E!Above, E!Found
    <3>3. Cardinality(E!Above(j, E!Found)) \in from..(from + EPageSize - 1)
      BY <1>9, <2>2, ECardinality DEF E!Rows
    <3>4. E!Above(j, E!Found) \in SUBSET EJobs
      BY <1>4, AboveIs
    <3>5. Cardinality(Newer(j)) <= Cardinality(E!Above(j, E!Found)) /\ Cardinality(Newer(j)) \in Nat
      BY <3>2, <3>4, FewerOf
    <3> QED
      BY <1>5, <3>3, <3>5
  <2> QED
    BY <2>1, <2>2
<1>15. Pulled'
  <2> SUFFICES ASSUME ~eGrown
               PROVE  \A p \in 1..(n + 1), j \in EJobs : j \in ePages'[p].items => Cardinality(Newer(j)) < p * EPageSize
    BY <1>1, <1>2, <1>3, <1>7 DEF Pulled
  <2>1. \A p \in 1..n, j \in EJobs : j \in ePages[p].items => Cardinality(Newer(j)) < p * EPageSize
    BY <1>2 DEF SentHistoryIInv, Pulled, n
  <2>2. \A p \in 1..(n + 1) : p \in 1..n \/ p = n + 1
    BY <1>2
  <2> QED
    BY <1>7, <1>14, <2>1, <2>2
<1>16. E!RepeatedOnlyAfterGrowth'
  <2> SUFFICES ASSUME ~eGrown, NEW p \in 1..(n + 1), NEW q \in 1..(n + 1), p < q, NEW j \in ePages'[p].items, j \in ePages'[q].items
               PROVE  FALSE
    BY <1>1, <1>7 DEF E!RepeatedOnlyAfterGrowth
  <2>1. p \in 1..n /\ ePages'[p] = ePages[p] /\ p \in Nat /\ p <= n
    BY <1>2, <1>7
  <2>2. CASE q \in 1..n
    <3>1. ePages[p].items \cap ePages[q].items # {}
      BY <1>7, <2>1, <2>2
    <3> QED
      BY <2>1, <2>2, <3>1 DEF SentHistoryIInv, E!RepeatedOnlyAfterGrowth, n
  <2>3. CASE q = n + 1
    <3>1. j \in x.items /\ j \in ePages[p].items /\ j \in EJobs
      BY <1>4, <1>6, <1>7, <2>1, <2>3
    <3>2. CASE ~eListing.search
      BY <1>2, <1>9, <2>1, <3>1, <3>2 DEF SentHistoryIInv, Pulled, n
    <3>3. CASE eListing.search
      <4>1. Cardinality(E!Above(j, E!Found)) < p * EPageSize
        BY <1>1, <1>2, <2>1, <3>1, <3>3 DEF SentHistoryIInv, Pulled, n
      <4>2. Cardinality(E!Above(j, E!Found)) \in from..(from + EPageSize - 1)
        BY <1>9, <3>1, <3>3, ECardinality DEF E!Rows
      <4>3. p * EPageSize <= n * EPageSize /\ p * EPageSize \in Nat
        BY <1>2, <2>1, PagesInTurn
      <4> QED
        BY <1>5, <4>1, <4>2, <4>3
    <3> QED
      BY <3>2, <3>3
  <2> QED
    BY <1>2, <2>2, <2>3
<1> QED
  BY <1>10, <1>11, <1>12, <1>13, <1>15, <1>16 DEF SentHistoryIInv

-----------------------------------------------------------------------------
(* A change that is no renaming takes names only with the session's jobs.    *)
LEMMA ChangeIs ==
  ASSUME SentHistoryAssumption, SentHistoryIInv, E!Change
  PROVE  /\ eJob' \in [EJobs -> {"scheduled", "cancelled", None}] /\ eGrants' \subseteq E!Sessions
         /\ eRole' \in BOOLEAN /\ eContacts' \subseteq E!Sessions \X E!Phones
         /\ \E named \in BOOLEAN :
              /\ E!Watched(named)
              /\ ~named => /\ eContacts' \subseteq eContacts
                           /\ \A j \in EJobs : OwnName(j) \in eContacts \ eContacts' => eJob'[j] = None
<1> DEFINE Typed2 ==
             /\ eJob' \in [EJobs -> {"scheduled", "cancelled", None}] /\ eGrants' \subseteq E!Sessions
             /\ eRole' \in BOOLEAN /\ eContacts' \subseteq E!Sessions \X E!Phones
           Effect(named) ==
             /\ E!Watched(named)
             /\ ~named => /\ eContacts' \subseteq eContacts
                          /\ \A j \in EJobs : OwnName(j) \in eContacts \ eContacts' => eJob'[j] = None
<1>0. /\ eJob \in [EJobs -> {"scheduled", "cancelled", None}] /\ eGrants \subseteq E!Sessions
      /\ eRole \in BOOLEAN /\ eContacts \subseteq E!Sessions \X E!Phones
  BY DEF SentHistoryIInv, SentHistoryTyped
<1>1. CASE /\ E!Sent \/ \E j \in EJobs : E!Cancelled(j) \/ E!Removed(j)
           /\ UNCHANGED <<eGrants, eRole, eContacts>> /\ E!Watched(FALSE)
  <2>1. eJob' \in [EJobs -> {"scheduled", "cancelled", None}]
    BY <1>0, <1>1, ECardinality DEF E!Sent, E!Cancelled, E!Removed
  <2>2. Effect(FALSE)
    BY <1>1
  <2> HIDE DEF Effect
  <2>3. Typed2
    BY <1>0, <1>1, <2>1
  <2> QED
    BY <2>2, <2>3 DEF Effect
<1>2. ASSUME NEW s \in E!Sessions \ eGrants, eGrants' = eGrants \cup {s}, UNCHANGED <<eJob, eRole, eContacts>>, E!Watched(FALSE)
      PROVE  Typed2 /\ Effect(FALSE)
  BY <1>0, <1>2
<1>3. ASSUME NEW s \in eGrants, E!SessionRemoved(s), UNCHANGED eRole, E!Watched(FALSE)
      PROVE  Typed2 /\ Effect(FALSE)
  <2>1. /\ eJob' = [j \in EJobs |-> IF ESessionOf[j] = s THEN None ELSE eJob[j]]
        /\ eContacts' = {c \in eContacts : c[1] # s} /\ eGrants' = eGrants \ {s}
    BY <1>3 DEF E!SessionRemoved
  <2>2. Typed2
    BY <1>0, <1>3, <2>1
  <2>3. \A j \in EJobs : OwnName(j)[1] = ESessionOf[j]
    BY DEF OwnName
  <2>4. Effect(FALSE)
    BY <1>3, <2>1, <2>3
  <2> QED
    BY <2>2, <2>4
<1>4. ASSUME NEW c \in E!Sessions \X E!Phones, E!Rename(c), UNCHANGED <<eJob, eGrants, eRole>>, E!Watched(TRUE)
      PROVE  Typed2 /\ Effect(TRUE)
  <2>1. eContacts' = eContacts \ {c} \/ eContacts' = eContacts \cup {c}
    BY <1>4 DEF E!Rename
  <2>2. eContacts' \subseteq E!Sessions \X E!Phones
    <3> HIDE DEF E!Sessions, E!Phones
    <3> QED
      BY <1>0, <2>1
  <2> QED
    BY <1>0, <1>4, <2>2
<1>5. CASE eRole /\ eRole' = FALSE /\ UNCHANGED <<eJob, eGrants, eContacts>> /\ E!Watched(FALSE)
  <2>1. Typed2 /\ Effect(FALSE)
    BY <1>0, <1>5
  <2> QED
    BY <2>1
<1> HIDE DEF Typed2, Effect
<1>6. Typed2 /\ \E named \in BOOLEAN : Effect(named)
  BY <1>1, <1>2, <1>3, <1>4, <1>5 DEF E!Change, E!GrantMade, E!LoggedOut, Typed2, Effect
<1> QED
  BY <1>6 DEF Typed2, Effect

LEMMA ChangeDoes ==
  ASSUME SentHistoryAssumption, SentHistoryIInv, E!Change
  PROVE  /\ UNCHANGED <<eListing, ePages>> /\ eCould' = eCould \cup E!Readable' /\ eStayed' = eStayed \cap E!ListedNow'
         /\ eLost' \in BOOLEAN /\ eGrown' \in BOOLEAN
         /\ eRequest' = IF eRequest = None THEN None ELSE [eRequest EXCEPT !.quiet = FALSE]
         /\ ~eLost' => ~eLost /\ E!ListedNow \subseteq E!ListedNow'
         /\ ~eGrown' => /\ ~eGrown /\ E!ListedNow' \subseteq E!ListedNow
                        /\ \A k : E!NameOf(k)' # None => E!NameOf(k) # None
                        /\ ~eLost' => \A k \in E!ListedNow : E!NameOf(k)' = E!NameOf(k)
<1>1. PICK named \in BOOLEAN :
        /\ E!Watched(named)
        /\ ~named => /\ eContacts' \subseteq eContacts
                     /\ \A j \in EJobs : OwnName(j) \in eContacts \ eContacts' => eJob'[j] = None
  BY ChangeIs
<1>2. /\ UNCHANGED <<eListing, ePages>> /\ eCould' = eCould \cup E!Readable' /\ eStayed' = eStayed \cap E!ListedNow'
      /\ eLost' = (eLost \/ E!ListedNow \ E!ListedNow' # {})
      /\ eGrown' = (eGrown \/ named \/ E!ListedNow' \ E!ListedNow # {})
      /\ eRequest' = IF eRequest = None THEN None ELSE [eRequest EXCEPT !.quiet = FALSE]
  BY <1>1 DEF E!Watched
<1>3. eLost \in BOOLEAN /\ eGrown \in BOOLEAN
  BY DEF SentHistoryIInv, SentHistoryTyped
<1>4. ~eLost' => ~eLost /\ E!ListedNow \subseteq E!ListedNow'
  BY <1>2
<1>5. ~eGrown' => ~eGrown /\ ~named /\ E!ListedNow' \subseteq E!ListedNow
  BY <1>2
<1>6. ~eGrown' => \A k : E!NameOf(k)' # None => E!NameOf(k) # None
  BY <1>1, <1>5 DEF E!NameOf
<1>7. ASSUME ~eGrown', ~eLost', NEW k \in E!ListedNow
      PROVE  E!NameOf(k)' = E!NameOf(k)
  <2>1. k \in E!ListedNow' /\ eContacts' \subseteq eContacts /\ (OwnName(k) \in eContacts \ eContacts' => eJob'[k] = None)
    <3>1. k \in EJobs
      BY Within DEF SentHistoryIInv
    <3> QED
      BY <1>1, <1>4, <1>5, <1>7, <3>1
  <2>2. eJob'[k] # None
    BY <2>1 DEF E!ListedNow, E!Listed, E!Readable
  <2> QED
    BY <2>1, <2>2 DEF E!NameOf, OwnName
<1>8. eLost' \in BOOLEAN /\ eGrown' \in BOOLEAN
  BY <1>2
<1> QED
  BY <1>2, <1>4, <1>5, <1>6, <1>7, <1>8

LEMMA KeepsChange ==
  ASSUME SentHistoryAssumption, SentHistoryIInv, E!Change
  PROVE  SentHistoryIInv'
<1>1. /\ UNCHANGED <<eListing, ePages>> /\ eCould' = eCould \cup E!Readable' /\ eStayed' = eStayed \cap E!ListedNow'
      /\ eLost' \in BOOLEAN /\ eGrown' \in BOOLEAN
      /\ eRequest' = IF eRequest = None THEN None ELSE [eRequest EXCEPT !.quiet = FALSE]
      /\ ~eLost' => ~eLost /\ E!ListedNow \subseteq E!ListedNow'
      /\ ~eGrown' => /\ ~eGrown /\ E!ListedNow' \subseteq E!ListedNow
                     /\ \A k : E!NameOf(k)' # None => E!NameOf(k) # None
                     /\ ~eLost' => \A k \in E!ListedNow : E!NameOf(k)' = E!NameOf(k)
  BY ChangeDoes
<1>2. eRequest' # None =>
        /\ eRequest # None /\ DOMAIN eRequest' = SentHistoryFields /\ ~eRequest'.quiet
        /\ eRequest'.kind = eRequest.kind /\ eRequest'.step = eRequest.step /\ eRequest'.page = eRequest.page
        /\ eRequest'.rows = eRequest.rows /\ eRequest'.more = eRequest.more /\ eRequest'.total = eRequest.total
        /\ eRequest'.names = eRequest.names
  <2> SUFFICES ASSUME eRequest' # None
               PROVE  /\ eRequest # None /\ DOMAIN eRequest' = SentHistoryFields /\ ~eRequest'.quiet
                      /\ eRequest'.kind = eRequest.kind /\ eRequest'.step = eRequest.step /\ eRequest'.page = eRequest.page
                      /\ eRequest'.rows = eRequest.rows /\ eRequest'.more = eRequest.more /\ eRequest'.total = eRequest.total
                      /\ eRequest'.names = eRequest.names
    OBVIOUS
  <2>1. eRequest # None /\ eRequest' = [eRequest EXCEPT !.quiet = FALSE]
    BY <1>1
  <2>2. DOMAIN eRequest = SentHistoryFields
    BY <2>1 DEF SentHistoryIInv, SentHistoryRequested
  <2> QED
    BY <2>1, <2>2 DEF SentHistoryFields
<1>3. E!Readable' \in SUBSET EJobs /\ E!ListedNow' \in SUBSET EJobs /\ E!ListedNow \in SUBSET EJobs /\ Len(ePages) \in Nat
      /\ eStayed \in SUBSET E!ListedNow
  BY Within DEF E!Readable, E!ListedNow, E!Listed, SentHistoryIInv, SentHistoryTyped
<1>4. (RowsRead' => RowsRead) /\ (Begun' => Begun) /\ E!Seen' = E!Seen /\ (E!ReadToEnd' <=> E!ReadToEnd)
  BY <1>1, <1>2 DEF RowsRead, Begun, E!Seen, E!ReadToEnd
<1>5. SentHistoryTyped'
  BY <1>1, <1>3, ChangeIs DEF SentHistoryIInv, SentHistoryTyped
<1>6. SentHistoryRequested'
  BY <1>1, <1>2 DEF SentHistoryIInv, SentHistoryRequested, OwnName
<1>7. Agreeing' /\ E!StatementsAgree'
  BY <1>2, <1>4, ECardinality DEF Agreeing, E!StatementsAgree, RowsRead
<1>8. Pushed'
  <2> SUFFICES ASSUME ~eLost', eListing # None, ~eListing.search
               PROVE  /\ \A j \in eStayed : Cardinality(E!Above(j, E!ListedNow')) < Len(ePages) * EPageSize => j \in E!Seen
                      /\ RowsRead' =>
                           \A j \in eStayed : Cardinality(E!Above(j, E!ListedNow')) < eRequest.page * EPageSize \/ ~eRequest.more
                                               => j \in E!Seen \cup eRequest.rows
                      /\ E!ReadToEnd => eStayed \subseteq E!Seen
    <3>1. RowsRead' => eRequest' # None
      BY DEF RowsRead
    <3> QED
      BY <1>1, <1>2, <1>4, <3>1 DEF Pushed
  <2>1. \A j : Cardinality(E!Above(j, E!ListedNow)) <= Cardinality(E!Above(j, E!ListedNow'))
               /\ Cardinality(E!Above(j, E!ListedNow)) \in Nat /\ Cardinality(E!Above(j, E!ListedNow')) \in Nat
    BY <1>1, <1>3, FewerAbove, AboveIs
  <2>2. Len(ePages) * EPageSize \in Nat /\ (RowsRead => eRequest.page * EPageSize \in Nat)
    <3>1. RowsRead => eRequest.page = Len(ePages) + 1
      BY DEF SentHistoryIInv, SentHistoryRequested, RowsRead
    <3> QED
      BY <1>3, <3>1 DEF SentHistoryAssumption
  <2>3. \A j \in eStayed : Cardinality(E!Above(j, E!ListedNow)) < Len(ePages) * EPageSize => j \in E!Seen
    BY <1>1 DEF SentHistoryIInv, Pushed
  <2>4. RowsRead =>
          \A j \in eStayed : Cardinality(E!Above(j, E!ListedNow)) < eRequest.page * EPageSize \/ ~eRequest.more
                              => j \in E!Seen \cup eRequest.rows
    BY <1>1 DEF SentHistoryIInv, Pushed
  <2>5. E!ReadToEnd => eStayed \subseteq E!Seen
    BY <1>1 DEF SentHistoryIInv, Pushed
  <2>6. ASSUME NEW j \in eStayed, Cardinality(E!Above(j, E!ListedNow')) < Len(ePages) * EPageSize
        PROVE  j \in E!Seen
    <3>1. Cardinality(E!Above(j, E!ListedNow)) < Len(ePages) * EPageSize
      BY <2>1, <2>2, <2>6
    <3> QED
      BY <2>3, <3>1
  <2>7. ASSUME RowsRead', NEW j \in eStayed, Cardinality(E!Above(j, E!ListedNow')) < eRequest.page * EPageSize \/ ~eRequest.more
        PROVE  j \in E!Seen \cup eRequest.rows
    <3>1. Cardinality(E!Above(j, E!ListedNow)) < eRequest.page * EPageSize \/ ~eRequest.more
      BY <1>4, <2>1, <2>2, <2>7
    <3> QED
      BY <1>4, <2>4, <2>7, <3>1
  <2> QED
    BY <2>5, <2>6, <2>7
<1>9. Searched'
  <2> SUFFICES ASSUME ~eLost', ~eGrown', eListing # None, eListing.search, Begun
               PROVE  /\ eStayed' = E!ListedNow'
                      /\ \A p \in 1..Len(ePages) :
                           /\ ePages[p].items = E!Rows(Hits', E!Offset(p), EPageSize)
                           /\ ePages[p].more = (Cardinality(Hits') > p * EPageSize)
                      /\ RowsRead' => eRequest'.rows = E!Rows(eStayed', 0, ECap)
                      /\ RowsRead' /\ eRequest'.step = "answer" => \A j \in eRequest'.rows : eRequest'.names[j] = E!NameOf(j)'
    BY <1>1, <1>4 DEF Searched, E!Offset
  <2>1. /\ eStayed = E!ListedNow
        /\ \A p \in 1..Len(ePages) :
             /\ ePages[p].items = E!Rows(Hits, E!Offset(p), EPageSize)
             /\ ePages[p].more = (Cardinality(Hits) > p * EPageSize)
        /\ RowsRead => eRequest.rows = E!Rows(eStayed, 0, ECap)
        /\ RowsRead /\ eRequest.step = "answer" => \A j \in eRequest.rows : eRequest.names[j] = E!NameOf(j)
    BY <1>1 DEF SentHistoryIInv, Searched
  <2>2. E!ListedNow' = E!ListedNow /\ eStayed' = eStayed /\ \A k \in E!ListedNow : E!NameOf(k)' = E!NameOf(k)
    BY <1>1, <2>1
  <2>3. \A n : E!Rows(eStayed, 0, n) \subseteq E!ListedNow
    BY <2>1, ECardinality DEF E!Rows
  <2>4. Hits' = Hits
    BY <2>2, <2>3 DEF Hits
  <2>5. RowsRead' => eRequest' # None
    BY DEF RowsRead
  <2> QED
    BY <1>2, <1>4, <2>1, <2>2, <2>3, <2>4, <2>5
<1>10. Pulled'
  <2> SUFFICES ASSUME ~eGrown', eListing # None
               PROVE  /\ \A p \in 1..Len(ePages), j \in EJobs : j \in ePages[p].items => Cardinality(Newer(j)') < p * EPageSize
                      /\ RowsRead' /\ ~eListing.search =>
                           \A j \in eRequest.rows :
                             /\ Cardinality(E!Above(j, E!ListedNow')) < eRequest.page * EPageSize
                             /\ \A p \in 1..Len(ePages) : j \notin ePages[p].items
                      /\ RowsRead' /\ eListing.search =>
                           /\ \A j \in eRequest.rows : E!Above(j, E!ListedNow') \subseteq eRequest.rows
                           /\ eRequest.step # "answer" =>
                                \A p \in 1..Len(ePages), j \in EJobs :
                                  j \in ePages[p].items => Cardinality({k \in eRequest.rows : k > j /\ Match(k)'}) < p * EPageSize
                           /\ eRequest.step = "answer" =>
                                /\ \A k \in eRequest.rows : E!NameOf(k)' # None => eRequest.names[k] # None
                                /\ \A p \in 1..Len(ePages), j \in EJobs :
                                     j \in ePages[p].items => Cardinality(E!Above(j, E!Found)) < p * EPageSize
    <3>1. RowsRead' => eRequest' # None
      BY DEF RowsRead
    <3>2. RowsRead' => E!Found' = E!Found
      BY <1>2, <3>1 DEF E!Found
    <3>3. RowsRead' => \A j : E!Above(j, E!Found') = E!Above(j, E!Found)
      BY <3>2
    <3>4. RowsRead' => \A j : {k \in eRequest'.rows : k > j /\ Match(k)'} = {k \in eRequest.rows : k > j /\ Match(k)'}
      BY <1>2, <3>1
    <3> QED
      BY <1>1, <1>2, <3>1, <3>3, <3>4 DEF Pulled
  <2>1. \A k : Match(k)' => Match(k)
    BY <1>1 DEF Match
  <2>2. \A p \in 1..Len(ePages) : p \in Nat /\ p * EPageSize \in Nat
    BY <1>3, PagesInTurn
  <2>3. ASSUME NEW p \in 1..Len(ePages), NEW j \in EJobs, j \in ePages[p].items
        PROVE  Cardinality(Newer(j)') < p * EPageSize
    <3>1. Newer(j)' \subseteq Newer(j) /\ Newer(j) \in SUBSET EJobs
      BY <1>1, <1>3, <2>1 DEF Newer
    <3>2. Cardinality(Newer(j)') <= Cardinality(Newer(j)) /\ Cardinality(Newer(j)') \in Nat /\ Cardinality(Newer(j)) \in Nat
      BY <3>1, FewerOf
    <3>3. Cardinality(Newer(j)) < p * EPageSize
      BY <1>1, <2>3 DEF SentHistoryIInv, Pulled
    <3> QED
      BY <2>2, <3>2, <3>3
  <2>4. ASSUME RowsRead', ~eListing.search, NEW j \in eRequest.rows
        PROVE  /\ Cardinality(E!Above(j, E!ListedNow')) < eRequest.page * EPageSize
               /\ \A p \in 1..Len(ePages) : j \notin ePages[p].items
    <3>1. /\ Cardinality(E!Above(j, E!ListedNow)) < eRequest.page * EPageSize
          /\ \A p \in 1..Len(ePages) : j \notin ePages[p].items
      BY <1>1, <1>4, <2>4 DEF SentHistoryIInv, Pulled
    <3>2. Cardinality(E!Above(j, E!ListedNow')) <= Cardinality(E!Above(j, E!ListedNow))
          /\ Cardinality(E!Above(j, E!ListedNow)) \in Nat /\ Cardinality(E!Above(j, E!ListedNow')) \in Nat
      BY <1>1, <1>3, FewerAbove, AboveIs
    <3>3. eRequest.page * EPageSize \in Nat
      <4>1. eRequest.page = Len(ePages) + 1
        BY <1>4, <2>4 DEF SentHistoryIInv, SentHistoryRequested, RowsRead
      <4> QED
        BY <1>3, <4>1 DEF SentHistoryAssumption
    <3> QED
      BY <3>1, <3>2, <3>3
  <2>5. ASSUME RowsRead', eListing.search
        PROVE  /\ \A j \in eRequest.rows : E!Above(j, E!ListedNow') \subseteq eRequest.rows
               /\ eRequest.step # "answer" =>
                    \A p \in 1..Len(ePages), j \in EJobs :
                      j \in ePages[p].items => Cardinality({k \in eRequest.rows : k > j /\ Match(k)'}) < p * EPageSize
               /\ eRequest.step = "answer" =>
                    /\ \A k \in eRequest.rows : E!NameOf(k)' # None => eRequest.names[k] # None
                    /\ \A p \in 1..Len(ePages), j \in EJobs :
                         j \in ePages[p].items => Cardinality(E!Above(j, E!Found)) < p * EPageSize
    <3>1. /\ \A j \in eRequest.rows : E!Above(j, E!ListedNow) \subseteq eRequest.rows
          /\ eRequest.step # "answer" =>
               \A p \in 1..Len(ePages), j \in EJobs :
                 j \in ePages[p].items => Cardinality({k \in eRequest.rows : k > j /\ Match(k)}) < p * EPageSize
          /\ eRequest.step = "answer" =>
               /\ \A k \in eRequest.rows : E!NameOf(k) # None => eRequest.names[k] # None
               /\ \A p \in 1..Len(ePages), j \in EJobs :
                    j \in ePages[p].items => Cardinality(E!Above(j, E!Found)) < p * EPageSize
      BY <1>1, <1>4, <2>5 DEF SentHistoryIInv, Pulled
    <3>2. \A j : E!Above(j, E!ListedNow') \subseteq E!Above(j, E!ListedNow)
      BY <1>1 DEF E!Above
    <3>3. ASSUME eRequest.step # "answer", NEW p \in 1..Len(ePages), NEW j \in EJobs, j \in ePages[p].items
          PROVE  Cardinality({k \in eRequest.rows : k > j /\ Match(k)'}) < p * EPageSize
      <4> DEFINE A == {k \in eRequest.rows : k > j /\ Match(k)}
                 B == {k \in eRequest.rows : k > j /\ Match(k)'}
      <4>1. B \subseteq A
        BY <2>1
      <4>2. A \in SUBSET EJobs
        <5>1. eRequest.rows \subseteq EJobs
          BY <1>4, <2>5 DEF SentHistoryIInv, SentHistoryRequested, SentHistoryTyped, RowsRead
        <5> QED
          BY <5>1
      <4>3. Cardinality(A) < p * EPageSize
        BY <3>1, <3>3
      <4> HIDE DEF A, B
      <4>4. Cardinality(B) <= Cardinality(A) /\ Cardinality(A) \in Nat /\ Cardinality(B) \in Nat
        BY <4>1, <4>2, FewerOf
      <4>5. Cardinality(B) < p * EPageSize
        BY <2>2, <4>3, <4>4
      <4> QED
        BY <4>5 DEF B
    <3> QED
      BY <1>1, <3>1, <3>2, <3>3
  <2> QED
    BY <2>3, <2>4, <2>5
<1>11. E!RepeatedOnlyAfterGrowth'
  BY <1>1 DEF SentHistoryIInv, E!RepeatedOnlyAfterGrowth
<1> QED
  BY <1>5, <1>6, <1>7, <1>8, <1>9, <1>10, <1>11 DEF SentHistoryIInv

-----------------------------------------------------------------------------
LEMMA InitSentHistory ==
  ASSUME SentHistoryAssumption
  PROVE  E!Init => SentHistoryIInv
<1> SUFFICES ASSUME E!Init PROVE SentHistoryIInv
  OBVIOUS
<1>1. ePages = <<>> /\ Len(ePages) = 0 /\ 1..Len(ePages) = {} /\ eRequest = None /\ eListing = None /\ eStayed = {}
  BY ECardinality DEF E!Init
<1>2. SentHistoryTyped
  <2>1. eGrants \subseteq E!Sessions
    <3>1. 1 \in EJobs
      <4>1. Cardinality(EJobs) \in Nat /\ Cardinality(EJobs) # 0
        BY FS_CardinalityType, FS_EmptySet DEF SentHistoryAssumption
      <4>2. 1 \in 1..Cardinality(EJobs)
        BY <4>1
      <4> QED
        BY <4>2 DEF SentHistoryAssumption
    <3> QED
      BY <3>1, ECardinality DEF E!Init, E!Sessions
  <2>2. ePages \in Seq(Page)
    BY <1>1
  <2> QED
    BY <1>1, <2>1, <2>2, ECardinality DEF E!Init, SentHistoryTyped
<1>3. SentHistoryRequested /\ Agreeing /\ E!StatementsAgree /\ ~RowsRead
  BY <1>1, ECardinality DEF SentHistoryRequested, Agreeing, E!StatementsAgree, RowsRead
<1>4. Pushed /\ Searched /\ Pulled
  BY <1>1 DEF Pushed, Searched, Pulled
<1>5. E!RepeatedOnlyAfterGrowth
  BY <1>1 DEF E!RepeatedOnlyAfterGrowth
<1> QED
  BY <1>2, <1>3, <1>4, <1>5 DEF SentHistoryIInv

LEMMA NextSentHistory ==
  ASSUME SentHistoryAssumption
  PROVE  SentHistoryIInv /\ [E!Next]_E!vars => SentHistoryIInv'
<1> SUFFICES ASSUME SentHistoryIInv, [E!Next]_E!vars PROVE SentHistoryIInv'
  OBVIOUS
<1>1. CASE UNCHANGED E!vars
  <2>1. UNCHANGED <<eJob, eGrants, eRole, eContacts, eChanges, eListing, eRequest, ePages, eCould, eStayed, eLost, eGrown>>
    BY <1>1 DEF E!vars
  <2>2. /\ E!Readable' = E!Readable /\ E!ListedNow' = E!ListedNow
        /\ \A j : E!NameOf(j)' = E!NameOf(j) /\ (Match(j)' <=> Match(j)) /\ Newer(j)' = Newer(j)
    BY <2>1, Unmoved
  <2>3. /\ E!Seen' = E!Seen /\ (E!ReadToEnd' <=> E!ReadToEnd) /\ Hits' = Hits /\ (Begun' <=> Begun) /\ (RowsRead' <=> RowsRead)
        /\ \A j : E!Above(j, E!Found') = E!Above(j, E!Found)
        /\ \A j : {k \in eRequest'.rows : k > j /\ Match(k)'} = {k \in eRequest.rows : k > j /\ Match(k)}
    BY <2>1, <2>2 DEF E!Seen, E!ReadToEnd, Hits, Begun, RowsRead, E!Found
  <2>4. SentHistoryTyped' /\ SentHistoryRequested' /\ Agreeing' /\ E!StatementsAgree'
    BY <2>1, <2>2, <2>3, ECardinality DEF SentHistoryIInv, SentHistoryTyped, SentHistoryRequested, Agreeing, E!StatementsAgree, E!Offset
  <2>5. Pushed' /\ Searched' /\ E!RepeatedOnlyAfterGrowth'
    BY <2>1, <2>2, <2>3 DEF SentHistoryIInv, Pushed, Searched, E!RepeatedOnlyAfterGrowth, E!Offset
  <2>6. Pulled'
    BY <2>1, <2>2, <2>3 DEF SentHistoryIInv, Pulled
  <2> QED
    BY <2>4, <2>5, <2>6 DEF SentHistoryIInv
<1> QED
  BY <1>1, KeepsAskFirst, KeepsAskNext, KeepsAskDetail, KeepsReadJobs, KeepsReadTotal, KeepsReadJob, KeepsReadNames,
     KeepsAnswerList, KeepsAnswerDetail, KeepsChange DEF E!Next

LEMMA SentHistorySuffices ==
  ASSUME SentHistoryAssumption
  PROVE  SentHistoryIInv => E!SentHistoryInv
<1> SUFFICES ASSUME SentHistoryIInv PROVE E!SentHistoryInv
  OBVIOUS
<1>1. E!TypeOK
  <2>1. eStayed \subseteq EJobs
    BY Within DEF SentHistoryIInv
  <2> QED
    BY <2>1 DEF SentHistoryIInv, SentHistoryTyped, SentHistoryRequested, E!TypeOK
<1>2. E!OnlyOwn
  BY DEF SentHistoryIInv, SentHistoryRequested, E!OnlyOwn, OwnName
<1>3. E!NothingSkipped
  <2> SUFFICES ASSUME E!ReadToEnd, ~eLost
               PROVE  IF ~eListing.search THEN eStayed \subseteq E!Seen
                      ELSE ~eGrown => \A j \in E!Rows(eStayed, 0, ECap) : j \in ETextHits \/ E!NameOf(j) # None => j \in E!Seen
    BY DEF E!NothingSkipped
  <2>1. ePages # <<>> /\ ~ePages[Len(ePages)].more /\ eListing # None /\ Len(ePages) \in Nat
    BY Within DEF E!ReadToEnd, SentHistoryIInv, SentHistoryTyped
  <2>2. CASE ~eListing.search
    BY <2>1, <2>2 DEF SentHistoryIInv, Pushed
  <2>3. CASE eListing.search
    <3> SUFFICES ASSUME ~eGrown, NEW j \in Hits PROVE j \in E!Seen
      BY <2>3 DEF Hits
    <3>1. \A p \in 1..Len(ePages) :
            /\ ePages[p].items = E!Rows(Hits, E!Offset(p), EPageSize)
            /\ ePages[p].more = (Cardinality(Hits) > p * EPageSize)
      BY <2>1, <2>3 DEF SentHistoryIInv, Searched, Begun
    <3>2. Hits \in SUBSET EJobs
      BY Within, ECardinality DEF SentHistoryIInv, Hits, E!Rows
    <3>3. Len(ePages) \in 1..Len(ePages)
      <4>1. Len(ePages) # 0
        BY <2>1 DEF SentHistoryIInv, SentHistoryTyped
      <4> QED
        BY <2>1, <4>1
    <3>4. ~(Cardinality(Hits) > Len(ePages) * EPageSize)
      BY <2>1, <3>1, <3>3
    <3>5. Cardinality(Hits) \in Nat /\ Cardinality(E!Above(j, Hits)) \in Nat /\ Cardinality(E!Above(j, Hits)) < Cardinality(Hits)
      BY <3>2, AboveIs
    <3>6. Len(ePages) * EPageSize \in Nat
      BY <2>1 DEF SentHistoryAssumption
    <3>7. Cardinality(E!Above(j, Hits)) < Len(ePages) * EPageSize
      BY <3>4, <3>5, <3>6
    <3>8. PICK p \in 1..Len(ePages) : j \in E!Rows(Hits, E!Offset(p), EPageSize)
      BY <2>1, <3>2, <3>7, OnSomePage
    <3> QED
      BY <3>1, <3>8 DEF E!Seen
  <2> QED
    BY <2>2, <2>3
<1> QED
  BY <1>1, <1>2, <1>3 DEF SentHistoryIInv, E!SentHistoryInv

(* Whatever other requests change between the statements of a page and       *)
(* between pages: only jobs the reader could see, under their own names; the *)
(* statements agree when nothing changes; nothing is skipped unless a job    *)
(* leaves the list, and nothing is shown twice unless one joins it.          *)
THEOREM SentHistoryHolds ==
  ASSUME SentHistoryAssumption
  PROVE  E!Spec => []E!SentHistoryInv
<1>1. E!Init => SentHistoryIInv
  BY InitSentHistory
<1>2. SentHistoryIInv /\ [E!Next]_E!vars => SentHistoryIInv'
  BY NextSentHistory
<1>3. SentHistoryIInv => E!SentHistoryInv
  BY SentHistorySuffices
<1> QED
  BY <1>1, <1>2, <1>3, PTL DEF E!Spec

-----------------------------------------------------------------------------
(* ScheduleTime *)

Stored == [at : Int, zone : YZones]
AnyText == [kind : {"local", "offset", "malformed"}, at : Int]
AnyRequest ==
  [text : AnyText, zone : YZones \cup {Y!Bogus}, edit : BOOLEAN, from : Stored \cup {None},
   phase : {"sent", "served", "accepted", "refused"}, job : Stored \cup {None}]

(* Offsets are shorter than the day the parser probes; offsets and the      *)
(* transition fall on full minutes; None is no schedule and no request.     *)
ScheduleTimeAssumption ==
  /\ YDay \in Int /\ YGrain \in Nat \ {0} /\ YInstants \subseteq Int
  /\ YZones \subseteq [at : Int, before : Int, after : Int]
  /\ \A z \in YZones : -YDay < z.before /\ z.before < YDay /\ -YDay < z.after /\ z.after < YDay
  /\ \A z \in YZones : z.at % YGrain = 0 /\ z.before % YGrain = 0 /\ z.after % YGrain = 0
  /\ None \notin Stored /\ None \notin AnyRequest

(* The only two instants that can show a wall clock.                       *)
ByBefore(z, w) == w - z.before
ByAfter(z, w) == w - z.after

LEMMA ShownByOne ==
  ASSUME ScheduleTimeAssumption, NEW z \in YZones, NEW w \in Int, NEW i \in Int
  PROVE  Y!WallAt(z, i) = w <=> \/ i = ByBefore(z, w) /\ ByBefore(z, w) < z.at
                                \/ i = ByAfter(z, w) /\ ByAfter(z, w) >= z.at
BY DEF ScheduleTimeAssumption, Y!WallAt, Y!OffsetAt, ByBefore, ByAfter

LEMMA ShowingIsAll ==
  ASSUME ScheduleTimeAssumption, NEW z \in YZones, NEW w \in Int
  PROVE  Y!Showing(z, w) = {i \in Int : Y!WallAt(z, i) = w}
BY DEF ScheduleTimeAssumption, Y!Showing, Y!WallAt, Y!OffsetAt

(* Both tries precede the transition, or one precedes and one does not, or *)
(* neither does.                                                           *)
LEMMA ProbedIs ==
  ASSUME ScheduleTimeAssumption, NEW z \in YZones, NEW w \in Int
  PROVE  /\ Y!Probed(z, w) \subseteq Int
         /\ \A i \in Y!Probed(z, w) : Y!WallAt(z, i) = w
         /\ ByBefore(z, w) < z.at => ByBefore(z, w) \in Y!Probed(z, w)
         /\ (w >= z.at \/ z.before = z.after) /\ ByAfter(z, w) >= z.at => ByAfter(z, w) \in Y!Probed(z, w)
         /\ w < z.at => Y!Probed(z, w) \subseteq {ByBefore(z, w)}
<1>1. /\ z \in [at : Int, before : Int, after : Int]
      /\ -YDay < z.before /\ z.before < YDay /\ YDay \in Int
  BY DEF ScheduleTimeAssumption
<1>2. Y!OffsetAt(z, w) \in Int /\ Y!OffsetAt(z, w - YDay) \in Int
  BY <1>1 DEF Y!OffsetAt
<1>3. Y!Probed(z, w) = {i \in {w - Y!OffsetAt(z, w), w - Y!OffsetAt(z, w - YDay)} : Y!WallAt(z, i) = w}
  BY DEF Y!Probed
<1>4. ByBefore(z, w) < z.at => Y!OffsetAt(z, w - YDay) = z.before
  BY <1>1 DEF Y!OffsetAt, ByBefore
<1>5. w >= z.at \/ z.before = z.after => Y!OffsetAt(z, w) = z.after
  BY <1>1 DEF Y!OffsetAt
<1>6. w < z.at => Y!OffsetAt(z, w) = z.before /\ Y!OffsetAt(z, w - YDay) = z.before
  BY <1>1 DEF Y!OffsetAt
<1>7. ByBefore(z, w) \in Int /\ ByAfter(z, w) \in Int
  BY <1>1 DEF ByBefore, ByAfter
<1>8. ByBefore(z, w) < z.at => Y!WallAt(z, ByBefore(z, w)) = w
  BY <1>7, ShownByOne
<1>9. ByAfter(z, w) >= z.at => Y!WallAt(z, ByAfter(z, w)) = w
  BY <1>7, ShownByOne
<1>10. ByBefore(z, w) < z.at => ByBefore(z, w) \in Y!Probed(z, w)
  BY <1>3, <1>4, <1>8 DEF ByBefore
<1>11. (w >= z.at \/ z.before = z.after) /\ ByAfter(z, w) >= z.at => ByAfter(z, w) \in Y!Probed(z, w)
  BY <1>3, <1>5, <1>9 DEF ByAfter
<1>12. w < z.at => Y!Probed(z, w) \subseteq {ByBefore(z, w)}
  BY <1>3, <1>6 DEF ByBefore
<1>13. Y!Probed(z, w) \subseteq Int /\ \A i \in Y!Probed(z, w) : Y!WallAt(z, i) = w
  BY <1>2, <1>3
<1> QED
  BY <1>10, <1>11, <1>12, <1>13

LEMMA EarliestOfTwo ==
  ASSUME NEW a \in Int, NEW b \in Int, NEW S, S \subseteq {a, b}, S # {}
  PROVE  Y!Earliest(S) \in S /\ \A i \in S : Y!Earliest(S) <= i
<1>1. \A j \in S : j = a \/ j = b
  OBVIOUS
<1>2. PICK x \in S : TRUE
  OBVIOUS
<1>3. CASE a \in S /\ (b \in S => a <= b)
  <2>1. \A j \in S : a <= j
    BY <1>1, <1>3
  <2>2. \E i \in S : \A j \in S : i <= j
    BY <1>3, <2>1
  <2> QED
    BY <2>2 DEF Y!Earliest
<1>4. CASE b \in S /\ (a \in S => b <= a)
  <2>1. \A j \in S : b <= j
    BY <1>1, <1>4
  <2>2. \E i \in S : \A j \in S : i <= j
    BY <1>4, <2>1
  <2> QED
    BY <2>2 DEF Y!Earliest
<1> QED
  BY <1>1, <1>2, <1>3, <1>4

(* What is probed has an earliest, and it is the first of all instants      *)
(* whose clock shows the wall clock.                                       *)
LEMMA EarliestProbed ==
  ASSUME ScheduleTimeAssumption, NEW z \in YZones, NEW w \in Int, Y!Probed(z, w) # {}
  PROVE  LET e == Y!Earliest(Y!Probed(z, w)) IN
         e \in Int /\ Y!WallAt(z, e) = w /\ \A i \in Y!Showing(z, w) : e <= i
<1> DEFINE e == Y!Earliest(Y!Probed(z, w))
<1>1. ByBefore(z, w) \in Int /\ ByAfter(z, w) \in Int /\ z.at \in Int
  BY DEF ScheduleTimeAssumption, ByBefore, ByAfter
<1>2. Y!Probed(z, w) \subseteq {ByBefore(z, w), ByAfter(z, w)}
  BY ProbedIs, ShownByOne
<1>3. e \in Y!Probed(z, w) /\ \A i \in Y!Probed(z, w) : e <= i
  BY <1>1, <1>2, EarliestOfTwo
<1>4. e \in Int /\ Y!WallAt(z, e) = w
  BY <1>3, ProbedIs
<1>5. ASSUME NEW i \in Y!Showing(z, w)
      PROVE  e <= i
  <2>1. i \in Int /\ Y!WallAt(z, i) = w
    BY <1>5, ShowingIsAll
  <2>2. CASE i = ByBefore(z, w) /\ ByBefore(z, w) < z.at
    BY <2>2, <1>3, ProbedIs
  <2>3. CASE i = ByAfter(z, w) /\ ByAfter(z, w) >= z.at
    <3>1. \/ e = ByBefore(z, w) /\ ByBefore(z, w) < z.at
          \/ e = ByAfter(z, w)
      BY <1>4, ShownByOne
    <3> HIDE DEF e
    <3> QED
      BY <3>1, <2>3, <1>1
  <2> QED
    BY <2>1, <2>2, <2>3, ShownByOne
<1> QED
  BY <1>4, <1>5

(* Nothing is probed when no clock shows it, or when it is overlooked.      *)
LEMMA NothingProbed ==
  ASSUME ScheduleTimeAssumption, NEW z \in YZones, NEW w \in Int
  PROVE  Y!Probed(z, w) = {} <=> Y!Showing(z, w) = {} \/ Y!Overlooked(z, w)
<1>1. ByBefore(z, w) \in Int /\ ByAfter(z, w) \in Int /\ z.at \in Int
  BY DEF ScheduleTimeAssumption, ByBefore, ByAfter
<1>2. \A i \in Y!Showing(z, w) : i \in Int /\ Y!WallAt(z, i) = w
  BY ShowingIsAll
<1>3. Y!Probed(z, w) \subseteq Y!Showing(z, w)
  BY ProbedIs, ShowingIsAll
<1>4. ASSUME Y!Probed(z, w) = {}, Y!Showing(z, w) # {}
      PROVE  Y!Overlooked(z, w)
  <2>1. ~(ByBefore(z, w) < z.at)
    BY <1>4, ProbedIs
  <2>2. \A i \in Y!Showing(z, w) : i = ByAfter(z, w) /\ i >= z.at
    BY <2>1, <1>2, ShownByOne
  <2>3. ~(w >= z.at \/ z.before = z.after)
    BY <2>2, <1>4, ProbedIs
  <2> QED
    BY <2>2, <2>3, <1>1, <1>4 DEF Y!Overlooked
<1>5. ASSUME Y!Overlooked(z, w), NEW i \in Y!Probed(z, w)
      PROVE  FALSE
  <2>1. i = ByBefore(z, w) /\ i >= z.at
    BY <1>5, <1>3, ProbedIs DEF Y!Overlooked
  <2>2. i \in Int /\ Y!WallAt(z, i) = w
    BY <1>5, ProbedIs
  <2>3. i = ByAfter(z, w)
    BY <2>1, <2>2, <1>1, ShownByOne
  <2>4. z.before \in Int /\ z.after \in Int /\ z.before # z.after
    BY <1>5 DEF ScheduleTimeAssumption, Y!Overlooked
  <2> QED
    BY <2>1, <2>3, <2>4 DEF ByBefore, ByAfter
<1> QED
  BY <1>3, <1>4, <1>5
-----------------------------------------------------------------------------
(* No full minute lies strictly between two that follow each other.        *)
LEMMA FullMinutes ==
  ASSUME NEW G \in Nat \ {0}, NEW k \in Int, 0 < G * k, G * k < G
  PROVE  FALSE
<1>1. CASE k <= 0
  BY <1>1
<1>2. CASE k >= 1
  BY <1>2
<1> QED
  BY <1>1, <1>2

LEMMA Rounded ==
  ASSUME NEW G \in Nat \ {0}, NEW x \in Int
  PROVE  /\ x % G \in Int /\ 0 <= x % G /\ x % G < G
         /\ x \div G \in Int /\ x = (G * (x \div G)) + (x % G)
OBVIOUS

LEMMA Divides ==
  ASSUME NEW G \in Nat \ {0}, NEW x \in Int, x % G = 0
  PROVE  \E k \in Int : x = G * k
<1>1. x \div G \in Int /\ x = (G * (x \div G)) + 0
  BY Rounded
<1>2. (G * (x \div G)) + 0 = G * (x \div G)
  BY <1>1
<1> QED
  BY <1>1, <1>2

(* Cutting an instant's wall clock to the minute, and reading it again,     *)
(* finds that minute, or the same wall clock before the clocks were put     *)
(* back.                                                                   *)
LEMMA CutAndReadAgain ==
  ASSUME ScheduleTimeAssumption, NEW z \in YZones, NEW was \in Int,
         NEW w \in Int, w = Y!WallAt(z, was) - (Y!WallAt(z, was) % YGrain),
         NEW now \in Int, \A i \in Y!Showing(z, w) : now <= i, Y!WallAt(z, now) = w
  PROVE  /\ now <= was
         /\ was - now < YGrain \/ \E i \in Y!Showing(z, w) : now < i /\ i <= was
<1> DEFINE w0 == Y!WallAt(z, was)
           r == w0 % YGrain
           first == was - r
<1>1. /\ YGrain \in Nat \ {0} /\ z.at \in Int /\ z.before \in Int /\ z.after \in Int
      /\ Y!OffsetAt(z, was) \in Int /\ w0 = was + Y!OffsetAt(z, was) /\ w0 \in Int
  BY DEF ScheduleTimeAssumption, Y!OffsetAt, Y!WallAt
<1>2. r \in Int /\ 0 <= r /\ r < YGrain
  BY <1>1, Rounded
<1>3. w = first + Y!OffsetAt(z, was) /\ first \in Int /\ first <= was /\ was - first < YGrain
  BY <1>1, <1>2
<1>4. CASE Y!OffsetAt(z, first) = Y!OffsetAt(z, was)
  <2>1. first \in Y!Showing(z, w)
    BY <1>3, <1>4, ShowingIsAll DEF Y!WallAt
  <2>2. now <= first
    BY <2>1
  <2> HIDE DEF first
  <2> QED
    BY <1>1, <1>3, <2>1, <2>2
<1>5. CASE Y!OffsetAt(z, first) # Y!OffsetAt(z, was)
  <2>1. first < z.at /\ was >= z.at /\ Y!OffsetAt(z, was) = z.after
    BY <1>1, <1>3, <1>5 DEF Y!OffsetAt
  <2>2. PICK a \in Int : z.at = YGrain * a
    <3>1. z.at % YGrain = 0
      BY DEF ScheduleTimeAssumption
    <3> QED
      BY <3>1, <1>1, Divides
  <2>3. PICK b \in Int : z.after = YGrain * b
    <3>1. z.after % YGrain = 0
      BY DEF ScheduleTimeAssumption
    <3> QED
      BY <3>1, <1>1, Divides
  <2>4. PICK c \in Int : w = YGrain * c
    <3>1. w0 \div YGrain \in Int /\ w0 = (YGrain * (w0 \div YGrain)) + r
      BY <1>1, Rounded
    <3>2. w = YGrain * (w0 \div YGrain)
      BY <3>1, <1>1, <1>2
    <3> QED
      BY <3>1, <3>2
  <2>5. z.at - first = YGrain * (a + b - c)
    <3>1. z.at - first = YGrain * a + YGrain * b - YGrain * c
      BY <1>1, <1>3, <2>1, <2>2, <2>3, <2>4
    <3> QED
      BY <3>1, <1>1
  <2>6. 0 < z.at - first /\ z.at - first < YGrain
    BY <1>1, <1>3, <2>1
  <2> HIDE DEF first
  <2> QED
    BY <1>1, <2>5, <2>6, FullMinutes
<1> QED
  BY <1>4, <1>5
-----------------------------------------------------------------------------
(* The server's reading of a request.                                      *)
Reading(text, zone) ==
  IF Y!Parsed(text, zone) = {} THEN None
  ELSE [at |-> Y!Earliest(Y!Parsed(text, zone)), zone |-> zone]

LEMMA ParsedIs ==
  ASSUME ScheduleTimeAssumption, NEW text \in AnyText, NEW zone \in YZones \cup {Y!Bogus}
  PROVE  /\ zone = Y!Bogus => Y!Parsed(text, zone) = {}
         /\ zone # Y!Bogus /\ text.kind = "local" => Y!Parsed(text, zone) = Y!Probed(zone, text.at)
         /\ zone # Y!Bogus /\ text.kind = "offset" => Y!Parsed(text, zone) = {text.at}
         /\ zone # Y!Bogus /\ text.kind = "malformed" => Y!Parsed(text, zone) = {}
BY DEF Y!Parsed, AnyText

LEMMA ReadingIs ==
  ASSUME ScheduleTimeAssumption, NEW text \in AnyText, NEW zone \in YZones \cup {Y!Bogus}
  PROVE  /\ Reading(text, zone) \in Stored \cup {None}
         /\ Y!Parsed(text, zone) # {} => Reading(text, zone) \in Stored
<1> SUFFICES ASSUME Y!Parsed(text, zone) # {}
             PROVE  Reading(text, zone) \in Stored
  BY DEF Reading
<1>1. zone \in YZones /\ text.at \in Int /\ text.kind \in {"local", "offset", "malformed"}
  BY ParsedIs DEF AnyText
<1>2. zone # Y!Bogus
  BY ParsedIs
<1>3. Y!Earliest(Y!Parsed(text, zone)) \in Int
  <2>1. CASE text.kind = "local"
    BY <1>1, <1>2, <2>1, ParsedIs, EarliestProbed
  <2>2. CASE text.kind = "offset"
    BY <1>1, <1>2, <2>2, ParsedIs, EarliestOfTwo
  <2> QED
    BY <1>1, <1>2, <2>1, <2>2, ParsedIs
<1> QED
  BY <1>1, <1>3 DEF Reading, Stored

(* The inductive invariant: what a served request was given, and what a     *)
(* request sent from the untouched dialog asks for.                         *)
RequestSound ==
  yRequest # None =>
    /\ yRequest.phase = "sent" => yRequest.job = None
    /\ yRequest.phase # "sent" => yRequest.job = Reading(yRequest.text, yRequest.zone)
    /\ yRequest.from # None =>
         yRequest.text = Y!Filled(yRequest.from).text /\ yRequest.zone = yRequest.from.zone

ScheduleTimeIInv ==
  /\ yJob \in Stored \cup {None} /\ yShown \in Stored \cup {None}
  /\ yForm \in [text : AnyText, zone : YZones \cup {Y!Bogus}]
  /\ yRequest \in AnyRequest \cup {None}
  /\ RequestSound

LEMMA FilledIs ==
  ASSUME ScheduleTimeAssumption, NEW j \in Stored
  PROVE  /\ Y!Filled(j) \in [text : AnyText, zone : YZones \cup {Y!Bogus}]
         /\ Y!Filled(j).zone = j.zone /\ Y!Filled(j).text.kind = "local"
         /\ Y!Filled(j).text.at = Y!WallAt(j.zone, j.at) - (Y!WallAt(j.zone, j.at) % YGrain)
<1>1. Y!WallAt(j.zone, j.at) \in Int
  BY DEF ScheduleTimeAssumption, Stored, Y!WallAt, Y!OffsetAt
<1>2. Y!WallAt(j.zone, j.at) % YGrain \in Int
  BY <1>1, Rounded DEF ScheduleTimeAssumption
<1> QED
  BY <1>1, <1>2 DEF Y!Filled, Y!Local, AnyText, Stored

LEMMA AskIs ==
  ASSUME ScheduleTimeAssumption, NEW text \in AnyText, NEW zone \in YZones \cup {Y!Bogus},
         NEW edit \in BOOLEAN, NEW from \in Stored \cup {None}, yRequest' = Y!Ask(text, zone, edit, from),
         from # None => text = Y!Filled(from).text /\ zone = from.zone
  PROVE  yRequest' \in AnyRequest \cup {None} /\ RequestSound'
BY DEF Y!Ask, AnyRequest, RequestSound, Y!Filled

LEMMA InitScheduleTime ==
  ASSUME ScheduleTimeAssumption, Y!Init
  PROVE  ScheduleTimeIInv
BY DEF Y!Init, Y!NoForm, Y!Malformed, AnyText, ScheduleTimeIInv, RequestSound

LEMMA ServeIs ==
  ASSUME ScheduleTimeAssumption, ScheduleTimeIInv, Y!ServeSchedule \/ Y!ServeEdit
  PROVE  ScheduleTimeIInv'
<1>1. yRequest # None /\ yRequest \in AnyRequest /\ yRequest.phase = "sent"
  BY DEF Y!ServeSchedule, Y!ServeEdit, Y!Serve, Y!Underway, ScheduleTimeIInv
<1>2. PICK stored \in {Reading(yRequest.text, yRequest.zone)} : Y!Serve(stored)
  BY DEF Y!ServeSchedule, Y!ServeEdit, Y!Validated, Y!Timing, Reading
<1>3. stored \in Stored \cup {None}
  BY <1>1, <1>2, ReadingIs DEF AnyRequest
<1>4. /\ yRequest' = [yRequest EXCEPT !.phase = "served", !.job = stored]
      /\ yJob' \in {yJob, stored} /\ UNCHANGED <<yShown, yForm>>
  BY <1>2 DEF Y!Serve
<1>5. yRequest' \in AnyRequest
  BY <1>1, <1>3, <1>4 DEF AnyRequest
<1>6. /\ yRequest'.text = yRequest.text /\ yRequest'.zone = yRequest.zone
      /\ yRequest'.from = yRequest.from /\ yRequest'.phase = "served" /\ yRequest'.job = stored
  BY <1>1, <1>4 DEF AnyRequest
<1>7. RequestSound'
  BY <1>1, <1>2, <1>6 DEF ScheduleTimeIInv, RequestSound, Reading, Y!Parsed, Y!Filled
<1> QED
  BY <1>3, <1>4, <1>5, <1>7 DEF ScheduleTimeIInv

LEMMA AnswerIs ==
  ASSUME ScheduleTimeAssumption, ScheduleTimeIInv, Y!Answer
  PROVE  ScheduleTimeIInv'
<1>1. yRequest # None /\ yRequest \in AnyRequest /\ yRequest.phase = "served"
  BY DEF Y!Answer, Y!Underway, ScheduleTimeIInv
<1>2. PICK p \in {"refused", "accepted"} : yRequest' = [yRequest EXCEPT !.phase = p]
  BY DEF Y!Answer
<1>3. yRequest' \in AnyRequest
  BY <1>1, <1>2 DEF AnyRequest
<1>4. /\ yRequest'.text = yRequest.text /\ yRequest'.zone = yRequest.zone
      /\ yRequest'.from = yRequest.from /\ yRequest'.phase = p /\ yRequest'.job = yRequest.job
  BY <1>1, <1>2 DEF AnyRequest
<1>5. RequestSound'
  BY <1>1, <1>4 DEF ScheduleTimeIInv, RequestSound, Reading, Y!Parsed, Y!Filled
<1>6. yRequest.job \in Stored \cup {None}
  BY <1>1 DEF AnyRequest
<1>7. yJob' = yJob /\ yShown' \in Stored \cup {None}
  BY <1>6 DEF Y!Answer, ScheduleTimeIInv
<1>8. yForm' = yForm \/ (\E j \in Stored : yForm' = Y!Filled(j))
  BY <1>6, <1>7 DEF Y!Answer, ScheduleTimeIInv
<1>9. yForm' \in [text : AnyText, zone : YZones \cup {Y!Bogus}]
  BY <1>8, FilledIs DEF ScheduleTimeIInv
<1> QED
  BY <1>3, <1>5, <1>7, <1>9 DEF ScheduleTimeIInv

LEMMA NextScheduleTime ==
  ASSUME ScheduleTimeAssumption, ScheduleTimeIInv, [Y!Next]_Y!vars
  PROVE  ScheduleTimeIInv'
<1>1. ASSUME NEW t \in Y!Texts, NEW z \in YZones \cup {Y!Bogus}, Y!Schedule(t, z)
      PROVE  ScheduleTimeIInv'
  <2>1. t \in AnyText
    BY DEF ScheduleTimeAssumption, Y!Texts, Y!Local, Y!Offset, Y!Malformed, AnyText
  <2>2. UNCHANGED <<yJob, yShown, yForm>> /\ yRequest' = Y!Ask(t, z, FALSE, None)
    BY <1>1 DEF Y!Schedule
  <2> QED
    BY <2>1, <2>2, AskIs DEF ScheduleTimeIInv
<1>2. CASE Y!Save
  <2>1. UNCHANGED <<yJob, yShown, yForm>> /\ yShown \in Stored
    BY <1>2 DEF Y!Save, ScheduleTimeIInv
  <2>2. PICK from \in Stored \cup {None} :
          /\ yRequest' = Y!Ask(yForm.text, yForm.zone, TRUE, from)
          /\ from # None => yForm = Y!Filled(from)
    BY <1>2, <2>1 DEF Y!Save
  <2>3. yForm.text \in AnyText /\ yForm.zone \in YZones \cup {Y!Bogus}
    BY DEF ScheduleTimeIInv
  <2>4. from # None => yForm.text = Y!Filled(from).text /\ yForm.zone = from.zone
    BY <2>2, FilledIs
  <2> QED
    BY <2>1, <2>2, <2>3, <2>4, AskIs DEF ScheduleTimeIInv
<1>3. CASE Y!OpenDetail
  <2>1. yShown' = yJob /\ yForm' = Y!Filled(yJob) /\ UNCHANGED <<yJob, yRequest>>
    BY <1>3 DEF Y!OpenDetail
  <2>2. CASE yJob = None
    <3>1. FALSE
      BY <2>2, <1>3 DEF Y!OpenDetail
    <3> QED
      BY <3>1
  <2>3. CASE yJob \in Stored
    BY <2>1, <2>3, FilledIs DEF ScheduleTimeIInv, RequestSound, Reading, Y!Parsed, Y!Filled
  <2> QED
    BY <2>2, <2>3 DEF ScheduleTimeIInv
<1>4. CASE \/ \E t \in Y!Typed : Y!ChangeTime(t)
           \/ \E z \in YZones \cup {Y!Bogus} : Y!ChangeZone(z)
  <2>1. Y!Typed \subseteq AnyText
    <3>1. Y!Minutes \subseteq Int
      BY Zenon DEF ScheduleTimeAssumption, Y!Minutes
    <3> QED
      BY <3>1 DEF Y!Typed, Y!Local, Y!Malformed, AnyText
  <2>2. yForm' \in [text : AnyText, zone : YZones \cup {Y!Bogus}]
    BY <1>4, <2>1 DEF Y!ChangeTime, Y!ChangeZone, ScheduleTimeIInv
  <2>3. UNCHANGED <<yJob, yShown, yRequest>>
    BY <1>4 DEF Y!ChangeTime, Y!ChangeZone
  <2> QED
    BY <2>2, <2>3 DEF ScheduleTimeIInv, RequestSound, Reading, Y!Parsed, Y!Filled
<1>5. CASE Y!Lose
  BY <1>5 DEF Y!Lose, ScheduleTimeIInv, RequestSound
<1>6. CASE UNCHANGED Y!vars
  BY <1>6 DEF Y!vars, ScheduleTimeIInv, RequestSound, Reading, Y!Parsed, Y!Filled
<1> QED
  BY <1>1, <1>2, <1>3, <1>4, <1>5, <1>6, ServeIs, AnswerIs DEF Y!Next

LEMMA ScheduleTimeSuffices ==
  ASSUME ScheduleTimeAssumption, ScheduleTimeIInv
  PROVE  Y!ScheduleTimeInv
<1>1. Y!TypeOK
  BY DEF Y!TypeOK, ScheduleTimeIInv, Stored, AnyRequest
<1>2. ASSUME Y!Served
      PROVE  /\ yRequest \in AnyRequest /\ yRequest.text \in AnyText
             /\ yRequest.zone \in YZones \cup {Y!Bogus} /\ yRequest.text.at \in Int
             /\ yRequest.job = Reading(yRequest.text, yRequest.zone)
  <2>1. yRequest # None /\ yRequest \in AnyRequest /\ yRequest.phase # "sent"
    BY <1>2 DEF Y!Served, ScheduleTimeIInv
  <2> QED
    BY <2>1 DEF ScheduleTimeIInv, RequestSound, AnyRequest, AnyText
<1>3. ASSUME Y!Reads
      PROVE  /\ yRequest.zone \in YZones
             /\ Y!Parsed(yRequest.text, yRequest.zone) = Y!Probed(yRequest.zone, yRequest.text.at)
  BY <1>2, <1>3, ParsedIs DEF Y!Reads
<1>4. Y!EarliestInstant
  <2> SUFFICES ASSUME Y!Reads, yRequest.job # None
               PROVE  /\ Y!WallAt(yRequest.zone, yRequest.job.at) = yRequest.text.at
                      /\ \A i \in Y!Showing(yRequest.zone, yRequest.text.at) : yRequest.job.at <= i
    BY DEF Y!EarliestInstant
  <2>1. /\ Y!Probed(yRequest.zone, yRequest.text.at) # {}
        /\ yRequest.job.at = Y!Earliest(Y!Probed(yRequest.zone, yRequest.text.at))
    BY <1>2, <1>3 DEF Y!Reads, Reading
  <2> QED
    BY <1>2, <1>3, <2>1, EarliestProbed DEF Y!Reads
<1>5. Y!RefusedOnlySkipped
  <2> SUFFICES ASSUME Y!Reads
               PROVE  yRequest.job = None <=>
                        \/ Y!Showing(yRequest.zone, yRequest.text.at) = {}
                        \/ Y!Overlooked(yRequest.zone, yRequest.text.at)
    BY DEF Y!RefusedOnlySkipped
  <2>1. yRequest.job = None <=> Y!Probed(yRequest.zone, yRequest.text.at) = {}
    BY <1>2, <1>3, ReadingIs DEF Y!Reads, Reading, ScheduleTimeAssumption
  <2> QED
    BY <1>2, <1>3, <2>1, NothingProbed DEF Y!Reads
<1>6. Y!InstantKept
  <2> SUFFICES ASSUME Y!Served, yRequest.text.kind = "offset", yRequest.zone # Y!Bogus
               PROVE  yRequest.job # None /\ yRequest.job.at = yRequest.text.at
    BY DEF Y!InstantKept
  <2>1. Y!Parsed(yRequest.text, yRequest.zone) = {yRequest.text.at}
    BY <1>2, ParsedIs
  <2>2. Y!Earliest({yRequest.text.at}) = yRequest.text.at
    BY <1>2, EarliestOfTwo
  <2>3. yRequest.job # None
    BY <1>2, <2>1, ReadingIs DEF ScheduleTimeAssumption
  <2> QED
    BY <1>2, <2>1, <2>2, <2>3 DEF Reading
<1>7. Y!UntouchedNotDelayed
  <2> SUFFICES ASSUME Y!Served, yRequest # None, yRequest.from # None, yRequest.job # None
               PROVE  /\ yRequest.job.at <= yRequest.from.at
                      /\ \/ yRequest.from.at - yRequest.job.at < YGrain
                         \/ \E i \in Y!Showing(yRequest.zone, yRequest.text.at) :
                              yRequest.job.at < i /\ i <= yRequest.from.at
    BY DEF Y!UntouchedNotDelayed
  <2>1. /\ yRequest.from \in Stored /\ yRequest.zone = yRequest.from.zone
        /\ yRequest.text = Y!Filled(yRequest.from).text
    BY <1>2 DEF AnyRequest, ScheduleTimeIInv, RequestSound
  <2>2. yRequest.from.zone \in YZones /\ yRequest.from.at \in Int
    BY <2>1 DEF Stored
  <2>3. /\ yRequest.text.kind = "local"
        /\ yRequest.text.at = Y!WallAt(yRequest.zone, yRequest.from.at)
                              - (Y!WallAt(yRequest.zone, yRequest.from.at) % YGrain)
    BY <2>1, FilledIs
  <2>4. yRequest.zone # Y!Bogus
    BY <1>2, ParsedIs DEF Reading
  <2>5. Y!Reads
    BY <2>3, <2>4 DEF Y!Reads
  <2>6. /\ Y!WallAt(yRequest.zone, yRequest.job.at) = yRequest.text.at
        /\ \A i \in Y!Showing(yRequest.zone, yRequest.text.at) : yRequest.job.at <= i
    BY <1>4, <2>5 DEF Y!EarliestInstant
  <2>7. yRequest.job.at \in Int
    BY <1>2 DEF AnyRequest, Stored
  <2> QED
    BY <1>2, <2>1, <2>2, <2>3, <2>6, <2>7, CutAndReadAgain
<1> QED
  BY <1>1, <1>4, <1>5, <1>6, <1>7 DEF Y!ScheduleTimeInv

(* In every time zone, a schedule is stored at the first instant that shows *)
(* its wall clock, a wall clock is refused only when none does or when the  *)
(* parser overlooks it, and saving an untouched dialog never delays a       *)
(* schedule (wall-clock.ts, view-support.tsx, scheduled-http.ts).           *)
THEOREM ScheduleTimeHolds ==
  ASSUME ScheduleTimeAssumption
  PROVE  Y!Spec => []Y!ScheduleTimeInv
<1>1. Y!Init => ScheduleTimeIInv
  BY InitScheduleTime
<1>2. ScheduleTimeIInv /\ [Y!Next]_Y!vars => ScheduleTimeIInv'
  BY NextScheduleTime
<1>3. ScheduleTimeIInv => Y!ScheduleTimeInv
  BY ScheduleTimeSuffices
<1> QED
  BY <1>1, <1>2, <1>3, PTL DEF Y!Spec

-----------------------------------------------------------------------------
(* Analytics *)

(* The cardinality is the library's. *)
LEMMA ICardinality == \A set : I!Cardinality(set) = Cardinality(set)
BY DEF I!Cardinality, Cardinality

(* The sum is the library's. *)
LEMMA ISumFunction == \A f : I!SumFunction(f) = SumFunction(f)
BY DEF I!SumFunction, I!SumFunctionOnSet, I!FoldFunctionOnSet, I!MapThenFoldSet, SumFunction, SumFunctionOnSet, FoldFunctionOnSet, MapThenFoldSet

AnalyticsAssumption ==
  /\ IsFiniteSet(ISessions) /\ IsFiniteSet(IJobs) /\ IsFiniteSet(IEnvelopes) /\ IJobs \cap IEnvelopes = {}
  /\ None \notin ISessions /\ None \notin IJobs /\ None \notin IEnvelopes /\ None \notin 0..IMaxTime
  /\ None \notin [state : I!JobStates, attempts : 0..IMaxAttempts, updated : 0..IMaxTime]
  /\ IMaxTime \in Nat /\ IMaxAttempts \in Nat /\ IMaxWindow \in Nat
  /\ IFroms \ {None} \subseteq Int /\ ITos \ {None} \subseteq Int

-----------------------------------------------------------------------------
(* The sum of a function is whatever is zero for nothing and grows by its    *)
(* value with each argument: the fold has one solution.                      *)
LEMMA SumIs ==
  ASSUME NEW D, IsFiniteSet(D), NEW f, DOMAIN f = D, NEW g, g[{}] = 0,
         \A T \in SUBSET D : \A x \in T : g[T] = f[x] + g[T \ {x}]
  PROVE  SumFunction(f) = g[D]
<1> DEFINE Eq(h) == h = [s \in SUBSET D |-> IF s = {} THEN 0
                           ELSE f[CHOOSE y \in s : TRUE] + h[s \ {CHOOSE y \in s : TRUE}]]
           sum == [s \in SUBSET D |-> g[s]]
           iter[s \in SUBSET D] == IF s = {} THEN 0
                                   ELSE LET x == CHOOSE y \in s : TRUE IN f[x] + iter[s \ {x}]
<1>1. Eq(sum)
  <2>1. \A s \in SUBSET D : s # {} =>
          g[s] = f[CHOOSE y \in s : TRUE] + sum[s \ {CHOOSE y \in s : TRUE}]
    <3> SUFFICES ASSUME NEW s \in SUBSET D, s # {}
                 PROVE  g[s] = f[CHOOSE y \in s : TRUE] + sum[s \ {CHOOSE y \in s : TRUE}]
      OBVIOUS
    <3>1. (CHOOSE y \in s : TRUE) \in s
      OBVIOUS
    <3> QED
      BY <3>1
  <2> QED
    BY <2>1
<1>2. ASSUME NEW h, Eq(h)
      PROVE  h = sum
  <2> DEFINE bad == {s \in SUBSET D : h[s] # g[s]}
             sizes == {n \in Nat : \E s \in bad : Cardinality(s) = n}
  <2>1. ASSUME bad # {}
        PROVE  FALSE
    <3>0. \A s \in SUBSET D : IsFiniteSet(s) /\ Cardinality(s) \in Nat
      BY FS_Subset, FS_CardinalityType
    <3>1. sizes \subseteq Nat /\ sizes # {}
      BY <2>1, <3>0
    <3>2. PICK n \in sizes : \A m \in sizes : n <= m
      <4> HIDE DEF sizes
      <4> QED
        BY <3>1, LeastOf
    <3>3. PICK s \in bad : Cardinality(s) = n
      OBVIOUS
    <3>4. s \in SUBSET D /\ h[s] # g[s]
      OBVIOUS
    <3>5. s # {}
      BY <3>4, <1>2
    <3>6. PICK x : x = (CHOOSE y \in s : TRUE) /\ x \in s
      BY <3>5
    <3>7. h[s] = f[x] + h[s \ {x}] /\ g[s] = f[x] + g[s \ {x}]
      BY <1>2, <3>4, <3>5, <3>6
    <3>8. s \ {x} \in bad
      BY <3>4, <3>7
    <3>9. Cardinality(s \ {x}) = n - 1 /\ Cardinality(s \ {x}) \in Nat /\ n \in Nat
      BY <3>0, <3>3, <3>4, <3>6, FS_RemoveElement
    <3>10. n - 1 \in sizes /\ ~(n <= n - 1)
      BY <3>8, <3>9
    <3> QED
      BY <3>2, <3>10
  <2>2. \A s \in SUBSET D : h[s] = g[s]
    BY <2>1
  <2> QED
    BY <2>2, <1>2
<1>3. iter = CHOOSE h : Eq(h)
  BY DEF iter
<1>4. iter = sum
  BY <1>1, <1>2, <1>3
<1>5. SumFunction(f) = iter[D]
  BY DEF SumFunction, SumFunctionOnSet, FoldFunctionOnSet, MapThenFoldSet
<1>6. sum[D] = g[D]
  OBVIOUS
<1> HIDE DEF iter, sum
<1> QED
  BY <1>4, <1>5, <1>6

LEMMA Apart ==
  ASSUME NEW A, NEW B, IsFiniteSet(A), IsFiniteSet(B), A \cap B = {}
  PROVE  /\ IsFiniteSet(A \cup B) /\ Cardinality(A) \in Nat /\ Cardinality(B) \in Nat
         /\ Cardinality(A \cup B) = Cardinality(A) + Cardinality(B)
<1>1. Cardinality(A \cap B) = 0
  BY FS_EmptySet
<1>2. Cardinality(A) \in Nat /\ Cardinality(B) \in Nat
  BY FS_CardinalityType
<1>3. IsFiniteSet(A \cup B) /\ Cardinality(A \cup B) = Cardinality(A) + Cardinality(B) - Cardinality(A \cap B)
  BY FS_Union
<1> QED
  BY <1>1, <1>2, <1>3

Of(X, o, T) == {x \in X : o[x] \in T}

LEMMA OfOneMore ==
  ASSUME NEW X, IsFiniteSet(X), NEW o, NEW T, NEW d \in T
  PROVE  /\ Cardinality(Of(X, o, T)) = Cardinality({x \in X : o[x] = d}) + Cardinality(Of(X, o, T \ {d}))
         /\ Cardinality({x \in X : o[x] = d}) \in Nat /\ Cardinality(Of(X, o, T \ {d})) \in Nat
<1> DEFINE A == {x \in X : o[x] = d}
           B == Of(X, o, T \ {d})
<1>1. A \subseteq X /\ B \subseteq X /\ A \cap B = {} /\ Of(X, o, T) = A \cup B
  BY DEF Of
<1>2. IsFiniteSet(A) /\ IsFiniteSet(B)
  BY <1>1, FS_Subset
<1> HIDE DEF A, B
<1>3. Cardinality(A \cup B) = Cardinality(A) + Cardinality(B) /\ Cardinality(A) \in Nat /\ Cardinality(B) \in Nat
  BY <1>1, <1>2, Apart
<1> QED
  BY <1>1, <1>3 DEF A, B

(* A sum of how many of one kind and of another there are for each of some   *)
(* owners is how many there are of each for all of them.                     *)
LEMMA SumOfParts ==
  ASSUME NEW D, IsFiniteSet(D), NEW f, DOMAIN f = D,
         NEW X, IsFiniteSet(X), NEW o, NEW Z, IsFiniteSet(Z), NEW p,
         \A d \in D : f[d] = Cardinality({x \in X : o[x] = d}) + Cardinality({y \in Z : p[y] = d})
  PROVE  /\ SumFunction(f) = Cardinality({x \in X : o[x] \in D}) + Cardinality({y \in Z : p[y] \in D})
         /\ Cardinality({x \in X : o[x] \in D}) \in Nat /\ Cardinality({y \in Z : p[y] \in D}) \in Nat
<1> DEFINE g == [T \in SUBSET D |-> Cardinality(Of(X, o, T)) + Cardinality(Of(Z, p, T))]
<1>0. \A T : IsFiniteSet(Of(X, o, T)) /\ Cardinality(Of(X, o, T)) \in Nat
             /\ IsFiniteSet(Of(Z, p, T)) /\ Cardinality(Of(Z, p, T)) \in Nat
  <2>1. \A T : Of(X, o, T) \subseteq X /\ Of(Z, p, T) \subseteq Z
    BY DEF Of
  <2> QED
    BY <2>1, FS_Subset, FS_CardinalityType
<1>1. g[{}] = 0
  <2>1. Of(X, o, {}) = {} /\ Of(Z, p, {}) = {}
    BY DEF Of
  <2>2. Cardinality(Of(X, o, {})) = 0 /\ Cardinality(Of(Z, p, {})) = 0
    BY <2>1, FS_EmptySet
  <2> QED
    BY <2>2
<1>2. ASSUME NEW T \in SUBSET D, NEW d \in T
      PROVE  g[T] = f[d] + g[T \ {d}]
  <2>1. /\ Cardinality(Of(X, o, T)) = Cardinality({x \in X : o[x] = d}) + Cardinality(Of(X, o, T \ {d}))
        /\ Cardinality({x \in X : o[x] = d}) \in Nat
    BY ONLY IsFiniteSet(X), d \in T, OfOneMore
  <2>2. /\ Cardinality(Of(Z, p, T)) = Cardinality({y \in Z : p[y] = d}) + Cardinality(Of(Z, p, T \ {d}))
        /\ Cardinality({y \in Z : p[y] = d}) \in Nat
    BY ONLY IsFiniteSet(Z), d \in T, OfOneMore
  <2>3. f[d] = Cardinality({x \in X : o[x] = d}) + Cardinality({y \in Z : p[y] = d})
    OBVIOUS
  <2>4. g[T] = Cardinality(Of(X, o, T)) + Cardinality(Of(Z, p, T))
        /\ g[T \ {d}] = Cardinality(Of(X, o, T \ {d})) + Cardinality(Of(Z, p, T \ {d}))
    OBVIOUS
  <2> HIDE DEF g
  <2> QED
    BY <1>0, <2>1, <2>2, <2>3, <2>4
<1>3. g[D] = Cardinality(Of(X, o, D)) + Cardinality(Of(Z, p, D))
  OBVIOUS
<1> HIDE DEF g
<1>4. SumFunction(f) = g[D]
  BY ONLY IsFiniteSet(D), DOMAIN f = D, <1>1, <1>2, SumIs
<1> QED
  BY <1>0, <1>3, <1>4 DEF Of

LEMMA SumOfCounts ==
  ASSUME NEW D, IsFiniteSet(D), NEW f, DOMAIN f = D, NEW X, IsFiniteSet(X), NEW o,
         \A d \in D : f[d] = Cardinality({x \in X : o[x] = d})
  PROVE  SumFunction(f) = Cardinality({x \in X : o[x] \in D}) /\ Cardinality({x \in X : o[x] \in D}) \in Nat
<1> DEFINE g == [T \in SUBSET D |-> Cardinality(Of(X, o, T))]
<1>0. \A T : IsFiniteSet(Of(X, o, T)) /\ Cardinality(Of(X, o, T)) \in Nat
  <2>1. \A T : Of(X, o, T) \subseteq X
    BY DEF Of
  <2> QED
    BY <2>1, FS_Subset, FS_CardinalityType
<1>1. g[{}] = 0
  <2>1. Of(X, o, {}) = {}
    BY DEF Of
  <2> QED
    BY <2>1, FS_EmptySet
<1>2. ASSUME NEW T \in SUBSET D, NEW d \in T
      PROVE  g[T] = f[d] + g[T \ {d}]
  <2>1. Cardinality(Of(X, o, T)) = Cardinality({x \in X : o[x] = d}) + Cardinality(Of(X, o, T \ {d}))
    BY ONLY IsFiniteSet(X), d \in T, OfOneMore
  <2>2. f[d] = Cardinality({x \in X : o[x] = d})
    OBVIOUS
  <2>3. g[T] = Cardinality(Of(X, o, T)) /\ g[T \ {d}] = Cardinality(Of(X, o, T \ {d}))
    OBVIOUS
  <2> HIDE DEF g
  <2> QED
    BY <2>1, <2>2, <2>3
<1>3. g[D] = Cardinality(Of(X, o, D))
  OBVIOUS
<1> HIDE DEF g
<1>4. SumFunction(f) = g[D]
  BY ONLY IsFiniteSet(D), DOMAIN f = D, <1>1, <1>2, SumIs
<1> QED
  BY <1>0, <1>3, <1>4 DEF Of
-----------------------------------------------------------------------------
(* What the figures count, over the sessions shown: messages received,       *)
(* attempts WAHA took a message of, jobs, and attempts after a first one.    *)
JobRow == [state : I!JobStates, attempts : 0..IMaxAttempts, updated : 0..IMaxTime]
IsTables(read) ==
  /\ read["jobs"] \in [IJobs -> {None} \cup JobRow]
  /\ read["events"] \in [IEnvelopes -> {None} \cup 0..IMaxTime]
  /\ IsFiniteSet(read["attempts"])
  /\ \A a \in read["attempts"] :
       a.job \in IJobs /\ a.number \in 1..IMaxAttempts /\ a.at \in 0..IMaxTime /\ a.id \in {None, a.job}

Received(read, S, w) == {e \in IEnvelopes : read["events"][e] # None /\ ISessionOf[e] \in S /\ I!inWindow(read["events"][e], w)}
Taken(read, S, w, f) == {a \in read["attempts"] : /\ ISessionOf[a.job] \in S /\ I!inWindow(a.at, w) /\ a.id # None
                                                  /\ I!Figure(I!attemptState(a.state)) = f}
Ended(read, S, w, st) == {j \in IJobs : /\ read["jobs"][j] # None /\ ISessionOf[j] \in S /\ I!inWindow(read["jobs"][j].updated, w)
                                        /\ read["jobs"][j].state = st}
Again(read) == {p \in IJobs \X (2..IMaxAttempts) : p[2] <= read["jobs"][p[1]].attempts}
Retried(read, S, w) == {p \in Again(read) : /\ read["jobs"][p[1]] # None /\ ISessionOf[p[1]] \in S
                                            /\ I!inWindow(read["jobs"][p[1]].updated, w)}
Acknowledged == {"submitted", "acknowledged", "failed", "unknown"}

LEMMA AllFinite ==
  ASSUME AnalyticsAssumption, NEW read, IsTables(read), NEW S, NEW w
  PROVE  /\ IsFiniteSet(Received(read, S, w)) /\ Cardinality(Received(read, S, w)) \in Nat
         /\ \A f : IsFiniteSet(Taken(read, S, w, f)) /\ Cardinality(Taken(read, S, w, f)) \in Nat
         /\ \A st : IsFiniteSet(Ended(read, S, w, st)) /\ Cardinality(Ended(read, S, w, st)) \in Nat
         /\ IsFiniteSet(Again(read)) /\ IsFiniteSet(Retried(read, S, w)) /\ Cardinality(Retried(read, S, w)) \in Nat
<1>1. Received(read, S, w) \subseteq IEnvelopes /\ \A f : Taken(read, S, w, f) \subseteq read["attempts"]
  BY DEF Received, Taken
<1>2. \A st : Ended(read, S, w, st) \subseteq IJobs
  BY DEF Ended
<1>3. Again(read) \subseteq IJobs \X (2..IMaxAttempts) /\ Retried(read, S, w) \subseteq Again(read)
  BY DEF Again, Retried
<1>4. IsFiniteSet(IJobs \X (2..IMaxAttempts))
  <2>1. IsFiniteSet(2..IMaxAttempts)
    BY FS_Interval DEF AnalyticsAssumption
  <2> QED
    BY <2>1, FS_Product DEF AnalyticsAssumption
<1>5. IsFiniteSet(Again(read)) /\ IsFiniteSet(Retried(read, S, w))
  BY <1>3, <1>4, FS_Subset
<1> QED
  BY <1>1, <1>2, <1>5, FS_Subset, FS_CardinalityType DEF AnalyticsAssumption, IsTables

(* No attempt is that of an event, for the ids are those of jobs.            *)
LEMMA AcksOf ==
  ASSUME AnalyticsAssumption, NEW read, IsTables(read), NEW s, NEW w, NEW f \in Acknowledged
  PROVE  I!acknowledgmentBreakdown(I!messageRows(read["events"], s, w), I!AttemptRows(read["attempts"], s, w))[f]
           = Cardinality({e \in Received(read, {s}, w) : f = "unknown"}) + Cardinality(Taken(read, {s}, w, f))
<1> DEFINE rows == I!messageRows(read["events"], s, w)
           ats == I!AttemptRows(read["attempts"], s, w)
<1>1. rows = Received(read, {s}, w) /\ rows \subseteq IEnvelopes
  BY DEF I!messageRows, Received
<1>2. \A a \in ats : a.id \notin IEnvelopes
  BY DEF I!AttemptRows, IsTables, AnalyticsAssumption
<1>3. \A e \in rows : I!Figure(I!StateOfMessage(I!messageIdentity(e), ats)) = "unknown"
  <2>1. \A e \in rows : {a \in ats : a.id = e} = {}
    BY <1>1, <1>2
  <2> QED
    BY <2>1 DEF I!StateOfMessage, I!messageIdentity, I!Figure
<1>4. {e \in rows : I!Figure(I!StateOfMessage(I!messageIdentity(e), ats)) = f} = {e \in Received(read, {s}, w) : f = "unknown"}
  <2> HIDE DEF rows, ats
  <2> QED
    BY <1>1, <1>3
<1>5. I!Orphans(rows, ats) = {a \in ats : a.id # None}
  <2>1. {I!messageIdentity(e) : e \in rows} = rows
    BY DEF I!messageIdentity
  <2> HIDE DEF rows, ats
  <2> QED
    BY <1>1, <1>2, <2>1 DEF I!Orphans
<1>6. {a \in I!Orphans(rows, ats) : I!Figure(I!attemptState(a.state)) = f} = Taken(read, {s}, w, f)
  <2> HIDE DEF rows
  <2> QED
    BY <1>5 DEF Taken, I!AttemptRows
<1>7. I!acknowledgmentBreakdown(rows, ats)[f]
        = Cardinality({e \in rows : I!Figure(I!StateOfMessage(I!messageIdentity(e), ats)) = f})
          + Cardinality({a \in I!Orphans(rows, ats) : I!Figure(I!attemptState(a.state)) = f})
  <2> HIDE DEF rows, ats
  <2> QED
    BY ICardinality DEF I!acknowledgmentBreakdown, Acknowledged
<1> HIDE DEF rows, ats
<1>8. I!acknowledgmentBreakdown(rows, ats)[f]
        = Cardinality({e \in Received(read, {s}, w) : f = "unknown"}) + Cardinality(Taken(read, {s}, w, f))
  BY <1>4, <1>6, <1>7
<1> QED
  BY <1>8 DEF rows, ats

LEMMA RetriesOfOne ==
  ASSUME AnalyticsAssumption, NEW read, IsTables(read), NEW j \in IJobs, read["jobs"][j] # None
  PROVE  I!Over(read["jobs"][j].attempts) = Cardinality({p \in Again(read) : p[1] = j})
<1> DEFINE k == read["jobs"][j].attempts
           T == {p \in Again(read) : p[1] = j}
           pair == [n \in 2..k |-> <<j, n>>]
<1>1. k \in 0..IMaxAttempts /\ IMaxAttempts \in Nat
  BY DEF IsTables, JobRow, AnalyticsAssumption
<1>2. T = {<<j, n>> : n \in 2..k}
  <2>1. \A n \in 2..k : <<j, n>> \in T
    BY <1>1 DEF Again
  <2>2. \A p \in T : \E n \in 2..k : p = <<j, n>>
    <3> SUFFICES ASSUME NEW p \in T PROVE \E n \in 2..k : p = <<j, n>>
      OBVIOUS
    <3>1. p \in IJobs \X (2..IMaxAttempts) /\ p[1] = j /\ p[2] <= read["jobs"][p[1]].attempts
      BY DEF Again
    <3>2. p = <<j, p[2]>> /\ p[2] \in 2..IMaxAttempts /\ p[2] <= k
      BY <3>1
    <3>3. p[2] \in 2..k
      BY <1>1, <3>2
    <3> QED
      BY <3>2, <3>3
  <2> HIDE DEF T
  <2> QED
    BY <2>1, <2>2
<1>3. pair \in Bijection(2..k, T)
  <2>1. pair \in [2..k -> T]
    BY <1>2
  <2>2. \A m, n \in 2..k : pair[m] = pair[n] => m = n
    OBVIOUS
  <2>3. \A p \in T : \E n \in 2..k : pair[n] = p
    BY <1>2
  <2> QED
    BY <2>1, <2>2, <2>3 DEF Bijection, Injection, IsInjective, Surjection
<1>4. IsFiniteSet(2..k) /\ Cardinality(2..k) = I!Over(k)
  <2>1. k \in Int
    BY <1>1
  <2> HIDE DEF k
  <2>2. IsFiniteSet(2..k) /\ Cardinality(2..k) = IF 2 > k THEN 0 ELSE k - 2 + 1
    BY <2>1, FS_Interval
  <2> QED
    BY <2>1, <2>2 DEF I!Over
<1>5. ExistsBijection(2..k, T)
  BY <1>3 DEF ExistsBijection
<1> HIDE DEF T, k, pair
<1>6. Cardinality(T) = Cardinality(2..k)
  BY <1>4, <1>5, FS_Bijection
<1> QED
  BY <1>4, <1>6 DEF T, k

(* The figures of a session, and their sums over the sessions shown.         *)
LEMMA RetriesOf ==
  ASSUME AnalyticsAssumption, NEW read, IsTables(read), NEW s, NEW w
  PROVE  I!sessionProjection(read, s, w).retries = Cardinality(Retried(read, {s}, w))
<1> DEFINE rows == I!JobRows(read["jobs"], s, w)
           f == [j \in rows |-> I!Over(read["jobs"][j].attempts)]
           X == Again(read)
           o == [p \in X |-> p[1]]
<1>1. rows \subseteq IJobs /\ \A j \in rows : read["jobs"][j] # None
  BY DEF I!JobRows
<1>2. IsFiniteSet(rows) /\ IsFiniteSet(X)
  BY <1>1, AllFinite, FS_Subset DEF AnalyticsAssumption
<1>3. \A j \in rows : f[j] = Cardinality({p \in X : o[p] = j})
  <2> SUFFICES ASSUME NEW j \in rows PROVE f[j] = Cardinality({p \in X : o[p] = j})
    OBVIOUS
  <2>1. {p \in X : o[p] = j} = {p \in Again(read) : p[1] = j}
    OBVIOUS
  <2>2. I!Over(read["jobs"][j].attempts) = Cardinality({p \in Again(read) : p[1] = j})
    <3> HIDE DEF rows
    <3> QED
      BY <1>1, RetriesOfOne
  <2>3. f[j] = I!Over(read["jobs"][j].attempts)
    OBVIOUS
  <2> QED
    BY <2>1, <2>2, <2>3
<1>4. DOMAIN f = rows
  OBVIOUS
<1>5. {p \in X : o[p] \in rows} = Retried(read, {s}, w)
  <2>1. \A p \in X : p[1] \in IJobs
    BY DEF Again
  <2>2. {p \in X : o[p] \in rows} = {p \in X : p[1] \in rows}
    OBVIOUS
  <2>3. {p \in X : p[1] \in rows} = Retried(read, {s}, w)
    BY <2>1 DEF Retried, I!JobRows
  <2> QED
    BY <2>2, <2>3
<1>6. I!sessionProjection(read, s, w).retries = SumFunction(f)
  BY ICardinality, ISumFunction DEF I!sessionProjection
<1> HIDE DEF rows, f, X, o
<1>7. SumFunction(f) = Cardinality({p \in X : o[p] \in rows})
  BY ONLY <1>2, <1>3, <1>4, SumOfCounts
<1> QED
  BY <1>5, <1>6, <1>7

LEMMA FiguresAre ==
  ASSUME AnalyticsAssumption, NEW read, IsTables(read), NEW shown, IsFiniteSet(shown), NEW w
  PROVE  LET P == I!projectAnalytics(read, shown, w) IN
         /\ P.messages = Cardinality(Received(read, shown, w))
         /\ P.retries = Cardinality(Retried(read, shown, w))
         /\ DOMAIN P.acknowledgments = Acknowledged
         /\ \A f \in Acknowledged :
              P.acknowledgments[f] = Cardinality({e \in Received(read, shown, w) : f = "unknown"})
                                     + Cardinality(Taken(read, shown, w, f))
         /\ \A st \in I!JobStates : P.outcomes[st] = Cardinality(Ended(read, shown, w, st))
<1> DEFINE P == I!projectAnalytics(read, shown, w)
           of(s) == I!sessionProjection(read, s, w)
           m == [s \in shown |-> of(s).messages]
           r == [s \in shown |-> of(s).retries]
           acks(f) == [s \in shown |-> of(s).acknowledgments[f]]
           out(st) == [s \in shown |-> of(s).outcomes[st]]
<1>1. /\ P.messages = SumFunction(m) /\ P.retries = SumFunction(r)
      /\ DOMAIN P.acknowledgments = Acknowledged
      /\ \A f \in Acknowledged : P.acknowledgments[f] = SumFunction(acks(f))
      /\ \A st \in I!JobStates : P.outcomes[st] = SumFunction(out(st))
  <2> HIDE DEF m, r, acks, out
  <2>1. P = [messages |-> SumFunction(m),
             acknowledgments |-> [f \in Acknowledged |-> SumFunction(acks(f))],
             outcomes |-> [st \in I!JobStates |-> SumFunction(out(st))],
             retries |-> SumFunction(r), failureRate |-> P.failureRate]
    BY ISumFunction DEF I!projectAnalytics, m, r, acks, out, Acknowledged
  <2> HIDE DEF P
  <2> QED
    BY <2>1
<1>2. SumFunction(m) = Cardinality(Received(read, shown, w))
  <2> DEFINE X == {e \in IEnvelopes : read["events"][e] # None /\ I!inWindow(read["events"][e], w)}
             o == [e \in X |-> ISessionOf[e]]
  <2>1. IsFiniteSet(X)
    <3>1. X \subseteq IEnvelopes
      OBVIOUS
    <3> QED
      BY <3>1, FS_Subset DEF AnalyticsAssumption
  <2>2. \A s \in shown : m[s] = Cardinality({e \in X : o[e] = s})
    <3> SUFFICES ASSUME NEW s \in shown PROVE m[s] = Cardinality({e \in X : o[e] = s})
      OBVIOUS
    <3>1. {e \in X : o[e] = s} = I!messageRows(read["events"], s, w)
      BY DEF I!messageRows
    <3>2. m[s] = Cardinality(I!messageRows(read["events"], s, w))
      BY ICardinality, ISumFunction DEF I!sessionProjection
    <3> QED
      BY <3>1, <3>2
  <2>3. {e \in X : o[e] \in shown} = Received(read, shown, w)
    BY DEF Received
  <2>4. DOMAIN m = shown
    OBVIOUS
  <2> HIDE DEF m, X, o
  <2>5. SumFunction(m) = Cardinality({e \in X : o[e] \in shown})
    BY ONLY IsFiniteSet(shown), <2>1, <2>2, <2>4, SumOfCounts
  <2> QED
    BY <2>3, <2>5
<1>3. SumFunction(r) = Cardinality(Retried(read, shown, w))
  <2> DEFINE X == {p \in Again(read) : read["jobs"][p[1]] # None /\ I!inWindow(read["jobs"][p[1]].updated, w)}
             o == [p \in X |-> ISessionOf[p[1]]]
  <2>1. IsFiniteSet(X)
    <3>1. X \subseteq Again(read) /\ IsFiniteSet(Again(read))
      BY AllFinite
    <3> HIDE DEF X
    <3> QED
      BY <3>1, FS_Subset
  <2>2. \A s \in shown : r[s] = Cardinality({p \in X : o[p] = s})
    <3> SUFFICES ASSUME NEW s \in shown PROVE r[s] = Cardinality({p \in X : o[p] = s})
      OBVIOUS
    <3>1. {p \in X : o[p] = s} = Retried(read, {s}, w)
      BY DEF Retried
    <3>2. r[s] = Cardinality(Retried(read, {s}, w))
      BY RetriesOf
    <3> QED
      BY <3>1, <3>2
  <2>3. {p \in X : o[p] \in shown} = Retried(read, shown, w)
    BY DEF Retried
  <2>4. DOMAIN r = shown
    OBVIOUS
  <2> HIDE DEF r, X, o
  <2>5. SumFunction(r) = Cardinality({p \in X : o[p] \in shown})
    BY ONLY IsFiniteSet(shown), <2>1, <2>2, <2>4, SumOfCounts
  <2> QED
    BY <2>3, <2>5
<1>4. ASSUME NEW f \in Acknowledged
      PROVE  SumFunction(acks(f)) = Cardinality({e \in Received(read, shown, w) : f = "unknown"})
                                    + Cardinality(Taken(read, shown, w, f))
  <2> DEFINE h == acks(f)
             X == {e \in IEnvelopes : f = "unknown" /\ read["events"][e] # None /\ I!inWindow(read["events"][e], w)}
             o == [e \in X |-> ISessionOf[e]]
             Z == {a \in read["attempts"] : I!inWindow(a.at, w) /\ a.id # None /\ I!Figure(I!attemptState(a.state)) = f}
             p == [a \in Z |-> ISessionOf[a.job]]
  <2>1. IsFiniteSet(X) /\ IsFiniteSet(Z)
    <3>1. X \subseteq IEnvelopes /\ Z \subseteq read["attempts"]
      OBVIOUS
    <3> HIDE DEF X, Z
    <3> QED
      BY <3>1, FS_Subset DEF AnalyticsAssumption, IsTables
  <2>2. \A s \in shown : h[s] = Cardinality({e \in X : o[e] = s}) + Cardinality({a \in Z : p[a] = s})
    <3> SUFFICES ASSUME NEW s \in shown
                 PROVE  h[s] = Cardinality({e \in X : o[e] = s}) + Cardinality({a \in Z : p[a] = s})
      OBVIOUS
    <3>1. {e \in X : o[e] = s} = {e \in Received(read, {s}, w) : f = "unknown"}
      BY DEF Received
    <3>2. {a \in Z : p[a] = s} = Taken(read, {s}, w, f)
      BY DEF Taken
    <3>3. h[s] = I!acknowledgmentBreakdown(I!messageRows(read["events"], s, w), I!AttemptRows(read["attempts"], s, w))[f]
      BY ICardinality, ISumFunction DEF I!sessionProjection
    <3>4. I!acknowledgmentBreakdown(I!messageRows(read["events"], s, w), I!AttemptRows(read["attempts"], s, w))[f]
            = Cardinality({e \in Received(read, {s}, w) : f = "unknown"}) + Cardinality(Taken(read, {s}, w, f))
      BY ONLY AnalyticsAssumption, IsTables(read), f \in Acknowledged, AcksOf
    <3> HIDE DEF h, X, Z, o, p
    <3> QED
      BY <3>1, <3>2, <3>3, <3>4
  <2>3. {e \in X : o[e] \in shown} = {e \in Received(read, shown, w) : f = "unknown"}
    BY DEF Received
  <2>4. {a \in Z : p[a] \in shown} = Taken(read, shown, w, f)
    BY DEF Taken
  <2>5. DOMAIN h = shown
    OBVIOUS
  <2>6. acks(f) = h
    OBVIOUS
  <2> HIDE DEF acks, h, X, Z, o, p
  <2>7. SumFunction(h) = Cardinality({e \in X : o[e] \in shown}) + Cardinality({a \in Z : p[a] \in shown})
    BY ONLY IsFiniteSet(shown), <2>1, <2>2, <2>5, SumOfParts
  <2> QED
    BY <2>3, <2>4, <2>6, <2>7
<1>5. ASSUME NEW st \in I!JobStates
      PROVE  SumFunction(out(st)) = Cardinality(Ended(read, shown, w, st))
  <2> DEFINE h == out(st)
             X == {j \in IJobs : read["jobs"][j] # None /\ I!inWindow(read["jobs"][j].updated, w) /\ read["jobs"][j].state = st}
             o == [j \in X |-> ISessionOf[j]]
  <2>1. IsFiniteSet(X)
    <3>1. X \subseteq IJobs
      OBVIOUS
    <3> QED
      BY <3>1, FS_Subset DEF AnalyticsAssumption
  <2>2. \A s \in shown : h[s] = Cardinality({j \in X : o[j] = s})
    <3> SUFFICES ASSUME NEW s \in shown PROVE h[s] = Cardinality({j \in X : o[j] = s})
      OBVIOUS
    <3>1. {j \in X : o[j] = s} = {j \in I!JobRows(read["jobs"], s, w) : read["jobs"][j].state = st}
      BY DEF I!JobRows
    <3>2. h[s] = Cardinality({j \in I!JobRows(read["jobs"], s, w) : read["jobs"][j].state = st})
      BY ICardinality, ISumFunction DEF I!sessionProjection, I!outcomes
    <3> QED
      BY <3>1, <3>2
  <2>3. {j \in X : o[j] \in shown} = Ended(read, shown, w, st)
    BY DEF Ended
  <2>4. DOMAIN h = shown
    OBVIOUS
  <2>5. out(st) = h
    OBVIOUS
  <2> HIDE DEF out, h, X, o
  <2>6. SumFunction(h) = Cardinality({j \in X : o[j] \in shown})
    BY ONLY IsFiniteSet(shown), <2>1, <2>2, <2>4, SumOfCounts
  <2> QED
    BY <2>3, <2>5, <2>6
<1> HIDE DEF P, m, r, acks, out
<1>6. /\ P.messages = Cardinality(Received(read, shown, w)) /\ P.retries = Cardinality(Retried(read, shown, w))
      /\ DOMAIN P.acknowledgments = Acknowledged
      /\ \A f \in Acknowledged :
           P.acknowledgments[f] = Cardinality({e \in Received(read, shown, w) : f = "unknown"})
                                  + Cardinality(Taken(read, shown, w, f))
      /\ \A st \in I!JobStates : P.outcomes[st] = Cardinality(Ended(read, shown, w, st))
  BY <1>1, <1>2, <1>3, <1>4, <1>5
<1> QED
  BY <1>6 DEF P
-----------------------------------------------------------------------------
(* Two windows that meet share nothing and leave nothing out.                *)
LEMMA WindowsMeet ==
  ASSUME AnalyticsAssumption, NEW read, IsTables(read), NEW S, IsFiniteSet(S), NEW b \in 1..IMaxTime
  PROVE  LET all == I!projectAnalytics(read, S, [from |-> 0, to |-> IMaxTime + 1])
             before == I!projectAnalytics(read, S, [from |-> 0, to |-> b])
             after == I!projectAnalytics(read, S, [from |-> b, to |-> IMaxTime + 1]) IN
         /\ all.messages = before.messages + after.messages
         /\ all.retries = before.retries + after.retries
         /\ \A f \in DOMAIN all.acknowledgments :
              all.acknowledgments[f] = before.acknowledgments[f] + after.acknowledgments[f]
         /\ \A st \in I!JobStates : all.outcomes[st] = before.outcomes[st] + after.outcomes[st]
<1> DEFINE w == [from |-> 0, to |-> IMaxTime + 1]
           u == [from |-> 0, to |-> b]
           v == [from |-> b, to |-> IMaxTime + 1]
           all == I!projectAnalytics(read, S, w)
           before == I!projectAnalytics(read, S, u)
           after == I!projectAnalytics(read, S, v)
<1>1. \A t \in 0..IMaxTime : I!inWindow(t, w) /\ (I!inWindow(t, u) <=> ~I!inWindow(t, v))
  BY DEF I!inWindow, AnalyticsAssumption
<1>2. /\ \A e \in IEnvelopes : read["events"][e] # None => read["events"][e] \in 0..IMaxTime
      /\ \A j \in IJobs : read["jobs"][j] # None => read["jobs"][j].updated \in 0..IMaxTime
      /\ \A a \in read["attempts"] : a.at \in 0..IMaxTime
  BY DEF IsTables, JobRow
<1> HIDE DEF w, u, v
<1>3. Cardinality(Received(read, S, w)) = Cardinality(Received(read, S, u)) + Cardinality(Received(read, S, v))
  <2>1. Received(read, S, w) = Received(read, S, u) \cup Received(read, S, v) /\ Received(read, S, u) \cap Received(read, S, v) = {}
    BY <1>1, <1>2 DEF Received
  <2> QED
    BY <2>1, AllFinite, Apart
<1>4. Cardinality(Retried(read, S, w)) = Cardinality(Retried(read, S, u)) + Cardinality(Retried(read, S, v))
  <2>1. \A p \in Again(read) : p[1] \in IJobs
    BY DEF Again
  <2>2. Retried(read, S, w) = Retried(read, S, u) \cup Retried(read, S, v) /\ Retried(read, S, u) \cap Retried(read, S, v) = {}
    BY <1>1, <1>2, <2>1 DEF Retried
  <2> QED
    BY <2>2, AllFinite, Apart
<1>5. ASSUME NEW f
      PROVE  Cardinality(Taken(read, S, w, f)) = Cardinality(Taken(read, S, u, f)) + Cardinality(Taken(read, S, v, f))
  <2>1. Taken(read, S, w, f) = Taken(read, S, u, f) \cup Taken(read, S, v, f) /\ Taken(read, S, u, f) \cap Taken(read, S, v, f) = {}
    BY <1>1, <1>2 DEF Taken
  <2> QED
    BY <2>1, AllFinite, Apart
<1>6. ASSUME NEW st
      PROVE  Cardinality(Ended(read, S, w, st)) = Cardinality(Ended(read, S, u, st)) + Cardinality(Ended(read, S, v, st))
  <2>1. Ended(read, S, w, st) = Ended(read, S, u, st) \cup Ended(read, S, v, st) /\ Ended(read, S, u, st) \cap Ended(read, S, v, st) = {}
    BY <1>1, <1>2 DEF Ended
  <2> QED
    BY <2>1, AllFinite, Apart
<1>7. ASSUME NEW f, NEW x
      PROVE  /\ f = "unknown" => {e \in Received(read, S, x) : f = "unknown"} = Received(read, S, x)
             /\ f # "unknown" => Cardinality({e \in Received(read, S, x) : f = "unknown"}) = 0
  <2>1. f # "unknown" => {e \in Received(read, S, x) : f = "unknown"} = {}
    OBVIOUS
  <2> QED
    BY <2>1, FS_EmptySet
<1>8. ASSUME NEW x
      PROVE  /\ I!projectAnalytics(read, S, x).messages = Cardinality(Received(read, S, x))
             /\ I!projectAnalytics(read, S, x).retries = Cardinality(Retried(read, S, x))
             /\ DOMAIN I!projectAnalytics(read, S, x).acknowledgments = Acknowledged
             /\ \A f \in Acknowledged :
                  I!projectAnalytics(read, S, x).acknowledgments[f]
                    = (IF f = "unknown" THEN Cardinality(Received(read, S, x)) ELSE 0) + Cardinality(Taken(read, S, x, f))
             /\ \A st \in I!JobStates : I!projectAnalytics(read, S, x).outcomes[st] = Cardinality(Ended(read, S, x, st))
  <2> DEFINE P == I!projectAnalytics(read, S, x)
  <2>1. /\ P.messages = Cardinality(Received(read, S, x)) /\ P.retries = Cardinality(Retried(read, S, x))
        /\ DOMAIN P.acknowledgments = Acknowledged
        /\ \A f \in Acknowledged :
             P.acknowledgments[f] = Cardinality({e \in Received(read, S, x) : f = "unknown"}) + Cardinality(Taken(read, S, x, f))
        /\ \A st \in I!JobStates : P.outcomes[st] = Cardinality(Ended(read, S, x, st))
    BY FiguresAre
  <2> HIDE DEF P
  <2>2. \A f : Cardinality({e \in Received(read, S, x) : f = "unknown"}) = IF f = "unknown" THEN Cardinality(Received(read, S, x)) ELSE 0
    BY <1>7
  <2>3. /\ P.messages = Cardinality(Received(read, S, x)) /\ P.retries = Cardinality(Retried(read, S, x))
        /\ DOMAIN P.acknowledgments = Acknowledged
        /\ \A f \in Acknowledged :
             P.acknowledgments[f] = (IF f = "unknown" THEN Cardinality(Received(read, S, x)) ELSE 0) + Cardinality(Taken(read, S, x, f))
        /\ \A st \in I!JobStates : P.outcomes[st] = Cardinality(Ended(read, S, x, st))
    BY <2>1, <2>2
  <2> QED
    BY <2>3 DEF P
<1>9. /\ \A x : Cardinality(Received(read, S, x)) \in Nat
      /\ \A x, f : Cardinality(Taken(read, S, x, f)) \in Nat
  BY AllFinite
<1>10. /\ all.messages = before.messages + after.messages /\ all.retries = before.retries + after.retries
       /\ \A st \in I!JobStates : all.outcomes[st] = before.outcomes[st] + after.outcomes[st]
  BY <1>3, <1>4, <1>6, <1>8
<1>11. \A f \in Acknowledged : all.acknowledgments[f] = before.acknowledgments[f] + after.acknowledgments[f]
  <2> SUFFICES ASSUME NEW f \in Acknowledged PROVE all.acknowledgments[f] = before.acknowledgments[f] + after.acknowledgments[f]
    OBVIOUS
  <2> HIDE DEF all, before, after
  <2>1. /\ all.acknowledgments[f] = (IF f = "unknown" THEN Cardinality(Received(read, S, w)) ELSE 0) + Cardinality(Taken(read, S, w, f))
        /\ before.acknowledgments[f] = (IF f = "unknown" THEN Cardinality(Received(read, S, u)) ELSE 0) + Cardinality(Taken(read, S, u, f))
        /\ after.acknowledgments[f] = (IF f = "unknown" THEN Cardinality(Received(read, S, v)) ELSE 0) + Cardinality(Taken(read, S, v, f))
    BY <1>8 DEF all, before, after
  <2> QED
    BY <1>3, <1>5, <1>9, <2>1
<1>12. DOMAIN all.acknowledgments = Acknowledged
  BY <1>8
<1> QED
  BY <1>10, <1>11, <1>12 DEF w, u, v

(* The latest of the entries before a time, and what lies between.           *)
LEMMA TimeActive ==
  ASSUME AnalyticsAssumption, NEW h \in I!Histories, NEW f \in 0..IMaxTime, NEW t \in 1..(IMaxTime + 1), f < t
  PROVE  I!uptimeMs(I!statusHistory(h, [from |-> f, to |-> t]), [from |-> f, to |-> t])
           = IF I!ActiveAt(h, t - 1) THEN None ELSE Cardinality({u \in f..(t - 1) : I!ActiveAt(h, u)})
<1> DEFINE w == [from |-> f, to |-> t]
           K == I!statusHistory(h, w)
           active == {e \in K : e.status \in I!activeStatuses}
           later(e) == {d \in K : d.at > e.at}
           next(e) == CHOOSE d \in later(e) : \A x \in later(e) : d.at <= x.at
           start(e) == IF e.at > w.from THEN e.at ELSE w.from
           end(e) == IF next(e).at < w.to THEN next(e).at ELSE w.to
           length(e) == IF end(e) > start(e) THEN end(e) - start(e) ELSE 0
           lengths == [e \in active |-> length(e)]
           Latest(e, u) == e.at <= u /\ \A d \in h : d.at <= u => d.at <= e.at
           X == {u \in f..(t - 1) : I!ActiveAt(h, u)}
           of == [u \in X |-> CHOOSE e \in h : Latest(e, u)]
<1>1. /\ f \in Nat /\ t \in Nat /\ w.from = f /\ w.to = t /\ IMaxTime \in Nat
      /\ \A e \in h : e.at \in Nat /\ e.status \in {"WORKING", "STOPPED"}
      /\ \A d, e \in h : d.at = e.at => d = e
  BY DEF I!Histories, AnalyticsAssumption
<1>2. K = {e \in h : e.at < t} /\ active = {e \in K : e.status = "WORKING"}
  BY <1>1 DEF I!statusHistory, I!activeStatuses
<1>3. I!uptimeMs(K, w) = IF \E e \in active : later(e) = {} THEN None ELSE SumFunction(lengths)
  BY ISumFunction DEF I!uptimeMs
<1> HIDE DEF w, K, active
<1>4. \A u : \A d, e \in h : Latest(d, u) /\ Latest(e, u) => d = e
  BY <1>1
<1>5. \A u : I!ActiveAt(h, u) <=> \E e \in h : Latest(e, u) /\ e.status = "WORKING"
  BY DEF I!ActiveAt
<1>6. \A e \in K : later(e) = {} <=> Latest(e, t - 1)
  <2> SUFFICES ASSUME NEW e \in K PROVE later(e) = {} <=> Latest(e, t - 1)
    OBVIOUS
  <2>1. e \in h /\ e.at < t /\ e.at \in Nat /\ t - 1 \in Int /\ e.at <= t - 1
    BY <1>1, <1>2
  <2>2. \A d \in h : d.at \in Nat /\ (d.at <= t - 1 <=> d \in K)
    BY <1>1, <1>2
  <2> QED
    BY <2>1, <2>2, <1>2
<1>7. (\E e \in active : later(e) = {}) <=> I!ActiveAt(h, t - 1)
  <2>1. ASSUME NEW e \in h, Latest(e, t - 1), e.status = "WORKING"
        PROVE  e \in active
    BY <1>1, <1>2, <2>1
  <2>2. \A e \in active : e \in K /\ e \in h /\ e.status = "WORKING"
    BY <1>2
  <2> QED
    BY <1>5, <1>6, <2>1, <2>2
<1>8. ASSUME NEW e \in active, later(e) # {}
      PROVE  lengths[e] = Cardinality({u \in X : of[u] = e})
  <2>1. e \in h /\ e \in K /\ e.status = "WORKING" /\ e.at \in Nat /\ e.at < t
    BY <1>1, <1>2
  <2>2. next(e) \in later(e) /\ \A x \in later(e) : next(e).at <= x.at
    <3> DEFINE times == {n \in Nat : \E d \in later(e) : d.at = n}
    <3>0. \A d \in later(e) : d.at \in Nat
      BY <1>1, <1>2
    <3>1. times \subseteq Nat /\ times # {}
      BY <1>8, <3>0
    <3>2. PICK n \in times : \A m \in times : n <= m
      <4> HIDE DEF times
      <4> QED
        BY <3>1, LeastOf
    <3>3. PICK d \in later(e) : d.at = n
      OBVIOUS
    <3>4. \A x \in later(e) : d.at <= x.at
      BY <3>0, <3>2, <3>3
    <3> QED
      BY <3>4
  <2>3. PICK z : z = next(e).at /\ z \in Nat /\ z > e.at /\ z < t
    <3>1. \A d \in later(e) : d.at \in Nat /\ d.at > e.at /\ d.at < t
      BY <1>1, <1>2
    <3>2. next(e).at \in Nat /\ next(e).at > e.at /\ next(e).at < t
      BY <2>2, <3>1
    <3> HIDE DEF next
    <3> QED
      BY <3>2
  <2>4. PICK s : s \in Nat /\ s >= f /\ s >= e.at /\ (s = f \/ s = e.at) /\ lengths[e] = IF z > s THEN z - s ELSE 0
    <3>1. start(e) \in Nat /\ start(e) >= f /\ start(e) >= e.at /\ (start(e) = f \/ start(e) = e.at)
      BY <1>1, <2>1
    <3>2. lengths[e] = IF z > start(e) THEN z - start(e) ELSE 0
      BY <1>1, <2>1, <2>3
    <3> HIDE DEF start, lengths
    <3> QED
      BY <3>1, <3>2
  <2>5. ASSUME NEW u \in Nat
        PROVE  Latest(e, u) <=> e.at <= u /\ u < z
    <3>1. ASSUME Latest(e, u), z <= u
          PROVE  FALSE
      <4>1. next(e) \in h /\ next(e).at <= u /\ ~(next(e).at <= e.at)
        BY <1>1, <1>2, <2>1, <2>2, <2>3, <3>1
      <4> HIDE DEF next
      <4> QED
        BY <3>1, <4>1
    <3>2. ASSUME e.at <= u, u < z, NEW d \in h, d.at <= u, ~(d.at <= e.at)
          PROVE  FALSE
      <4>1. d.at \in Nat /\ d.at < t /\ d.at > e.at /\ d.at < z
        BY <1>1, <2>1, <2>3, <3>2
      <4>2. d \in later(e)
        BY <1>2, <3>2, <4>1
      <4>3. z <= d.at
        BY <2>2, <2>3, <4>2
      <4> QED
        BY <2>3, <4>1, <4>3
    <3> QED
      BY <2>3, <3>1, <3>2
  <2>6. \A u \in X : u \in Nat /\ f <= u /\ u <= t - 1
    BY <1>1
  <2>7. \A u \in X : of[u] = e <=> Latest(e, u)
    <3> SUFFICES ASSUME NEW u \in X PROVE of[u] = e <=> Latest(e, u)
      OBVIOUS
    <3>1. \E d \in h : Latest(d, u)
      BY <1>5
    <3>2. of[u] \in h /\ Latest(of[u], u)
      BY <3>1
    <3> HIDE DEF of, Latest
    <3> QED
      BY <1>4, <2>1, <3>2
  <2>8. \A u \in f..(t - 1) : Latest(e, u) => u \in X
    BY <1>5, <2>1
  <2>9. {u \in X : of[u] = e} = s..(z - 1)
    <3>1. ASSUME NEW u \in X, of[u] = e
          PROVE  u \in s..(z - 1)
      <4>1. u \in Nat /\ f <= u /\ e.at <= u /\ u < z
        BY <2>5, <2>6, <2>7, <3>1
      <4> QED
        BY <2>3, <2>4, <4>1
    <3>2. ASSUME NEW u \in s..(z - 1)
          PROVE  u \in X /\ of[u] = e
      <4>1. u \in Nat /\ e.at <= u /\ u < z /\ u \in f..(t - 1)
        BY <1>1, <2>1, <2>3, <2>4, <3>2
      <4> HIDE DEF X, of
      <4> QED
        BY <2>5, <2>7, <2>8, <4>1
    <3> HIDE DEF X, of
    <3> QED
      BY <3>1, <3>2
  <2> HIDE DEF X, of, lengths
  <2>10. Cardinality(s..(z - 1)) = IF s > z - 1 THEN 0 ELSE (z - 1) - s + 1
    <3>1. s \in Int /\ z - 1 \in Int
      BY <2>3, <2>4
    <3> QED
      BY <3>1, FS_Interval
  <2>11. z \in Nat
    BY <2>3
  <2>12. Cardinality({u \in X : of[u] = e}) = Cardinality(s..(z - 1))
    BY <2>9
  <2>13. Cardinality(s..(z - 1)) = IF z > s THEN z - s ELSE 0
    BY <2>4, <2>10, <2>11
  <2> QED
    BY <2>4, <2>12, <2>13
<1>9. CASE I!ActiveAt(h, t - 1)
  BY <1>3, <1>7, <1>9 DEF w, K
<1>10. CASE ~I!ActiveAt(h, t - 1)
  <2>1. \A e \in active : later(e) # {}
    BY <1>7, <1>10
  <2>2. \A e \in active : lengths[e] = Cardinality({u \in X : of[u] = e})
    BY <1>8, <2>1
  <2>3. IsFiniteSet(X)
    <3>1. IsFiniteSet(f..(t - 1))
      BY <1>1, FS_Interval
    <3>2. X \subseteq f..(t - 1)
      OBVIOUS
    <3> HIDE DEF X
    <3> QED
      BY <3>1, <3>2, FS_Subset
  <2>4. IsFiniteSet(active)
    <3>1. h \subseteq [at : 0..(IMaxTime + 1), status : {"WORKING", "STOPPED"}]
      BY DEF I!Histories
    <3> DEFINE key == [e \in h |-> <<e.at, e.status>>]
               B == (0..(IMaxTime + 1)) \X {"WORKING", "STOPPED"}
    <3>2. IsFiniteSet(B)
      <4>1. IsFiniteSet(0..(IMaxTime + 1))
        BY <1>1, FS_Interval
      <4>2. IsFiniteSet({"WORKING"} \cup {"STOPPED"})
        BY FS_Singleton, FS_Union
      <4>3. {"WORKING"} \cup {"STOPPED"} = {"WORKING", "STOPPED"}
        OBVIOUS
      <4> QED
        BY <4>1, <4>2, <4>3, FS_Product
    <3>3. key \in Injection(h, B)
      <4>1. key \in [h -> B]
        BY <3>1
      <4>2. \A d, e \in h : key[d] = key[e] => d = e
        BY <1>1
      <4> QED
        BY <4>1, <4>2 DEF Injection, IsInjective
    <3> HIDE DEF key, B
    <3>4. IsFiniteSet(h)
      BY <3>2, <3>3, FS_Injection
    <3>5. active \subseteq h
      BY <1>2
    <3> QED
      BY <3>4, <3>5, FS_Subset
  <2>5. DOMAIN lengths = active
    OBVIOUS
  <2>6. {u \in X : of[u] \in active} = X
    <3> SUFFICES ASSUME NEW u \in X PROVE of[u] \in active
      OBVIOUS
    <3>1. PICK d \in h : Latest(d, u) /\ d.status = "WORKING"
      BY <1>5
    <3>2. of[u] = d
      <4>1. of[u] \in h /\ Latest(of[u], u)
        BY <3>1
      <4> HIDE DEF of, Latest
      <4> QED
        BY <1>4, <3>1, <4>1
    <3>3. d.at <= u /\ u <= t - 1 /\ u \in Int /\ d.at \in Nat
      BY <1>1, <3>1
    <3> QED
      BY <1>1, <1>2, <3>1, <3>2, <3>3
  <2>7. I!uptimeMs(K, w) = SumFunction(lengths)
    BY <1>3, <2>1
  <2> HIDE DEF X, of, lengths
  <2>8. SumFunction(lengths) = Cardinality({u \in X : of[u] \in active})
    BY ONLY <2>2, <2>3, <2>4, <2>5, SumOfCounts
  <2>9. I!uptimeMs(K, w) = Cardinality(X)
    BY <2>6, <2>7, <2>8
  <2> QED
    BY <1>10, <2>9 DEF X, K, w
<1> QED
  BY <1>9, <1>10
-----------------------------------------------------------------------------
(* The inductive invariant: what the tables are at any time, and what was    *)
(* read of them.                                                             *)
Attempt == [job : IJobs, number : 1..IMaxAttempts, at : 0..IMaxTime, id : {None} \cup IJobs,
            state : I!JobStates \cup {"acknowledged"}]
IsJobs(J, t) == J \in [IJobs -> {None} \cup JobRow] /\ \A j \in IJobs : J[j] # None => J[j].updated <= t
IsEvents(Ids, t) == Ids \in [IEnvelopes -> {None} \cup 0..t]
IsAttempts(A, t) ==
  /\ A \subseteq Attempt
  /\ \A a \in A : a.at <= t /\ (a.id # None => a.id = a.job /\ a.state \in {"submitted", "acknowledged", "failed"})
  /\ \A a, b \in A : a.job = b.job /\ (a.number = b.number \/ (a.id # None /\ b.id # None)) => a = b

(* Whatever the jobs tell of attempts there is, and the other way round.     *)
Covered(J, A) ==
  \A j \in IJobs : J[j] # None =>
    /\ \A n \in 1..J[j].attempts : \E a \in A : a.job = j /\ a.number = n
    /\ J[j].state = "submitted" => \E a \in A : a.job = j /\ a.id # None
Bounded(J, A) ==
  \A a \in A : /\ J[a.job] # None /\ a.number <= J[a.job].attempts
               /\ a.id # None => J[a.job].state = "submitted"

(* A message taken is the last attempt's.                                    *)
Tried ==
  /\ \A a \in iAttempts : a.id # None => a.number = iJob[a.job].attempts
  /\ \A j \in IJobs : iJob[j] # None /\ iJob[j].state = "attempting" => iJob[j].attempts > 0
DataInv ==
  /\ iNow \in 0..IMaxTime /\ iGranted \subseteq iStored /\ iStored \subseteq ISessions
  /\ IsJobs(iJob, iNow) /\ IsEvents(iEvents, iNow) /\ IsAttempts(iAttempts, iNow)
  /\ Covered(iJob, iAttempts) /\ Bounded(iJob, iAttempts) /\ Tried

AnalyticsFields == {"window", "asked", "left", "shown", "read", "jobsFirst", "could", "removed", "changes"}
Has(t) == t \in DOMAIN iRequest.read
AnalyticsRequested ==
  iRequest # None =>
    /\ DOMAIN iRequest = AnalyticsFields /\ iRequest.jobsFirst \in BOOLEAN /\ iRequest.removed \in BOOLEAN
    /\ iRequest.window.from \in Int /\ iRequest.window.to \in Int
    /\ iGranted \cup iRequest.shown \subseteq iRequest.could
    /\ iRequest.shown \cup iRequest.left \subseteq ISessions
    /\ iRequest.asked # None => iRequest.shown \cup iRequest.left = {iRequest.asked}
    /\ DOMAIN iRequest.read \subseteq I!Tables /\ (DOMAIN iRequest.read # {} => iRequest.left = {})
    /\ iRequest.jobsFirst => Has("jobs")
    /\ ~iRequest.jobsFirst /\ Has("jobs") => Has("attempts")
    /\ Has("jobs") => IsJobs(iRequest.read["jobs"], iNow)
    /\ Has("events") => IsEvents(iRequest.read["events"], iNow)
    /\ Has("attempts") => IsAttempts(iRequest.read["attempts"], iNow)

(* What is still to be read of two tables has only grown since.              *)
JobsSeen == IF Has("jobs") THEN iRequest.read["jobs"] ELSE iJob
AttemptsSeen == IF Has("attempts") THEN iRequest.read["attempts"] ELSE iAttempts
Compared ==
  iRequest # None /\ ~iRequest.removed =>
    IF iRequest.jobsFirst THEN Covered(JobsSeen, AttemptsSeen) ELSE Bounded(JobsSeen, AttemptsSeen)

AnalyticsIInv == DataInv /\ AnalyticsRequested /\ Compared

-----------------------------------------------------------------------------
(* What a change does to the tables, and, if nothing is removed, that the    *)
(* jobs go on and that the attempts stay.                                    *)
Grows ==
  /\ \A j \in IJobs : iJob[j] # None =>
       /\ iJob'[j] # None /\ iJob[j].attempts <= iJob'[j].attempts
       /\ iJob[j].state = "submitted" => iJob'[j].state = "submitted"
  /\ \A a \in iAttempts : \E b \in iAttempts' : b.job = a.job /\ b.number = a.number /\ (a.id # None => b.id # None)

LEMMA InitAnalytics ==
  ASSUME AnalyticsAssumption, I!Init
  PROVE  AnalyticsIInv
<1>1. DataInv
  <2>1. IsJobs(iJob, iNow) /\ IsEvents(iEvents, iNow) /\ IsAttempts(iAttempts, iNow)
    BY DEF I!Init, AnalyticsAssumption, IsJobs, JobRow, I!JobStates, IsEvents, IsAttempts
  <2>2. Covered(iJob, iAttempts) /\ Bounded(iJob, iAttempts) /\ Tried
    BY DEF I!Init, AnalyticsAssumption, Covered, Bounded, Tried
  <2> QED
    BY <2>1, <2>2 DEF I!Init, DataInv, AnalyticsAssumption
<1> QED
  BY <1>1 DEF I!Init, AnalyticsIInv, AnalyticsRequested, Compared

LEMMA SetKeeps ==
  ASSUME AnalyticsAssumption, DataInv, NEW j \in IJobs, iJob[j] # None,
         NEW st \in I!JobStates, NEW k \in 0..IMaxAttempts, I!Set(j, st, k)
  PROVE  /\ IsJobs(iJob, iNow)
         /\ iJob'[j] = [state |-> st, attempts |-> k, updated |-> iNow]
         /\ \A i \in IJobs : i # j => iJob'[i] = iJob[i]
         /\ iJob'[j] # None
         /\ iJob' \in [IJobs -> {None} \cup JobRow] /\ \A i \in IJobs : iJob'[i] # None => iJob'[i].updated <= iNow
<1>1. iNow \in 0..IMaxTime /\ IMaxTime \in Nat /\ iJob \in [IJobs -> {None} \cup JobRow]
  BY DEF DataInv, IsJobs, AnalyticsAssumption
<1>2. [state |-> st, attempts |-> k, updated |-> iNow] \in JobRow
  BY <1>1 DEF JobRow
<1>3. /\ iJob'[j] = [state |-> st, attempts |-> k, updated |-> iNow]
      /\ \A i \in IJobs : i # j => iJob'[i] = iJob[i]
      /\ iJob' \in [IJobs -> {None} \cup JobRow]
  BY <1>1, <1>2 DEF I!Set
<1>4. iJob'[j].updated = iNow /\ iNow <= iNow
  BY <1>1, <1>3
<1>5. \A i \in IJobs : iJob'[i] # None => iJob'[i].updated <= iNow
  BY <1>3, <1>4 DEF DataInv, IsJobs
<1>6. iJob'[j] # None
  BY <1>2, <1>3 DEF AnalyticsAssumption, JobRow
<1> QED
  BY <1>3, <1>5, <1>6 DEF DataInv

LEMMA ClaimKeeps ==
  ASSUME AnalyticsAssumption, DataInv, NEW j \in IJobs, I!claimDue(j)
  PROVE  DataInv' /\ Grows /\ iNow' = iNow /\ iGranted' = iGranted
<1> DEFINE k == iJob[j].attempts
           new == [job |-> j, number |-> k + 1, at |-> iNow, id |-> None, state |-> "attempting"]
<1>1. /\ iNow \in 0..IMaxTime /\ IMaxTime \in Nat /\ IMaxAttempts \in Nat
      /\ iJob[j] # None /\ iJob[j] \in JobRow /\ k \in 0..IMaxAttempts /\ k + 1 \in 1..IMaxAttempts
      /\ iJob[j].state \notin {"submitted", "attempting"}
  BY DEF DataInv, IsJobs, AnalyticsAssumption, JobRow, I!claimDue
<1>2. /\ iJob'[j] = [state |-> "attempting", attempts |-> k + 1, updated |-> iNow]
      /\ \A i \in IJobs : i # j => iJob'[i] = iJob[i]
      /\ iJob'[j] # None
      /\ iJob' \in [IJobs -> {None} \cup JobRow] /\ \A i \in IJobs : iJob'[i] # None => iJob'[i].updated <= iNow
  <2>1. k + 1 \in 0..IMaxAttempts /\ "attempting" \in I!JobStates
    BY <1>1 DEF I!JobStates
  <2>2. I!Set(j, "attempting", k + 1)
    BY DEF I!claimDue
  <2> HIDE DEF k
  <2> QED
    BY <1>1, <2>1, <2>2, SetKeeps
<1>3. iAttempts' = iAttempts \cup {new} /\ UNCHANGED <<iNow, iStored, iGranted, iEvents>>
  BY DEF I!claimDue
<1>4. new \in Attempt /\ new.job = j /\ new.number = k + 1 /\ new.at = iNow /\ new.id = None
  BY <1>1 DEF Attempt, I!JobStates
<1>5. /\ iAttempts \subseteq Attempt
      /\ \A a \in iAttempts : a.job = j => a.id = None /\ a.number <= k /\ a.number \in Nat
  BY <1>1 DEF DataInv, IsAttempts, Bounded, Attempt
<1> HIDE DEF new
<1>6. IsAttempts(iAttempts, iNow)'
  <2>1. iAttempts' \subseteq Attempt
    BY <1>3, <1>4, <1>5
  <2>2. \A a \in iAttempts' : a.at <= iNow /\ (a.id # None => a.id = a.job /\ a.state \in {"submitted", "acknowledged", "failed"})
    BY <1>1, <1>3, <1>4 DEF DataInv, IsAttempts
  <2>3. \A a, b \in iAttempts' : a.job = b.job /\ (a.number = b.number \/ (a.id # None /\ b.id # None)) => a = b
    <3>1. \A a \in iAttempts : a.job = j => a.number # k + 1
      BY <1>1, <1>5
    <3> QED
      BY <1>3, <1>4, <3>1 DEF DataInv, IsAttempts
  <2> QED
    BY <1>3, <2>1, <2>2, <2>3 DEF IsAttempts
<1>7. Covered(iJob, iAttempts)'
  <2> SUFFICES ASSUME NEW i \in IJobs, iJob'[i] # None
               PROVE  /\ \A n \in 1..iJob'[i].attempts : \E a \in iAttempts' : a.job = i /\ a.number = n
                      /\ iJob'[i].state = "submitted" => \E a \in iAttempts' : a.job = i /\ a.id # None
    BY DEF Covered
  <2>1. CASE i # j
    <3>1. iJob'[i] = iJob[i]
      BY <1>2, <2>1
    <3> QED
      BY <3>1, <1>3 DEF DataInv, Covered
  <2>2. CASE i = j
    <3>1. \A n \in 1..(k + 1) : n \in 1..k \/ n = k + 1
      BY <1>1
    <3>2. \A n \in 1..k : \E a \in iAttempts : a.job = j /\ a.number = n
      BY <1>1 DEF DataInv, Covered
    <3>3. \A n \in 1..(k + 1) : \E a \in iAttempts' : a.job = j /\ a.number = n
      <4> HIDE DEF k
      <4> QED
        BY <1>3, <1>4, <3>1, <3>2
    <3> QED
      BY <1>2, <2>2, <3>3
  <2> QED
    BY <2>1, <2>2
<1>8. Bounded(iJob, iAttempts)'
  <2>1. \A a \in iAttempts : a.job = j \/ iJob'[a.job] = iJob[a.job]
    BY <1>2, <1>5 DEF Attempt
  <2>2. \A a \in iAttempts : a.job = j => a.number <= k + 1 /\ a.id = None
    BY <1>1, <1>5
  <2> QED
    BY <1>1, <1>2, <1>3, <1>4, <2>1, <2>2 DEF DataInv, Bounded
<1>9. Tried'
  <2>1. \A a \in iAttempts : a.job = j \/ iJob'[a.job] = iJob[a.job]
    BY <1>2, <1>5 DEF Attempt
  <2>2. \A a \in iAttempts' : a.id # None => a.number = iJob'[a.job].attempts
    BY <1>3, <1>4, <1>5, <2>1 DEF DataInv, Tried
  <2>3. \A i \in IJobs : iJob'[i] # None /\ iJob'[i].state = "attempting" => iJob'[i].attempts > 0
    BY <1>1, <1>2 DEF DataInv, Tried
  <2> QED
    BY <2>2, <2>3 DEF Tried
<1>10. Grows
  BY <1>1, <1>2, <1>3 DEF Grows, DataInv, IsJobs, JobRow
<1> QED
  BY <1>2, <1>3, <1>6, <1>7, <1>8, <1>9, <1>10 DEF DataInv, IsJobs, IsEvents

Put(a, st, id) == [a EXCEPT !.state = st, !.id = id]

LEMMA PutIs ==
  ASSUME NEW a \in Attempt, NEW st \in I!JobStates, NEW id \in {None} \cup IJobs
  PROVE  /\ Put(a, st, id) \in Attempt
         /\ Put(a, st, id).job = a.job /\ Put(a, st, id).number = a.number /\ Put(a, st, id).at = a.at
         /\ Put(a, st, id).id = id /\ Put(a, st, id).state = st
<1>1. PICK b : b = [a EXCEPT !.state = st]
  OBVIOUS
<1>2. b \in Attempt /\ b.job = a.job /\ b.number = a.number /\ b.at = a.at /\ b.state = st
  BY <1>1 DEF Attempt
<1>3. PICK c : c = [b EXCEPT !.id = id]
  OBVIOUS
<1>4. c \in Attempt /\ c.job = b.job /\ c.number = b.number /\ c.at = b.at /\ c.state = b.state /\ c.id = id
  BY <1>2, <1>3 DEF Attempt
<1>5. Put(a, st, id) = c
  BY <1>1, <1>3 DEF Put
<1> QED
  BY <1>2, <1>4, <1>5

LEMMA FinishDoes ==
  ASSUME NEW j, NEW st, NEW id, I!Finish(j, st, id)
  PROVE  /\ iJob[j] # None /\ iJob[j].state = "attempting" /\ I!Set(j, st, iJob[j].attempts)
         /\ iAttempts' = {IF I!IsCurrent(a, j) THEN Put(a, st, id) ELSE a : a \in iAttempts}
         /\ UNCHANGED <<iNow, iStored, iGranted, iEvents>>
<1>1. iAttempts' = {IF I!IsCurrent(a, j) THEN [a EXCEPT !.state = st, !.id = id] ELSE a : a \in iAttempts}
  BY Zenon DEF I!Finish
<1>2. iJob[j] # None /\ iJob[j].state = "attempting" /\ I!Set(j, st, iJob[j].attempts)
      /\ UNCHANGED <<iNow, iStored, iGranted, iEvents>>
  BY Zenon DEF I!Finish
<1> QED
  BY Zenon, <1>1, <1>2 DEF Put

LEMMA FinishKeeps ==
  ASSUME AnalyticsAssumption, DataInv, NEW j \in IJobs, NEW st \in {"submitted", "failed", "unknown", "queued"},
         NEW id \in {None, j}, id = j <=> st = "submitted", I!Finish(j, st, id)
  PROVE  DataInv' /\ Grows /\ iNow' = iNow /\ iGranted' = iGranted
<1> DEFINE k == iJob[j].attempts
           Told(a) == IF I!IsCurrent(a, j) THEN Put(a, st, id) ELSE a
<1>1. /\ iNow \in 0..IMaxTime /\ IMaxTime \in Nat /\ IMaxAttempts \in Nat
      /\ iJob[j] # None /\ iJob[j] \in JobRow /\ k \in 0..IMaxAttempts /\ k > 0
      /\ iJob[j].state = "attempting" /\ st \in I!JobStates
      /\ id \in {None} \cup IJobs
  BY FinishDoes DEF DataInv, IsJobs, AnalyticsAssumption, JobRow, Tried, I!JobStates
<1>2. /\ iJob'[j] = [state |-> st, attempts |-> k, updated |-> iNow]
      /\ \A i \in IJobs : i # j => iJob'[i] = iJob[i]
      /\ iJob'[j] # None
      /\ iJob' \in [IJobs -> {None} \cup JobRow] /\ \A i \in IJobs : iJob'[i] # None => iJob'[i].updated <= iNow
  <2>1. I!Set(j, st, k)
    BY FinishDoes
  <2> HIDE DEF k
  <2> QED
    BY <1>1, <2>1, SetKeeps
<1>3. iAttempts' = {Told(a) : a \in iAttempts} /\ UNCHANGED <<iNow, iStored, iGranted, iEvents>>
  BY FinishDoes
<1>4. /\ iAttempts \subseteq Attempt
      /\ \A a \in iAttempts : a.job = j => a.id = None /\ a.number <= k /\ a.number \in Nat
  BY <1>1 DEF DataInv, IsAttempts, Bounded, Attempt
<1>5. \A a \in iAttempts :
        /\ Told(a) \in Attempt /\ Told(a).job = a.job /\ Told(a).number = a.number /\ Told(a).at = a.at
        /\ a.job = j /\ a.number = k => Told(a).id = id /\ Told(a).state = st
        /\ ~(a.job = j /\ a.number = k) => Told(a) = a
  <2> SUFFICES ASSUME NEW a \in iAttempts
               PROVE  /\ Told(a) \in Attempt /\ Told(a).job = a.job /\ Told(a).number = a.number /\ Told(a).at = a.at
                      /\ a.job = j /\ a.number = k => Told(a).id = id /\ Told(a).state = st
                      /\ ~(a.job = j /\ a.number = k) => Told(a) = a
    OBVIOUS
  <2>1. I!IsCurrent(a, j) <=> a.job = j /\ a.number = k
    BY DEF I!IsCurrent
  <2>2. a \in Attempt
    BY <1>4
  <2> HIDE DEF k
  <2> QED
    BY <1>1, <2>1, <2>2, PutIs
<1> HIDE DEF Told
<1>6. \A b \in iAttempts' : \E a \in iAttempts : b = Told(a)
  BY <1>3
<1>7. IsAttempts(iAttempts, iNow)'
  <2>1. iAttempts' \subseteq Attempt
    BY <1>5, <1>6
  <2>2. \A a \in iAttempts' : a.at <= iNow' /\ (a.id # None => a.id = a.job /\ a.state \in {"submitted", "acknowledged", "failed"})
    <3> SUFFICES ASSUME NEW a \in iAttempts
                 PROVE  Told(a).at <= iNow'
                        /\ (Told(a).id # None => Told(a).id = Told(a).job /\ Told(a).state \in {"submitted", "acknowledged", "failed"})
      BY <1>6
    <3> QED
      BY <1>3, <1>5 DEF DataInv, IsAttempts
  <2>3. ASSUME NEW a \in iAttempts, NEW b \in iAttempts, Told(a).job = Told(b).job,
               Told(a).number = Told(b).number \/ (Told(a).id # None /\ Told(b).id # None)
        PROVE  a = b
    <3>1. a.job = b.job
      BY <1>5, <2>3
    <3>2. CASE a.number = b.number
      BY <3>1, <3>2 DEF DataInv, IsAttempts
    <3>3. CASE a.number # b.number /\ a.job = j
      <4>1. Told(a).id # None /\ Told(b).id # None
        BY <1>5, <2>3, <3>3
      <4>2. a.number = k /\ b.number = k
        BY <1>4, <1>5, <3>1, <3>3, <4>1
      <4> QED
        BY <3>3, <4>2
    <3>4. CASE a.number # b.number /\ a.job # j
      BY <1>5, <2>3, <3>1, <3>4 DEF DataInv, IsAttempts
    <3> QED
      BY <3>2, <3>3, <3>4
  <2>4. \A a, b \in iAttempts' : a.job = b.job /\ (a.number = b.number \/ (a.id # None /\ b.id # None)) => a = b
    BY <1>6, <2>3
  <2> QED
    BY <2>1, <2>2, <2>4 DEF IsAttempts
<1>8. Grows
  <2>1. \A a \in iAttempts : Told(a) \in iAttempts'
    BY <1>3
  <2>2. \A a \in iAttempts : a.id # None => Told(a).id # None
    BY <1>4, <1>5
  <2>3. \A i \in IJobs : iJob[i] # None =>
          /\ iJob'[i] # None /\ iJob[i].attempts <= iJob'[i].attempts
          /\ iJob[i].state = "submitted" => iJob'[i].state = "submitted"
    BY <1>1, <1>2 DEF DataInv, IsJobs, JobRow
  <2> QED
    BY <1>5, <2>1, <2>2, <2>3 DEF Grows
<1>9. Covered(iJob, iAttempts)'
  <2> SUFFICES ASSUME NEW i \in IJobs, iJob'[i] # None
               PROVE  /\ \A n \in 1..iJob'[i].attempts : \E a \in iAttempts' : a.job = i /\ a.number = n
                      /\ iJob'[i].state = "submitted" => \E a \in iAttempts' : a.job = i /\ a.id # None
    BY DEF Covered
  <2>1. iJob'[i].attempts = iJob[i].attempts /\ iJob[i] # None
    BY <1>1, <1>2
  <2>2. \A n \in 1..iJob[i].attempts : \E a \in iAttempts : a.job = i /\ a.number = n
    BY <2>1 DEF DataInv, Covered
  <2>3. \A n \in 1..iJob'[i].attempts : \E a \in iAttempts' : a.job = i /\ a.number = n
    BY <1>3, <1>5, <2>1, <2>2
  <2>4. ASSUME iJob'[i].state = "submitted"
        PROVE  \E a \in iAttempts' : a.job = i /\ a.id # None
    <3>1. CASE i = j
      <4>1. st = "submitted" /\ id = j /\ id # None
        BY <1>2, <2>4, <3>1 DEF AnalyticsAssumption
      <4>2. PICK a \in iAttempts : a.job = j /\ a.number = k
        BY <1>1, <2>2, <3>1
      <4>3. Told(a) \in iAttempts' /\ Told(a).job = j /\ Told(a).id = id
        BY <1>3, <1>5, <4>2
      <4> QED
        BY <3>1, <4>1, <4>3
    <3>2. CASE i # j
      <4>1. \E a \in iAttempts : a.job = i /\ a.id # None
        BY <1>2, <2>1, <2>4, <3>2 DEF DataInv, Covered
      <4> QED
        BY <1>5, <1>8, <4>1 DEF Grows
    <3> QED
      BY <3>1, <3>2
  <2> QED
    BY <2>3, <2>4
<1>10. Bounded(iJob, iAttempts)' /\ Tried'
  <2>1. ASSUME NEW a \in iAttempts
        PROVE  /\ iJob'[a.job] # None /\ a.number <= iJob'[a.job].attempts
               /\ Told(a).id # None => iJob'[a.job].state = "submitted" /\ a.number = iJob'[a.job].attempts
    <3>1. a.job \in IJobs /\ iJob[a.job] # None /\ a.number <= iJob[a.job].attempts
          /\ (a.id # None => iJob[a.job].state = "submitted" /\ a.number = iJob[a.job].attempts)
      BY <1>4 DEF DataInv, Bounded, Tried, Attempt
    <3>2. CASE a.job = j
      <4>1. Told(a).id # None => a.number = k /\ st = "submitted"
        BY <1>4, <1>5, <3>2
      <4> QED
        BY <1>2, <3>1, <3>2, <4>1
    <3>3. CASE a.job # j
      BY <1>2, <1>5, <3>1, <3>3
    <3> QED
      BY <3>2, <3>3
  <2>2. Bounded(iJob, iAttempts)'
    BY <1>5, <1>6, <2>1 DEF Bounded
  <2>3. \A a \in iAttempts' : a.id # None => a.number = iJob'[a.job].attempts
    BY <1>5, <1>6, <2>1
  <2>4. \A i \in IJobs : iJob'[i] # None /\ iJob'[i].state = "attempting" => iJob'[i].attempts > 0
    BY <1>1, <1>2 DEF DataInv, Tried
  <2> QED
    BY <2>2, <2>3, <2>4 DEF Tried
<1> QED
  BY <1>2, <1>3, <1>7, <1>8, <1>9, <1>10 DEF DataInv, IsJobs, IsEvents

LEMMA AckKeeps ==
  ASSUME AnalyticsAssumption, DataInv, NEW j \in IJobs, NEW st \in {"acknowledged", "failed"}, I!ack(j, st)
  PROVE  DataInv' /\ Grows /\ iNow' = iNow /\ iGranted' = iGranted
<1> DEFINE told == {a \in iAttempts : a.id = j /\ I!Acked(a, st)}
           Told(a) == IF a \in told THEN [a EXCEPT !.state = st] ELSE a
<1>1. iAttempts' = {Told(a) : a \in iAttempts} /\ UNCHANGED <<iNow, iStored, iGranted, iJob, iEvents>>
  BY DEF I!ack
<1>2. iAttempts \subseteq Attempt
  BY DEF DataInv, IsAttempts
<1>3. \A a \in iAttempts :
        /\ Told(a) \in Attempt /\ Told(a).job = a.job /\ Told(a).number = a.number /\ Told(a).at = a.at
        /\ Told(a).id = a.id /\ (Told(a).state = a.state \/ Told(a).state \in {"acknowledged", "failed"})
  BY <1>2 DEF Attempt, I!JobStates
<1> HIDE DEF Told
<1>4. \A b \in iAttempts' : \E a \in iAttempts : b = Told(a)
  BY <1>1
<1>5. \A a \in iAttempts : Told(a) \in iAttempts'
  BY <1>1
<1>6. IsAttempts(iAttempts, iNow)'
  <2>1. \A a \in iAttempts' : a \in Attempt /\ a.at <= iNow'
           /\ (a.id # None => a.id = a.job /\ a.state \in {"submitted", "acknowledged", "failed"})
    BY <1>1, <1>3, <1>4 DEF DataInv, IsAttempts
  <2>2. \A a, b \in iAttempts' : a.job = b.job /\ (a.number = b.number \/ (a.id # None /\ b.id # None)) => a = b
    BY <1>3, <1>4 DEF DataInv, IsAttempts
  <2> QED
    BY <2>1, <2>2 DEF IsAttempts
<1>7. Covered(iJob, iAttempts)' /\ Bounded(iJob, iAttempts)' /\ Tried'
  <2>1. Covered(iJob, iAttempts)'
    BY <1>1, <1>3, <1>5 DEF DataInv, Covered
  <2>2. Bounded(iJob, iAttempts)'
    BY <1>1, <1>3, <1>4 DEF DataInv, Bounded
  <2>3. Tried'
    BY <1>1, <1>3, <1>4 DEF DataInv, Tried
  <2> QED
    BY <2>1, <2>2, <2>3
<1>8. Grows
  BY <1>1, <1>3, <1>5 DEF Grows, DataInv, IsJobs, JobRow
<1> QED
  BY <1>1, <1>6, <1>7, <1>8 DEF DataInv, IsJobs, IsEvents

LEMMA CancelKeeps ==
  ASSUME AnalyticsAssumption, DataInv, NEW j \in IJobs, I!cancel(j)
  PROVE  DataInv' /\ Grows /\ iNow' = iNow /\ iGranted' = iGranted
<1> DEFINE k == iJob[j].attempts
<1>1. /\ iJob[j] # None /\ iJob[j] \in JobRow /\ k \in 0..IMaxAttempts /\ IMaxAttempts \in Nat
      /\ iJob[j].state \notin {"submitted", "attempting"} /\ "cancelled" \in I!JobStates
  BY DEF DataInv, IsJobs, JobRow, I!cancel, I!JobStates, AnalyticsAssumption
<1>2. /\ iJob'[j] = [state |-> "cancelled", attempts |-> k, updated |-> iNow]
      /\ \A i \in IJobs : i # j => iJob'[i] = iJob[i]
      /\ iJob'[j] # None
      /\ iJob' \in [IJobs -> {None} \cup JobRow] /\ \A i \in IJobs : iJob'[i] # None => iJob'[i].updated <= iNow
  <2>1. I!Set(j, "cancelled", k)
    BY DEF I!cancel
  <2> HIDE DEF k
  <2> QED
    BY <1>1, <2>1, SetKeeps
<1>3. UNCHANGED <<iNow, iStored, iGranted, iAttempts, iEvents>>
  BY DEF I!cancel
<1>4. \A a \in iAttempts : a.job \in IJobs /\ (a.id # None => a.job # j)
  BY <1>1 DEF DataInv, IsAttempts, Attempt, Bounded
<1>5. IsAttempts(iAttempts, iNow)'
  BY <1>3 DEF DataInv, IsAttempts
<1>6. \A i \in IJobs :
        /\ (iJob[i] # None) <=> (iJob'[i] # None)
        /\ iJob[i] # None => /\ iJob'[i].attempts = iJob[i].attempts
                             /\ (iJob'[i].state = "submitted") <=> (iJob[i].state = "submitted")
                             /\ iJob'[i].state = "attempting" => iJob[i].state = "attempting"
  BY <1>1, <1>2
<1>7. Covered(iJob, iAttempts)' /\ Bounded(iJob, iAttempts)' /\ Tried'
  <2>1. Covered(iJob, iAttempts)'
    BY <1>3, <1>6 DEF DataInv, Covered
  <2>2. Bounded(iJob, iAttempts)'
    BY <1>3, <1>4, <1>6 DEF DataInv, Bounded
  <2>3. Tried'
    BY <1>3, <1>4, <1>6 DEF DataInv, Tried, Bounded
  <2> QED
    BY <2>1, <2>2, <2>3
<1>8. Grows
  BY <1>1, <1>3, <1>6 DEF Grows, DataInv, IsJobs, JobRow
<1> QED
  BY <1>2, <1>3, <1>5, <1>7, <1>8 DEF DataInv, IsJobs, IsEvents

LEMMA LeftKeeps ==
  ASSUME AnalyticsAssumption, DataInv, UNCHANGED <<iNow, iStored, iJob, iAttempts, iEvents>>, iGranted' \subseteq iStored
  PROVE  DataInv' /\ Grows
<1>1. IsJobs(iJob, iNow)' /\ IsEvents(iEvents, iNow)' /\ IsAttempts(iAttempts, iNow)'
  BY DEF DataInv, IsJobs, IsEvents, IsAttempts
<1>2. Covered(iJob, iAttempts)' /\ Bounded(iJob, iAttempts)' /\ Tried'
  BY DEF DataInv, Covered, Bounded, Tried
<1>3. Grows
  BY DEF DataInv, IsJobs, JobRow, Grows
<1> QED
  BY <1>1, <1>2, <1>3 DEF DataInv

LEMMA InsertKeeps ==
  ASSUME AnalyticsAssumption, DataInv, NEW e \in IEnvelopes, NEW t \in 0..IMaxTime, I!insert(e, t)
  PROVE  DataInv' /\ Grows /\ iNow' = iNow /\ iGranted' = iGranted
<1>1. UNCHANGED <<iNow, iStored, iGranted, iJob, iAttempts>> /\ iEvents' = [iEvents EXCEPT ![e] = t] /\ t \in 0..iNow
  BY DEF I!insert, DataInv, AnalyticsAssumption
<1>2. IsJobs(iJob, iNow)' /\ IsEvents(iEvents, iNow)' /\ IsAttempts(iAttempts, iNow)'
  BY <1>1 DEF DataInv, IsJobs, IsEvents, IsAttempts
<1>3. Covered(iJob, iAttempts)' /\ Bounded(iJob, iAttempts)' /\ Tried'
  BY <1>1 DEF DataInv, Covered, Bounded, Tried
<1>4. Grows
  BY <1>1 DEF DataInv, IsJobs, JobRow, Grows
<1> QED
  BY <1>1, <1>2, <1>3, <1>4 DEF DataInv

(* A removed job takes its attempts with it. *)
LEMMA LessKeeps ==
  ASSUME AnalyticsAssumption, DataInv, NEW G \in SUBSET IJobs, UNCHANGED iNow,
         iGranted' \subseteq iStored', iStored' \subseteq iStored,
         iJob' \in [IJobs -> {None} \cup JobRow], \A j \in IJobs : iJob'[j] = IF j \in G THEN None ELSE iJob[j],
         iAttempts' = {a \in iAttempts : a.job \notin G},
         iEvents' \in [IEnvelopes -> {None} \cup 0..iNow]
  PROVE  DataInv'
<1>1. IsJobs(iJob, iNow)' /\ IsEvents(iEvents, iNow)'
  BY DEF DataInv, IsJobs, IsEvents
<1>2. IsAttempts(iAttempts, iNow)'
  BY DEF DataInv, IsAttempts
<1>3. \A a \in iAttempts' : a \in iAttempts /\ a.job \in IJobs /\ iJob'[a.job] = iJob[a.job]
  BY DEF DataInv, IsAttempts, Attempt
<1>4. \A j \in IJobs : iJob'[j] # None => iJob'[j] = iJob[j] /\ j \notin G
  OBVIOUS
<1>5. Covered(iJob, iAttempts)'
  BY <1>4 DEF DataInv, Covered
<1>6. Bounded(iJob, iAttempts)' /\ Tried'
  <2>1. Bounded(iJob, iAttempts)'
    BY <1>3 DEF DataInv, Bounded
  <2>2. Tried'
    BY <1>3, <1>4 DEF DataInv, Tried
  <2> QED
    BY <2>1, <2>2
<1> QED
  BY <1>1, <1>2, <1>5, <1>6 DEF DataInv

LEMMA RemoveKeeps ==
  ASSUME AnalyticsAssumption, DataInv, NEW j \in IJobs, I!remove(j)
  PROVE  DataInv' /\ iNow' = iNow /\ iGranted' = iGranted
<1>1. /\ iJob' = [iJob EXCEPT ![j] = None] /\ iAttempts' = {a \in iAttempts : a.job \notin {j}}
      /\ UNCHANGED <<iNow, iStored, iGranted, iEvents>>
  BY DEF I!remove
<1>2. iJob' \in [IJobs -> {None} \cup JobRow] /\ \A i \in IJobs : iJob'[i] = IF i \in {j} THEN None ELSE iJob[i]
  BY <1>1 DEF DataInv, IsJobs
<1>3. iEvents' \in [IEnvelopes -> {None} \cup 0..iNow] /\ iGranted' \subseteq iStored' /\ iStored' \subseteq iStored
  BY <1>1 DEF DataInv, IsEvents
<1>4. {j} \in SUBSET IJobs
  OBVIOUS
<1>5. DataInv'
  BY ONLY AnalyticsAssumption, DataInv, <1>1, <1>2, <1>3, <1>4, LessKeeps
<1> QED
  BY <1>1, <1>5

LEMMA RemoveSessionKeeps ==
  ASSUME AnalyticsAssumption, DataInv, NEW s \in ISessions, I!removeSession(s)
  PROVE  DataInv' /\ iNow' = iNow /\ iGranted' \subseteq iGranted
<1> DEFINE G == {j \in IJobs : ISessionOf[j] = s}
<1>1. /\ iStored' = iStored \ {s} /\ iGranted' = iGranted \ {s} /\ UNCHANGED iNow
      /\ iJob' = [j \in IJobs |-> IF ISessionOf[j] = s THEN None ELSE iJob[j]]
      /\ iAttempts' = {a \in iAttempts : ISessionOf[a.job] # s}
      /\ iEvents' = [e \in IEnvelopes |-> IF ISessionOf[e] = s THEN None ELSE iEvents[e]]
  BY DEF I!removeSession
<1>2. iJob' \in [IJobs -> {None} \cup JobRow] /\ \A j \in IJobs : iJob'[j] = IF j \in G THEN None ELSE iJob[j]
  BY <1>1 DEF DataInv, IsJobs
<1>3. iEvents' \in [IEnvelopes -> {None} \cup 0..iNow] /\ iGranted' \subseteq iStored' /\ iStored' \subseteq iStored
  BY <1>1 DEF DataInv, IsEvents
<1>4. iAttempts' = {a \in iAttempts : a.job \notin G}
  BY <1>1 DEF DataInv, IsAttempts, Attempt
<1>5. G \in SUBSET IJobs
  OBVIOUS
<1> HIDE DEF G
<1>6. DataInv'
  BY ONLY AnalyticsAssumption, DataInv, <1>1, <1>2, <1>3, <1>4, <1>5, LessKeeps
<1> QED
  BY <1>1, <1>6

LEMMA TickKeeps ==
  ASSUME AnalyticsAssumption, DataInv, I!Tick
  PROVE  DataInv' /\ Grows /\ iNow' = iNow + 1 /\ iGranted' = iGranted
<1>1. UNCHANGED <<iStored, iGranted, iJob, iAttempts, iEvents>> /\ iNow' = iNow + 1 /\ iNow' \in 0..IMaxTime /\ iNow \in 0..IMaxTime
      /\ IMaxTime \in Nat
  BY DEF I!Tick, DataInv, AnalyticsAssumption
<1>2. IsJobs(iJob, iNow)'
  <2>1. \A j \in IJobs : iJob[j] # None => iJob[j].updated \in Nat /\ iJob[j].updated <= iNow'
    BY <1>1 DEF DataInv, IsJobs, JobRow
  <2> QED
    BY <1>1, <2>1 DEF DataInv, IsJobs
<1>3. IsEvents(iEvents, iNow)'
  <2>1. iEvents \in [IEnvelopes -> {None} \cup 0..iNow']
    BY <1>1 DEF DataInv, IsEvents
  <2> QED
    BY <1>1, <2>1 DEF IsEvents
<1>4. IsAttempts(iAttempts, iNow)'
  <2>1. \A a \in iAttempts : a.at <= iNow'
    BY <1>1 DEF DataInv, IsAttempts, Attempt
  <2> QED
    BY <1>1, <2>1 DEF DataInv, IsAttempts
<1>5. Covered(iJob, iAttempts)' /\ Bounded(iJob, iAttempts)' /\ Tried'
  BY <1>1 DEF DataInv, Covered, Bounded, Tried
<1>6. Grows
  BY <1>1 DEF DataInv, IsJobs, JobRow, Grows
<1> QED
  BY <1>1, <1>2, <1>3, <1>4, <1>5, <1>6 DEF DataInv

-----------------------------------------------------------------------------
(* What a change tells the request being served. *)
LEMMA ChangingDoes ==
  ASSUME NEW removes \in BOOLEAN, I!Changing(removes), iRequest # None, DOMAIN iRequest = AnalyticsFields, iRequest.removed \in BOOLEAN
  PROVE  /\ DOMAIN iRequest' = AnalyticsFields
         /\ iRequest'.could = iRequest.could \cup iGranted'
         /\ iRequest'.removed \in BOOLEAN /\ (~iRequest'.removed => ~iRequest.removed /\ ~removes)
         /\ \A x \in AnalyticsFields \ {"changes", "could", "removed"} : iRequest'[x] = iRequest[x]
<1>1. PICK b : b = [iRequest EXCEPT !.changes = @ + 1]
  OBVIOUS
<1>2. PICK c : c = [b EXCEPT !.could = @ \cup iGranted']
  OBVIOUS
<1>3. PICK d : d = [c EXCEPT !.removed = @ \/ removes]
  OBVIOUS
<1>4. iRequest' = [iRequest EXCEPT !.changes = @ + 1, !.could = @ \cup iGranted', !.removed = @ \/ removes]
  BY DEF I!Changing
<1>5. iRequest' = d
  BY <1>1, <1>2, <1>3, <1>4
<1>6. DOMAIN b = AnalyticsFields /\ \A x \in AnalyticsFields \ {"changes"} : b[x] = iRequest[x]
  BY <1>1 DEF AnalyticsFields
<1>7. DOMAIN c = AnalyticsFields /\ c.could = iRequest.could \cup iGranted' /\ \A x \in AnalyticsFields \ {"could"} : c[x] = b[x]
  BY <1>2, <1>6 DEF AnalyticsFields
<1>8. DOMAIN d = AnalyticsFields /\ d.removed = (c.removed \/ removes) /\ \A x \in AnalyticsFields \ {"removed"} : d[x] = c[x]
  BY <1>3, <1>6, <1>7 DEF AnalyticsFields
<1>9. c.removed = iRequest.removed
  BY <1>6, <1>7 DEF AnalyticsFields
<1>10. d.removed \in BOOLEAN /\ (~d.removed => ~iRequest.removed /\ ~removes)
  BY <1>8, <1>9
<1>11. d.could = c.could
  BY <1>8 DEF AnalyticsFields
<1>12. \A x \in AnalyticsFields \ {"changes", "could", "removed"} : d[x] = iRequest[x]
  BY <1>6, <1>7, <1>8
<1> QED
  BY <1>5, <1>7, <1>8, <1>10, <1>11, <1>12

(* What was read stays what it was, and time only goes on. *)
LEMMA StillRead ==
  ASSUME NEW J, NEW t \in Nat, NEW u \in Nat, t <= u
  PROVE  /\ IsJobs(J, t) => IsJobs(J, u)
         /\ IsEvents(J, t) => IsEvents(J, u)
         /\ IsAttempts(J, t) => IsAttempts(J, u)
<1>1. ASSUME IsJobs(J, t)
      PROVE  IsJobs(J, u)
  <2>1. \A j \in IJobs : J[j] # None => J[j].updated \in Nat /\ J[j].updated <= u
    BY <1>1 DEF IsJobs, JobRow
  <2> QED
    BY <1>1, <2>1 DEF IsJobs
<1>2. ASSUME IsEvents(J, t)
      PROVE  IsEvents(J, u)
  <2>1. 0..t \subseteq 0..u
    OBVIOUS
  <2> QED
    BY <1>2, <2>1 DEF IsEvents
<1>3. ASSUME IsAttempts(J, t)
      PROVE  IsAttempts(J, u)
  <2>1. \A a \in J : a.at \in Nat /\ a.at <= u
    BY <1>3 DEF IsAttempts, Attempt
  <2> QED
    BY <1>3, <2>1 DEF IsAttempts
<1> QED
  BY <1>1, <1>2, <1>3

LEMMA CoveredStill ==
  ASSUME NEW J, Grows, Covered(J, iAttempts)
  PROVE  Covered(J, iAttempts')
<1> SUFFICES ASSUME NEW j \in IJobs, J[j] # None
             PROVE  /\ \A n \in 1..J[j].attempts : \E a \in iAttempts' : a.job = j /\ a.number = n
                    /\ J[j].state = "submitted" => \E a \in iAttempts' : a.job = j /\ a.id # None
  BY DEF Covered
<1>1. /\ \A n \in 1..J[j].attempts : \E a \in iAttempts : a.job = j /\ a.number = n
      /\ J[j].state = "submitted" => \E a \in iAttempts : a.job = j /\ a.id # None
  BY DEF Covered
<1> QED
  BY <1>1 DEF Grows

LEMMA BoundedStill ==
  ASSUME AnalyticsAssumption, DataInv, DataInv', NEW A, A \subseteq Attempt, Grows, Bounded(iJob, A)
  PROVE  Bounded(iJob', A)
<1> SUFFICES ASSUME NEW a \in A
             PROVE  /\ iJob'[a.job] # None /\ a.number <= iJob'[a.job].attempts
                    /\ a.id # None => iJob'[a.job].state = "submitted"
  BY DEF Bounded
<1>1. a.job \in IJobs /\ a.number \in Nat
  BY DEF Attempt
<1>2. /\ iJob[a.job] # None /\ a.number <= iJob[a.job].attempts
      /\ a.id # None => iJob[a.job].state = "submitted"
  BY DEF Bounded
<1>3. /\ iJob'[a.job] # None /\ iJob[a.job].attempts <= iJob'[a.job].attempts
      /\ iJob[a.job].state = "submitted" => iJob'[a.job].state = "submitted"
  BY <1>1, <1>2 DEF Grows
<1>4. iJob[a.job].attempts \in Nat /\ iJob'[a.job].attempts \in Nat
  BY <1>1, <1>2, <1>3 DEF DataInv, IsJobs, JobRow
<1> QED
  BY <1>1, <1>2, <1>3, <1>4

(* A change, whatever it is, leaves the request as the invariant says.       *)
LEMMA ChangeKeeps ==
  ASSUME AnalyticsAssumption, AnalyticsIInv, DataInv', iNow <= iNow', NEW removes \in BOOLEAN, I!Changing(removes),
         ~removes => Grows
  PROVE  AnalyticsRequested' /\ Compared'
<1>1. CASE iRequest = None
  <2>1. iRequest' = None
    BY <1>1 DEF I!Changing
  <2> QED
    BY <2>1 DEF AnalyticsRequested, Compared
<1>2. CASE iRequest # None
  <2>0. AnalyticsRequested /\ Compared /\ DataInv /\ iNow \in Nat /\ iNow' \in Nat
    BY DEF AnalyticsIInv, DataInv, AnalyticsAssumption
  <2>1. /\ DOMAIN iRequest = AnalyticsFields /\ iRequest.removed \in BOOLEAN /\ iRequest.jobsFirst \in BOOLEAN
        /\ iGranted \cup iRequest.shown \subseteq iRequest.could
        /\ iRequest.jobsFirst => Has("jobs")
        /\ ~iRequest.jobsFirst /\ Has("jobs") => Has("attempts")
        /\ Has("attempts") => IsAttempts(iRequest.read["attempts"], iNow)
    BY <1>2, <2>0 DEF AnalyticsRequested
  <2>2. /\ DOMAIN iRequest' = AnalyticsFields
        /\ iRequest'.could = iRequest.could \cup iGranted'
        /\ iRequest'.removed \in BOOLEAN /\ (~iRequest'.removed => ~iRequest.removed /\ ~removes)
        /\ \A x \in AnalyticsFields \ {"changes", "could", "removed"} : iRequest'[x] = iRequest[x]
    BY <1>2, <2>1, ChangingDoes
  <2>3. /\ iRequest'.window = iRequest.window /\ iRequest'.asked = iRequest.asked /\ iRequest'.left = iRequest.left
        /\ iRequest'.shown = iRequest.shown /\ iRequest'.read = iRequest.read /\ iRequest'.jobsFirst = iRequest.jobsFirst
    BY <2>2 DEF AnalyticsFields
  <2>4. AnalyticsRequested'
    <3>1. /\ IsJobs(iRequest.read["jobs"], iNow) => IsJobs(iRequest.read["jobs"], iNow')
          /\ IsEvents(iRequest.read["events"], iNow) => IsEvents(iRequest.read["events"], iNow')
          /\ IsAttempts(iRequest.read["attempts"], iNow) => IsAttempts(iRequest.read["attempts"], iNow')
      BY <2>0, StillRead
    <3> QED
      BY <1>2, <2>0, <2>2, <2>3, <3>1 DEF AnalyticsRequested, Has
  <2>5. Compared'
    <3> SUFFICES ASSUME ~iRequest'.removed
                 PROVE  IF iRequest'.jobsFirst THEN Covered(JobsSeen', AttemptsSeen') ELSE Bounded(JobsSeen', AttemptsSeen')
      BY DEF Compared
    <3>1. ~iRequest.removed /\ Grows
      BY <2>2
    <3>2. /\ JobsSeen' = IF Has("jobs") THEN iRequest.read["jobs"] ELSE iJob'
          /\ AttemptsSeen' = IF Has("attempts") THEN iRequest.read["attempts"] ELSE iAttempts'
      BY <2>3 DEF JobsSeen, AttemptsSeen, Has
    <3>3. CASE iRequest.jobsFirst
      <4>1. Has("jobs") /\ JobsSeen = iRequest.read["jobs"] /\ JobsSeen' = JobsSeen /\ Covered(JobsSeen, AttemptsSeen)
        BY <1>2, <2>0, <2>1, <3>1, <3>2, <3>3 DEF JobsSeen, Compared
      <4>2. CASE Has("attempts")
        BY <2>3, <3>2, <3>3, <4>1, <4>2 DEF AttemptsSeen
      <4>3. CASE ~Has("attempts")
        <5>1. Covered(JobsSeen, iAttempts)
          BY <4>1, <4>3 DEF AttemptsSeen
        <5>2. Covered(JobsSeen, iAttempts')
          BY <3>1, <5>1, CoveredStill
        <5> QED
          BY <2>3, <3>2, <3>3, <4>1, <4>3, <5>2
      <4> QED
        BY <4>2, <4>3
    <3>4. CASE ~iRequest.jobsFirst
      <4>0. Bounded(JobsSeen, AttemptsSeen)
        BY <1>2, <2>0, <3>1, <3>4 DEF Compared
      <4>1. CASE ~Has("attempts")
        <5>1. ~Has("jobs") /\ Bounded(iJob', iAttempts')
          BY <2>1, <3>4, <4>1 DEF DataInv
        <5> QED
          BY <2>3, <3>2, <3>4, <4>1, <5>1
      <4>2. CASE Has("attempts") /\ Has("jobs")
        BY <2>3, <3>2, <3>4, <4>0, <4>2 DEF JobsSeen, AttemptsSeen
      <4>3. CASE Has("attempts") /\ ~Has("jobs")
        <5>1. Bounded(iJob, iRequest.read["attempts"]) /\ iRequest.read["attempts"] \subseteq Attempt
          BY <2>1, <4>0, <4>3 DEF JobsSeen, AttemptsSeen, IsAttempts
        <5>2. Bounded(iJob', iRequest.read["attempts"])
          BY <2>0, <3>1, <5>1, BoundedStill
        <5> QED
          BY <2>3, <3>2, <3>4, <4>3, <5>2
      <4> QED
        BY <4>1, <4>2, <4>3
    <3> QED
      BY <3>3, <3>4
  <2> QED
    BY <2>4, <2>5
<1> QED
  BY <1>1, <1>2

LEMMA DataStays ==
  ASSUME DataInv, UNCHANGED I!Stored
  PROVE  DataInv'
<1>1. IsJobs(iJob, iNow)' /\ IsEvents(iEvents, iNow)' /\ IsAttempts(iAttempts, iNow)'
  BY DEF DataInv, I!Stored
<1>2. Covered(iJob, iAttempts)' /\ Bounded(iJob, iAttempts)' /\ Tried'
  BY DEF DataInv, I!Stored, Covered, Bounded, Tried
<1> QED
  BY <1>1, <1>2 DEF DataInv, I!Stored

LEMMA AskKeeps ==
  ASSUME AnalyticsAssumption, AnalyticsIInv, NEW w \in I!Windows, NEW s \in ISessions \cup {None}, I!Ask(w, s)
  PROVE  AnalyticsRequested' /\ Compared'
<1>1. /\ iRequest' = [window |-> I!Resolved(w), asked |-> s, left |-> IF s = None THEN iStored ELSE {s},
                      shown |-> {}, read |-> <<>>, jobsFirst |-> FALSE,
                      could |-> iGranted, removed |-> FALSE, changes |-> 0]
      /\ UNCHANGED I!Stored /\ s \in iStored \cup {None}
  BY DEF I!Ask
<1>2. PICK W : W = I!Resolved(w)
  OBVIOUS
<1>3. W.from \in Int /\ W.to \in Int
  <2>1. iNow \in Int /\ IMaxWindow \in Int
    BY DEF AnalyticsIInv, DataInv, AnalyticsAssumption
  <2>2. /\ w.from = None \/ w.from \in Int
        /\ w.to = None \/ w.to \in Int
    BY DEF I!Windows, AnalyticsAssumption
  <2> QED
    BY <1>2, <2>1, <2>2 DEF I!Resolved
<1>4. PICK L : L = IF s = None THEN iStored ELSE {s}
  OBVIOUS
<1>5. L \subseteq ISessions /\ (s # None => L = {s})
  BY <1>1, <1>4 DEF AnalyticsIInv, DataInv
<1>6. iRequest' = [window |-> W, asked |-> s, left |-> L, shown |-> {}, read |-> <<>>, jobsFirst |-> FALSE,
                   could |-> iGranted, removed |-> FALSE, changes |-> 0]
  BY <1>1, <1>2, <1>4
<1>7. /\ DOMAIN iRequest' = AnalyticsFields /\ iRequest'.window = W /\ iRequest'.asked = s /\ iRequest'.left = L
      /\ iRequest'.shown = {} /\ iRequest'.read = <<>> /\ iRequest'.jobsFirst = FALSE /\ iRequest'.could = iGranted
      /\ iRequest'.removed = FALSE
  BY <1>6 DEF AnalyticsFields
<1>8. DOMAIN iRequest'.read = {}
  <2>1. DOMAIN <<>> = {}
    OBVIOUS
  <2> QED
    BY <1>7, <2>1
<1>9. iGranted' = iGranted /\ iJob' = iJob /\ iAttempts' = iAttempts
  BY <1>1 DEF I!Stored
<1>10. AnalyticsRequested'
  BY <1>3, <1>5, <1>7, <1>8, <1>9 DEF AnalyticsRequested, Has
<1>11. Compared'
  BY <1>7, <1>8, <1>9 DEF Compared, JobsSeen, AttemptsSeen, Has, AnalyticsIInv, DataInv
<1> QED
  BY <1>10, <1>11

LEMMA AuthorizeKeeps ==
  ASSUME AnalyticsAssumption, AnalyticsIInv, NEW s \in ISessions, I!Authorize(s)
  PROVE  AnalyticsRequested' /\ Compared'
<1>0. /\ iRequest # None /\ s \in iRequest.left /\ UNCHANGED I!Stored /\ AnalyticsRequested /\ Compared /\ DOMAIN iRequest = AnalyticsFields
      /\ iRequest' = IF s \in iGranted
                     THEN [iRequest EXCEPT !.left = iRequest.left \ {s}, !.shown = iRequest.shown \cup {s}]
                     ELSE IF iRequest.asked = s THEN None
                     ELSE [iRequest EXCEPT !.left = iRequest.left \ {s}]
  BY DEF I!Authorize, AnalyticsIInv, AnalyticsRequested
<1>1. iNow' = iNow /\ iGranted' = iGranted /\ iJob' = iJob /\ iAttempts' = iAttempts
  BY <1>0 DEF I!Stored
<1>2. CASE iRequest' = None
  BY <1>2 DEF AnalyticsRequested, Compared
<1>3. CASE iRequest' # None
  <2>1. /\ DOMAIN iRequest' = AnalyticsFields
        /\ \A x \in AnalyticsFields \ {"left", "shown"} : iRequest'[x] = iRequest[x]
        /\ iRequest'.left = iRequest.left \ {s}
        /\ iRequest'.shown = IF s \in iGranted THEN iRequest.shown \cup {s} ELSE iRequest.shown
        /\ s \in iGranted \/ iRequest.asked # s
    BY <1>0, <1>3 DEF AnalyticsFields
  <2>2. /\ iRequest'.window = iRequest.window /\ iRequest'.asked = iRequest.asked /\ iRequest'.could = iRequest.could
        /\ iRequest'.read = iRequest.read /\ iRequest'.jobsFirst = iRequest.jobsFirst /\ iRequest'.removed = iRequest.removed
    BY <2>1 DEF AnalyticsFields
  <2>3. /\ iRequest.shown \cup iRequest.left \subseteq ISessions /\ iGranted \cup iRequest.shown \subseteq iRequest.could
        /\ iRequest.asked # None => iRequest.shown \cup iRequest.left = {iRequest.asked}
    BY <1>0 DEF AnalyticsRequested
  <2>4. /\ iRequest'.shown \cup iRequest'.left \subseteq ISessions /\ iGranted' \cup iRequest'.shown \subseteq iRequest'.could
        /\ iRequest'.asked # None => iRequest'.shown \cup iRequest'.left = {iRequest'.asked}
        /\ iRequest.left = {} => iRequest'.left = {}
    <3>1. iRequest.asked # None => s = iRequest.asked /\ s \in iGranted
      BY <1>0, <2>1, <2>3
    <3> QED
      BY <1>0, <1>1, <2>1, <2>2, <2>3, <3>1
  <2>5. AnalyticsRequested'
    BY <1>0, <1>1, <2>1, <2>2, <2>4 DEF AnalyticsRequested, Has
  <2>6. Compared'
    BY <1>0, <1>1, <2>2 DEF Compared, JobsSeen, AttemptsSeen, Has
  <2> QED
    BY <2>5, <2>6
<1> QED
  BY <1>2, <1>3

LEMMA ReadKeeps ==
  ASSUME AnalyticsAssumption, AnalyticsIInv, NEW t \in I!Tables, I!Read(t)
  PROVE  AnalyticsRequested' /\ Compared'
<1>0. /\ iRequest # None /\ iRequest.left = {} /\ t \notin DOMAIN iRequest.read
      /\ UNCHANGED I!Stored /\ AnalyticsRequested /\ Compared /\ DataInv /\ DOMAIN iRequest = AnalyticsFields
  BY DEF I!Read, AnalyticsIInv, AnalyticsRequested
<1> DEFINE R == [u \in DOMAIN iRequest.read \cup {t} |-> IF u = t THEN I!Tabled(t) ELSE iRequest.read[u]]
           first == iRequest.jobsFirst \/ (t = "jobs" /\ "attempts" \notin DOMAIN iRequest.read)
<1>1. iRequest' = [iRequest EXCEPT !.jobsFirst = first, !.read = R]
  BY <1>0 DEF I!Read
<1>2. /\ DOMAIN R = DOMAIN iRequest.read \cup {t} /\ R[t] = I!Tabled(t)
      /\ \A u \in DOMAIN iRequest.read : R[u] = iRequest.read[u]
  BY <1>0
<1>3. I!Tabled("events") = iEvents /\ I!Tabled("attempts") = iAttempts /\ I!Tabled("jobs") = iJob
  BY DEF I!Tabled
<1>4. first \in BOOLEAN
  BY <1>0 DEF AnalyticsRequested
<1> HIDE DEF R
<1>5. /\ DOMAIN iRequest' = AnalyticsFields /\ iRequest'.read = R /\ iRequest'.jobsFirst \in BOOLEAN
      /\ iRequest'.jobsFirst <=> iRequest.jobsFirst \/ (t = "jobs" /\ ~Has("attempts"))
      /\ \A x \in AnalyticsFields \ {"jobsFirst", "read"} : iRequest'[x] = iRequest[x]
  <2>1. PICK b : b = [iRequest EXCEPT !.jobsFirst = first]
    OBVIOUS
  <2>2. PICK c : c = [b EXCEPT !.read = R]
    OBVIOUS
  <2>3. iRequest' = c
    BY <1>1, <2>1, <2>2
  <2>4. DOMAIN b = AnalyticsFields /\ b.jobsFirst = first /\ \A x \in AnalyticsFields \ {"jobsFirst"} : b[x] = iRequest[x]
    <3> HIDE DEF first
    <3> QED
      BY <1>0, <2>1 DEF AnalyticsFields
  <2>5. DOMAIN c = AnalyticsFields /\ c.read = R /\ \A x \in AnalyticsFields \ {"read"} : c[x] = b[x]
    BY <2>2, <2>4 DEF AnalyticsFields
  <2>6. c.jobsFirst = b.jobsFirst
    BY <2>5 DEF AnalyticsFields
  <2>7. (b.jobsFirst \in BOOLEAN) /\ (b.jobsFirst <=> first)
    BY <1>4, <2>4
  <2>8. \A x \in AnalyticsFields \ {"jobsFirst", "read"} : c[x] = iRequest[x]
    BY <2>4, <2>5
  <2>9. c.jobsFirst \in BOOLEAN /\ (c.jobsFirst <=> iRequest.jobsFirst \/ (t = "jobs" /\ ~Has("attempts")))
    BY <2>6, <2>7 DEF Has
  <2> HIDE DEF first
  <2> QED
    BY <2>3, <2>5, <2>8, <2>9
<1> HIDE DEF first
<1>6. /\ iRequest'.window = iRequest.window /\ iRequest'.asked = iRequest.asked /\ iRequest'.could = iRequest.could
      /\ iRequest'.left = iRequest.left /\ iRequest'.shown = iRequest.shown /\ iRequest'.removed = iRequest.removed
  BY <1>5 DEF AnalyticsFields
<1>7. iNow' = iNow /\ iGranted' = iGranted /\ iJob' = iJob /\ iAttempts' = iAttempts
  BY <1>0 DEF I!Stored
<1>8. \A u : Has(u)' <=> (Has(u) \/ u = t)
  BY <1>2, <1>5 DEF Has
<1>9. IsJobs(iJob, iNow) /\ IsEvents(iEvents, iNow) /\ IsAttempts(iAttempts, iNow)
      /\ Covered(iJob, iAttempts) /\ Bounded(iJob, iAttempts)
  BY <1>0 DEF DataInv
<1>10. /\ Has("jobs")' => IsJobs(R["jobs"], iNow)
       /\ Has("events")' => IsEvents(R["events"], iNow)
       /\ Has("attempts")' => IsAttempts(R["attempts"], iNow)
  BY <1>0, <1>2, <1>3, <1>8, <1>9 DEF AnalyticsRequested, Has
<1>11. AnalyticsRequested'
  <2>1. DOMAIN R \subseteq I!Tables
    BY <1>0, <1>2 DEF AnalyticsRequested
  <2>2. (iRequest.jobsFirst => Has("jobs")) /\ (~iRequest.jobsFirst /\ Has("jobs") => Has("attempts"))
    BY <1>0 DEF AnalyticsRequested
  <2>3. (iRequest'.jobsFirst => Has("jobs")') /\ (~iRequest'.jobsFirst /\ Has("jobs")' => Has("attempts")')
    BY <1>5, <1>8, <2>2
  <2> QED
    BY <1>0, <1>5, <1>6, <1>7, <1>10, <2>1, <2>3 DEF AnalyticsRequested
<1>12. Compared'
  <2> SUFFICES ASSUME ~iRequest.removed
               PROVE  IF iRequest'.jobsFirst THEN Covered(JobsSeen', AttemptsSeen') ELSE Bounded(JobsSeen', AttemptsSeen')
    BY <1>6 DEF Compared
  <2>1. /\ JobsSeen' = JobsSeen /\ AttemptsSeen' = AttemptsSeen
    BY <1>0, <1>2, <1>3, <1>5, <1>7, <1>8 DEF JobsSeen, AttemptsSeen, Has
  <2>2. IF iRequest.jobsFirst THEN Covered(JobsSeen, AttemptsSeen) ELSE Bounded(JobsSeen, AttemptsSeen)
    BY <1>0 DEF Compared
  <2>3. CASE iRequest'.jobsFirst <=> iRequest.jobsFirst
    BY <2>1, <2>2, <2>3
  <2>4. CASE ~(iRequest'.jobsFirst <=> iRequest.jobsFirst)
    <3>1. iRequest'.jobsFirst /\ t = "jobs" /\ ~Has("attempts") /\ ~Has("jobs")
      BY <1>0, <1>5, <2>4 DEF Has
    <3>2. JobsSeen = iJob /\ AttemptsSeen = iAttempts
      BY <3>1 DEF JobsSeen, AttemptsSeen
    <3> QED
      BY <1>9, <2>1, <3>1, <3>2
  <2> QED
    BY <2>3, <2>4
<1> QED
  BY <1>11, <1>12

LEMMA NextAnalytics ==
  ASSUME AnalyticsAssumption, AnalyticsIInv, [I!Next]_I!vars
  PROVE  AnalyticsIInv'
<1> DEFINE Goal == AnalyticsIInv'
<1>0. DataInv /\ iNow \in 0..IMaxTime /\ IMaxTime \in Nat /\ iGranted \subseteq iStored
  BY DEF AnalyticsIInv, DataInv, AnalyticsAssumption
<1>1. ASSUME UNCHANGED I!vars PROVE Goal
  <2>1. UNCHANGED I!Stored /\ iRequest' = iRequest
    BY <1>1 DEF I!vars, I!Stored
  <2>2. DataInv'
    BY <1>0, <2>1, DataStays
  <2>3. AnalyticsRequested'
    BY <2>1 DEF AnalyticsIInv, AnalyticsRequested, Has, I!Stored
  <2>4. Compared'
    BY <2>1 DEF AnalyticsIInv, Compared, JobsSeen, AttemptsSeen, Has, I!Stored
  <2> QED
    BY <2>2, <2>3, <2>4 DEF AnalyticsIInv
<1>2. ASSUME NEW w \in I!Windows, NEW s \in ISessions \cup {None}, I!Ask(w, s) PROVE Goal
  <2>1. UNCHANGED I!Stored
    BY <1>2 DEF I!Ask
  <2> QED
    BY <1>0, <1>2, <2>1, DataStays, AskKeeps DEF AnalyticsIInv
<1>3. ASSUME NEW s \in ISessions, I!Authorize(s) PROVE Goal
  <2>1. UNCHANGED I!Stored
    BY <1>3 DEF I!Authorize
  <2> QED
    BY <1>0, <1>3, <2>1, DataStays, AuthorizeKeeps DEF AnalyticsIInv
<1>4. ASSUME NEW t \in I!Tables, I!Read(t) PROVE Goal
  <2>1. UNCHANGED I!Stored
    BY <1>4 DEF I!Read
  <2> QED
    BY <1>0, <1>4, <2>1, DataStays, ReadKeeps DEF AnalyticsIInv
<1>5. ASSUME I!Answer PROVE Goal
  <2>1. UNCHANGED I!Stored /\ iRequest' = None
    BY <1>5 DEF I!Answer
  <2> QED
    BY <1>0, <2>1, DataStays DEF AnalyticsIInv, AnalyticsRequested, Compared
<1>6. ASSUME DataInv', iNow' = iNow, Grows, I!Changing(FALSE) PROVE Goal
  <2>1. iNow <= iNow'
    BY <1>0, <1>6
  <2> QED
    BY <1>6, <2>1, ChangeKeeps DEF AnalyticsIInv
<1>7. ASSUME DataInv', iNow' = iNow, I!Changing(TRUE) PROVE Goal
  <2>1. iNow <= iNow'
    BY <1>0, <1>7
  <2> QED
    BY <1>7, <2>1, ChangeKeeps DEF AnalyticsIInv
<1> HIDE DEF Goal
<1>8. ASSUME NEW j \in IJobs, I!claimDue(j) PROVE Goal
  <2>1. I!Changing(FALSE)
    BY <1>8 DEF I!claimDue
  <2> QED
    BY <1>0, <1>6, <1>8, <2>1, ClaimKeeps
<1>9. ASSUME NEW j \in IJobs, I!complete(j) PROVE Goal
  <2>1. I!Finish(j, "submitted", j)
    BY <1>9 DEF I!complete
  <2>2. I!Changing(FALSE)
    BY Zenon, <2>1 DEF I!Finish
  <2> QED
    BY <1>0, <1>6, <2>1, <2>2, FinishKeeps
<1>10. ASSUME NEW j \in IJobs, NEW st \in {"failed", "unknown", "queued"}, I!fail(j, st) PROVE Goal
  <2>1. I!Finish(j, st, None)
    BY <1>10 DEF I!fail
  <2>2. I!Changing(FALSE)
    BY Zenon, <2>1 DEF I!Finish
  <2>3. None # j
    BY DEF AnalyticsAssumption
  <2> QED
    BY <1>0, <1>6, <2>1, <2>2, <2>3, FinishKeeps
<1>11. ASSUME NEW j \in IJobs, NEW st \in {"acknowledged", "failed"}, I!ack(j, st) PROVE Goal
  <2>1. I!Changing(FALSE)
    BY <1>11 DEF I!ack
  <2> QED
    BY <1>0, <1>6, <1>11, <2>1, AckKeeps
<1>12. ASSUME NEW j \in IJobs, I!cancel(j) PROVE Goal
  <2>1. I!Changing(FALSE)
    BY <1>12 DEF I!cancel
  <2> QED
    BY <1>0, <1>6, <1>12, <2>1, CancelKeeps
<1>13. ASSUME NEW j \in IJobs, I!remove(j) PROVE Goal
  <2>1. I!Changing(TRUE)
    BY <1>13 DEF I!remove
  <2> QED
    BY <1>0, <1>7, <1>13, <2>1, RemoveKeeps
<1>14. ASSUME NEW e \in IEnvelopes, NEW t \in 0..IMaxTime, I!insert(e, t) PROVE Goal
  <2>1. I!Changing(FALSE)
    BY <1>14 DEF I!insert
  <2> QED
    BY <1>0, <1>6, <1>14, <2>1, InsertKeeps
<1>15. ASSUME NEW s \in ISessions, I!removeSession(s) PROVE Goal
  <2>1. I!Changing(TRUE)
    BY <1>15 DEF I!removeSession
  <2> QED
    BY <1>0, <1>7, <1>15, <2>1, RemoveSessionKeeps
<1>16. ASSUME NEW s \in ISessions, I!Grant(s) PROVE Goal
  <2>1. I!Changing(FALSE) /\ UNCHANGED <<iNow, iStored, iJob, iAttempts, iEvents>> /\ iGranted' \subseteq iStored
    BY <1>0, <1>16 DEF I!Grant
  <2> QED
    BY <1>0, <1>6, <2>1, LeftKeeps
<1>17. ASSUME I!Tick PROVE Goal
  <2>1. I!Changing(FALSE)
    BY <1>17 DEF I!Tick
  <2>2. DataInv' /\ Grows /\ iNow' = iNow + 1
    BY <1>0, <1>17, TickKeeps
  <2>3. iNow <= iNow'
    BY <1>0, <2>2
  <2> QED
    BY <2>1, <2>2, <2>3, ChangeKeeps DEF AnalyticsIInv, Goal
<1> QED
  BY <1>1, <1>2, <1>3, <1>4, <1>5, <1>8, <1>9, <1>10, <1>11, <1>12, <1>13, <1>14, <1>15, <1>16, <1>17 DEF I!Next, Goal

-----------------------------------------------------------------------------
(* What the figures say of tables read apart from each other. *)
LEMMA AttemptsFinite ==
  ASSUME AnalyticsAssumption, NEW A, NEW t, IsAttempts(A, t)
  PROVE  IsFiniteSet(A)
<1> DEFINE B == IJobs \X (1..IMaxAttempts)
           key == [a \in A |-> <<a.job, a.number>>]
<1>1. IsFiniteSet(B)
  <2>1. IsFiniteSet(1..IMaxAttempts)
    BY FS_Interval DEF AnalyticsAssumption
  <2> QED
    BY <2>1, FS_Product DEF AnalyticsAssumption
<1>2. key \in Injection(A, B)
  <2>1. key \in [A -> B]
    BY DEF IsAttempts, Attempt
  <2>2. \A a, b \in A : key[a] = key[b] => a = b
    BY DEF IsAttempts
  <2> QED
    BY <2>1, <2>2 DEF Injection, IsInjective
<1> HIDE DEF key, B
<1> QED
  BY <1>1, <1>2, FS_Injection

LEMMA AreTables ==
  ASSUME AnalyticsAssumption, NEW read, NEW t \in 0..IMaxTime,
         IsJobs(read["jobs"], t), IsEvents(read["events"], t), IsAttempts(read["attempts"], t)
  PROVE  IsTables(read)
<1>1. read["events"] \in [IEnvelopes -> {None} \cup 0..IMaxTime]
  <2>1. 0..t \subseteq 0..IMaxTime
    BY DEF AnalyticsAssumption
  <2> QED
    BY <2>1 DEF IsEvents
<1>2. IsFiniteSet(read["attempts"])
  BY AttemptsFinite
<1>3. \A a \in read["attempts"] : a.job \in IJobs /\ a.number \in 1..IMaxAttempts /\ a.at \in 0..IMaxTime /\ a.id \in {None, a.job}
  BY DEF IsAttempts, Attempt
<1> QED
  BY <1>1, <1>2, <1>3 DEF IsTables, IsJobs

LEMMA Read3 ==
  ASSUME AnalyticsAssumption, AnalyticsIInv, I!Complete
  PROVE  /\ IsTables(iRequest.read) /\ IsFiniteSet(iRequest.shown)
         /\ IsJobs(iRequest.read["jobs"], iNow) /\ IsAttempts(iRequest.read["attempts"], iNow)
         /\ iRequest.shown \subseteq ISessions /\ iRequest.window.from \in Int /\ iRequest.window.to \in Int
         /\ ~iRequest.removed => IF iRequest.jobsFirst THEN Covered(iRequest.read["jobs"], iRequest.read["attempts"])
                                 ELSE Bounded(iRequest.read["jobs"], iRequest.read["attempts"])
<1>1. Has("jobs") /\ Has("events") /\ Has("attempts") /\ iRequest # None
  BY DEF I!Complete, I!Tables, Has
<1>2. /\ IsJobs(iRequest.read["jobs"], iNow) /\ IsEvents(iRequest.read["events"], iNow)
      /\ IsAttempts(iRequest.read["attempts"], iNow) /\ iRequest.shown \subseteq ISessions /\ iNow \in 0..IMaxTime
      /\ iRequest.window.from \in Int /\ iRequest.window.to \in Int
  BY <1>1 DEF AnalyticsIInv, AnalyticsRequested, DataInv
<1>3. IsTables(iRequest.read)
  BY <1>2, AreTables
<1>4. IsFiniteSet(iRequest.shown)
  BY <1>2, FS_Subset DEF AnalyticsAssumption
<1> QED
  BY <1>1, <1>2, <1>3, <1>4 DEF AnalyticsIInv, Compared, JobsSeen, AttemptsSeen

(* Of the attempts of the sessions shown in the window, those of a message   *)
(* WAHA took are the ones told to be submitted, acknowledged or failed.      *)
Evidenced(read, S, w) == {a \in read["attempts"] : ISessionOf[a.job] \in S /\ I!inWindow(a.at, w) /\ a.id # None}

LEMMA EvidencedAre ==
  ASSUME AnalyticsAssumption, NEW read, IsTables(read), NEW t, IsAttempts(read["attempts"], t),
         NEW S, IsFiniteSet(S), NEW w
  PROVE  LET P == I!projectAnalytics(read, S, w) IN
         /\ P.acknowledgments["submitted"] + P.acknowledgments["acknowledged"] + P.acknowledgments["failed"]
              = Cardinality(Evidenced(read, S, w))
         /\ IsFiniteSet(Evidenced(read, S, w)) /\ Cardinality(Evidenced(read, S, w)) \in Nat
         /\ P.acknowledgments["unknown"] \in Nat
         /\ P.acknowledgments["unknown"] >= Cardinality(Received(read, S, w))
<1> DEFINE P == I!projectAnalytics(read, S, w)
           T(f) == Taken(read, S, w, f)
           Ids == Evidenced(read, S, w)
<1>1. \A f : IsFiniteSet(T(f)) /\ Cardinality(T(f)) \in Nat
  BY AllFinite
<1>2. \A f \in Acknowledged :
        P.acknowledgments[f] = Cardinality({e \in Received(read, S, w) : f = "unknown"}) + Cardinality(T(f))
  BY FiguresAre
<1>3. Ids = (T("submitted") \cup T("acknowledged")) \cup T("failed")
  BY DEF Evidenced, Taken, IsAttempts, I!attemptState, I!Figure
<1>4. /\ T("submitted") \cap T("acknowledged") = {}
      /\ (T("submitted") \cup T("acknowledged")) \cap T("failed") = {}
  BY DEF Taken
<1>5. \A f \in {"submitted", "acknowledged", "failed"} : {e \in Received(read, S, w) : f = "unknown"} = {}
  OBVIOUS
<1>6. {e \in Received(read, S, w) : "unknown" = "unknown"} = Received(read, S, w)
  OBVIOUS
<1>7. Cardinality(Received(read, S, w)) \in Nat
  BY AllFinite
<1> HIDE DEF P, T, Ids
<1>8. \A f \in {"submitted", "acknowledged", "failed"} : P.acknowledgments[f] = Cardinality(T(f))
  <2> SUFFICES ASSUME NEW f \in {"submitted", "acknowledged", "failed"}
               PROVE  P.acknowledgments[f] = Cardinality(T(f))
    OBVIOUS
  <2>1. f \in Acknowledged
    BY DEF Acknowledged
  <2>2. Cardinality({e \in Received(read, S, w) : f = "unknown"}) = 0
    BY <1>5, FS_EmptySet
  <2>3. PICK X : X = {e \in Received(read, S, w) : f = "unknown"}
    OBVIOUS
  <2>4. Cardinality(X) = 0 /\ P.acknowledgments[f] = Cardinality(X) + Cardinality(T(f))
    BY <1>2, <2>1, <2>2, <2>3
  <2> QED
    BY <1>1, <2>4
<1>9. P.acknowledgments["unknown"] = Cardinality(Received(read, S, w)) + Cardinality(T("unknown"))
  BY <1>2, <1>6 DEF Acknowledged
<1>10. /\ IsFiniteSet(T("submitted") \cup T("acknowledged"))
       /\ Cardinality(T("submitted") \cup T("acknowledged")) = Cardinality(T("submitted")) + Cardinality(T("acknowledged"))
  BY <1>1, <1>4, Apart
<1>11. /\ IsFiniteSet(Ids)
       /\ Cardinality(Ids) = Cardinality(T("submitted") \cup T("acknowledged")) + Cardinality(T("failed"))
  BY <1>1, <1>3, <1>4, <1>10, Apart
<1>12. P.acknowledgments["submitted"] + P.acknowledgments["acknowledged"] + P.acknowledgments["failed"] = Cardinality(Ids)
       /\ Cardinality(Ids) \in Nat
  BY <1>1, <1>8, <1>10, <1>11
<1>13. P.acknowledgments["unknown"] \in Nat /\ P.acknowledgments["unknown"] >= Cardinality(Received(read, S, w))
  BY <1>1, <1>7, <1>9
<1> QED
  BY <1>11, <1>12, <1>13 DEF P, Ids

LEMMA CountedAre ==
  ASSUME AnalyticsAssumption, NEW read, IsTables(read), NEW S, IsFiniteSet(S), NEW w
  PROVE  /\ I!projectAnalytics(read, S, w).messages = Cardinality(Received(read, S, w))
         /\ I!projectAnalytics(read, S, w).retries = Cardinality(Retried(read, S, w))
         /\ \A st \in I!JobStates : I!projectAnalytics(read, S, w).outcomes[st] = Cardinality(Ended(read, S, w, st))
<1> DEFINE P == I!projectAnalytics(read, S, w)
<1>1. /\ P.messages = Cardinality(Received(read, S, w))
      /\ P.retries = Cardinality(Retried(read, S, w))
      /\ \A st \in I!JobStates : P.outcomes[st] = Cardinality(Ended(read, S, w, st))
  BY FiguresAre
<1> QED
  BY <1>1

LEMMA RateIs ==
  ASSUME NEW read, NEW S, NEW w
  PROVE  LET P == I!projectAnalytics(read, S, w)
             a == P.acknowledgments
             completed == a["submitted"] + a["acknowledged"] + a["failed"] IN
         P.failureRate = IF a["unknown"] > 0 \/ completed = 0 THEN None ELSE <<a["failed"], completed>>
  BY ISumFunction DEF I!projectAnalytics

(* Over all the time so far everything read is in the window.                *)
LEMMA WholeIs ==
  ASSUME AnalyticsAssumption, AnalyticsIInv, I!WholeTime, NEW t \in 0..iNow
  PROVE  I!inWindow(t, iRequest.window)
<1>1. iNow \in Nat /\ iRequest.window.from \in Int /\ iRequest.window.to \in Int
  BY Read3 DEF I!WholeTime, AnalyticsIInv, DataInv, AnalyticsAssumption
<1> QED
  BY <1>1 DEF I!WholeTime, I!inWindow

LEMMA Agrees ==
  ASSUME AnalyticsAssumption, AnalyticsIInv
  PROVE  I!JobsAndAttemptsAgree
<1> SUFFICES ASSUME I!WholeTime, ~iRequest.removed
             PROVE  LET a == I!Reported.acknowledgments
                        evidenced == a["submitted"] + a["acknowledged"] + a["failed"]
                        sent == I!Reported.outcomes["submitted"] IN
                    IF iRequest.jobsFirst THEN sent <= evidenced ELSE evidenced <= sent
  BY DEF I!JobsAndAttemptsAgree
<1> DEFINE read == iRequest.read
           S == iRequest.shown
           w == iRequest.window
           Ids == Evidenced(read, S, w)
           D == Ended(read, S, w, "submitted")
<1>0. I!Complete
  BY DEF I!WholeTime
<1>1. /\ IsTables(read) /\ IsFiniteSet(S) /\ IsJobs(read["jobs"], iNow) /\ IsAttempts(read["attempts"], iNow)
      /\ IF iRequest.jobsFirst THEN Covered(read["jobs"], read["attempts"]) ELSE Bounded(read["jobs"], read["attempts"])
  BY <1>0, Read3
<1>2. /\ \A j \in IJobs : read["jobs"][j] # None => I!inWindow(read["jobs"][j].updated, w)
      /\ \A a \in read["attempts"] : I!inWindow(a.at, w)
  <2>1. \A t \in 0..iNow : I!inWindow(t, w)
    BY WholeIs
  <2>2. \A j \in IJobs : read["jobs"][j] # None => read["jobs"][j].updated \in 0..iNow
    BY <1>1 DEF IsJobs, JobRow, AnalyticsIInv, DataInv
  <2>3. \A a \in read["attempts"] : a.at \in 0..iNow
    BY <1>1 DEF IsAttempts, Attempt, AnalyticsIInv, DataInv
  <2> QED
    BY <2>1, <2>2, <2>3
<1>3. /\ I!Reported.acknowledgments["submitted"] + I!Reported.acknowledgments["acknowledged"]
           + I!Reported.acknowledgments["failed"] = Cardinality(Ids)
      /\ IsFiniteSet(Ids) /\ Cardinality(Ids) \in Nat
  BY <1>1, EvidencedAre DEF I!Reported
<1>4. I!Reported.outcomes["submitted"] = Cardinality(D) /\ IsFiniteSet(D) /\ Cardinality(D) \in Nat
  <2>1. "submitted" \in I!JobStates
    BY DEF I!JobStates
  <2> QED
    BY <1>1, <2>1, CountedAre, AllFinite DEF I!Reported
<1>5. /\ Ids = {a \in read["attempts"] : ISessionOf[a.job] \in S /\ a.id # None}
      /\ D = {j \in IJobs : read["jobs"][j] # None /\ ISessionOf[j] \in S /\ read["jobs"][j].state = "submitted"}
  BY <1>2 DEF Evidenced, Ended
<1> HIDE DEF read, S, w, Ids, D
<1>6. CASE iRequest.jobsFirst
  <2> DEFINE of == [j \in D |-> CHOOSE a \in Ids : a.job = j]
  <2>1. \A j \in D : of[j] \in Ids /\ of[j].job = j
    <3>1. \A j \in D : \E a \in Ids : a.job = j
      BY <1>1, <1>5, <1>6 DEF Covered
    <3> QED
      BY <3>1
  <2>2. of \in Injection(D, Ids)
    <3>1. of \in [D -> Ids]
      BY <2>1
    <3>2. \A i, j \in D : of[i] = of[j] => i = j
      BY <2>1
    <3> QED
      BY <3>1, <3>2 DEF Injection, IsInjective
  <2> HIDE DEF of
  <2>3. Cardinality(D) <= Cardinality(Ids)
    BY <1>3, <2>2, FS_Injection
  <2> QED
    BY <1>3, <1>4, <1>6, <2>3
<1>7. CASE ~iRequest.jobsFirst
  <2> DEFINE of == [a \in Ids |-> a.job]
  <2>1. of \in Injection(Ids, D)
    <3>1. of \in [Ids -> D]
      BY <1>1, <1>5, <1>7 DEF Bounded, IsAttempts, Attempt
    <3>2. \A a, b \in Ids : of[a] = of[b] => a = b
      BY <1>1, <1>5 DEF IsAttempts
    <3> QED
      BY <3>1, <3>2 DEF Injection, IsInjective
  <2> HIDE DEF of
  <2>2. Cardinality(Ids) <= Cardinality(D)
    BY <1>4, <2>1, FS_Injection
  <2> QED
    BY <1>3, <1>4, <1>7, <2>2
<1> QED
  BY <1>6, <1>7

LEMMA RetriesAgree ==
  ASSUME AnalyticsAssumption, AnalyticsIInv
  PROVE  I!RetriesAreAttempts
<1> DEFINE read == iRequest.read
           S == iRequest.shown
           w == iRequest.window
           M == {a \in read["attempts"] : ISessionOf[a.job] \in S /\ a.number > 1}
           D == Retried(read, S, w)
<1> SUFFICES ASSUME I!WholeTime, ~iRequest.removed
             PROVE  IF iRequest.jobsFirst THEN I!Reported.retries <= Cardinality(M) ELSE Cardinality(M) <= I!Reported.retries
  BY ICardinality DEF I!RetriesAreAttempts
<1>0. I!Complete
  BY DEF I!WholeTime
<1>1. /\ IsTables(read) /\ IsFiniteSet(S) /\ IsJobs(read["jobs"], iNow) /\ IsAttempts(read["attempts"], iNow)
      /\ IF iRequest.jobsFirst THEN Covered(read["jobs"], read["attempts"]) ELSE Bounded(read["jobs"], read["attempts"])
  BY <1>0, Read3
<1>2. \A j \in IJobs : read["jobs"][j] # None => I!inWindow(read["jobs"][j].updated, w)
  <2>1. \A t \in 0..iNow : I!inWindow(t, w)
    BY WholeIs
  <2>2. \A j \in IJobs : read["jobs"][j] # None => read["jobs"][j].updated \in 0..iNow
    BY <1>1 DEF IsJobs, JobRow, AnalyticsIInv, DataInv
  <2> QED
    BY <2>1, <2>2
<1>3. I!Reported.retries = Cardinality(D) /\ IsFiniteSet(D)
  <2>1. I!Reported.retries = Cardinality(D)
    BY <1>1, CountedAre DEF I!Reported
  <2>2. IsFiniteSet(D)
    BY <1>1, AllFinite
  <2> QED
    BY <2>1, <2>2
<1>4. IsFiniteSet(M)
  <2>1. IsFiniteSet(read["attempts"]) /\ M \subseteq read["attempts"]
    BY <1>1, AttemptsFinite
  <2> HIDE DEF M
  <2> QED
    BY <2>1, FS_Subset
<1>5. D = {p \in IJobs \X (2..IMaxAttempts) : /\ read["jobs"][p[1]] # None /\ ISessionOf[p[1]] \in S
                                            /\ p[2] <= read["jobs"][p[1]].attempts}
  BY <1>2 DEF Retried, Again
<1>6. IMaxAttempts \in Nat /\ \A j \in IJobs : read["jobs"][j] # None => read["jobs"][j].attempts \in 0..IMaxAttempts
  BY <1>1 DEF IsJobs, JobRow, AnalyticsAssumption
<1>7. /\ read["attempts"] \subseteq Attempt
      /\ \A a, b \in read["attempts"] : a.job = b.job /\ a.number = b.number => a = b
  BY <1>1 DEF IsAttempts
<1> HIDE DEF read, S, w, D
<1>8. CASE iRequest.jobsFirst
  <2> DEFINE of == [p \in D |-> CHOOSE a \in M : a.job = p[1] /\ a.number = p[2]]
  <2>1. \A p \in D : of[p] \in M /\ of[p].job = p[1] /\ of[p].number = p[2]
    <3>1. ASSUME NEW p \in D
          PROVE  \E a \in M : a.job = p[1] /\ a.number = p[2]
      <4>1. p[1] \in IJobs /\ p[2] \in 2..IMaxAttempts /\ read["jobs"][p[1]] # None /\ ISessionOf[p[1]] \in S
            /\ p[2] <= read["jobs"][p[1]].attempts
        BY <1>5
      <4>2. p[2] \in 1..read["jobs"][p[1]].attempts
        BY <1>6, <4>1
      <4>3. PICK a \in read["attempts"] : a.job = p[1] /\ a.number = p[2]
        BY <1>1, <1>8, <4>1, <4>2 DEF Covered
      <4> QED
        BY <1>6, <4>1, <4>3
    <3> HIDE DEF M
    <3> QED
      BY <3>1
  <2>2. of \in Injection(D, M)
    <3>1. of \in [D -> M]
      BY <2>1
    <3>2. \A p, q \in D : of[p] = of[q] => p = q
      <4>1. \A p \in D : p = <<p[1], p[2]>>
        BY <1>5
      <4> HIDE DEF of, M
      <4> QED
        BY <2>1, <4>1
    <3> QED
      BY <3>1, <3>2 DEF Injection, IsInjective
  <2> HIDE DEF of, M
  <2>3. Cardinality(D) <= Cardinality(M)
    BY <1>4, <2>2, FS_Injection
  <2> QED
    BY <1>3, <1>8, <2>3 DEF M
<1>9. CASE ~iRequest.jobsFirst
  <2> DEFINE of == [a \in M |-> <<a.job, a.number>>]
  <2>1. of \in Injection(M, D)
    <3>1. ASSUME NEW a \in M
          PROVE  <<a.job, a.number>> \in D
      <4>1. a.job \in IJobs /\ a.number \in 1..IMaxAttempts /\ a.number > 1 /\ ISessionOf[a.job] \in S
        BY <1>7 DEF Attempt
      <4>2. read["jobs"][a.job] # None /\ a.number <= read["jobs"][a.job].attempts
        BY <1>1, <1>9 DEF Bounded
      <4>3. a.number \in 2..IMaxAttempts
        BY <1>6, <4>1
      <4> QED
        BY <1>5, <4>1, <4>2, <4>3
    <3>2. of \in [M -> D]
      BY <3>1
    <3>3. \A a, b \in M : of[a] = of[b] => a = b
      BY <1>7
    <3> QED
      BY <3>2, <3>3 DEF Injection, IsInjective
  <2> HIDE DEF of, M
  <2>2. Cardinality(M) <= Cardinality(D)
    BY <1>3, <2>1, FS_Injection
  <2> QED
    BY <1>3, <1>9, <2>2 DEF M
<1> QED
  BY <1>8, <1>9

LEMMA RateAgrees ==
  ASSUME AnalyticsAssumption, AnalyticsIInv
  PROVE  I!RateOfTheTaken
<1> DEFINE read == iRequest.read
           S == iRequest.shown
           w == iRequest.window
           Ids == Evidenced(read, S, w)
           K == {a \in read["attempts"] : a.id # None}
           P == I!projectAnalytics(read, S, w)
<1> SUFFICES ASSUME I!Complete, P.failureRate # None
             PROVE  P.messages = 0 /\ P.failureRate[2] <= Cardinality(K)
  BY ICardinality DEF I!RateOfTheTaken, I!Reported
<1>1. /\ IsTables(read) /\ IsFiniteSet(S) /\ IsAttempts(read["attempts"], iNow)
  BY Read3
<1>2. /\ P.acknowledgments["submitted"] + P.acknowledgments["acknowledged"] + P.acknowledgments["failed"] = Cardinality(Ids)
      /\ IsFiniteSet(Ids) /\ Cardinality(Ids) \in Nat
      /\ P.acknowledgments["unknown"] \in Nat /\ P.acknowledgments["unknown"] >= Cardinality(Received(read, S, w))
  BY <1>1, EvidencedAre
<1>3. P.messages = Cardinality(Received(read, S, w)) /\ Cardinality(Received(read, S, w)) \in Nat
  <2>1. P.messages = Cardinality(Received(read, S, w))
    BY <1>1, CountedAre
  <2>2. Cardinality(Received(read, S, w)) \in Nat
    BY <1>1, AllFinite
  <2> QED
    BY <2>1, <2>2
<1>4. Cardinality(Ids) <= Cardinality(K) /\ Cardinality(K) \in Nat
  <2>1. IsFiniteSet(read["attempts"]) /\ K \subseteq read["attempts"] /\ Ids \subseteq K
    BY <1>1, AttemptsFinite DEF Evidenced
  <2> HIDE DEF read, K, Ids
  <2> QED
    BY <2>1, FS_Subset, FS_CardinalityType
<1>5. P.failureRate = IF P.acknowledgments["unknown"] > 0 \/ Cardinality(Ids) = 0 THEN None
                      ELSE <<P.acknowledgments["failed"], Cardinality(Ids)>>
  <2>1. P.failureRate = IF P.acknowledgments["unknown"] > 0
                           \/ P.acknowledgments["submitted"] + P.acknowledgments["acknowledged"] + P.acknowledgments["failed"] = 0
                        THEN None
                        ELSE <<P.acknowledgments["failed"],
                               P.acknowledgments["submitted"] + P.acknowledgments["acknowledged"] + P.acknowledgments["failed"]>>
    BY RateIs
  <2> HIDE DEF P, Ids
  <2> QED
    BY <1>2, <2>1
<1> HIDE DEF P, Ids, K
<1>6. ~(P.acknowledgments["unknown"] > 0) /\ P.failureRate[2] = Cardinality(Ids)
  BY <1>5
<1> QED
  BY <1>2, <1>3, <1>4, <1>6

LEMMA AnalyticsSuffices ==
  ASSUME AnalyticsAssumption, AnalyticsIInv
  PROVE  I!AnalyticsInv
<1>0. DataInv /\ AnalyticsRequested /\ iNow \in 0..IMaxTime /\ IMaxTime \in Nat
  BY DEF AnalyticsIInv, DataInv, AnalyticsAssumption
<1>1. I!TypeOK
  <2>1. iJob \in [IJobs -> {None} \cup [state : I!JobStates, attempts : 0..IMaxAttempts, updated : 0..IMaxTime]]
    BY <1>0 DEF DataInv, IsJobs, JobRow
  <2>2. \A a \in iAttempts : a.job \in IJobs /\ a.number \in 1..IMaxAttempts /\ a.at \in 0..IMaxTime
    BY <1>0 DEF DataInv, IsAttempts, Attempt
  <2>3. iEvents \in [IEnvelopes -> {None} \cup 0..IMaxTime]
    <3>1. 0..iNow \subseteq 0..IMaxTime
      BY <1>0
    <3> QED
      BY <1>0, <3>1 DEF DataInv, IsEvents
  <2> QED
    BY <1>0, <2>1, <2>2, <2>3 DEF I!TypeOK, DataInv, AnalyticsRequested
<1>2. I!OnlyGranted
  BY <1>0 DEF I!OnlyGranted, AnalyticsRequested, I!Complete, I!Tables
<1>3. I!AdjacentWindowsAddUp
  <2> DEFINE read == I!Now
  <2>1. read["jobs"] = iJob /\ read["events"] = iEvents /\ read["attempts"] = iAttempts
    BY DEF I!Now
  <2>2. IsTables(I!Now)
    BY <1>0, <2>1, AreTables DEF DataInv
  <2>3. IsFiniteSet(iStored)
    BY <1>0, FS_Subset DEF DataInv, AnalyticsAssumption
  <2> QED
    BY <2>2, <2>3, WindowsMeet DEF I!AdjacentWindowsAddUp, I!Figures
<1>4. I!UptimeIsTimeActive
  BY TimeActive, ICardinality DEF I!UptimeIsTimeActive
<1> QED
  BY <1>1, <1>2, <1>3, <1>4, Agrees, RetriesAgree, RateAgrees DEF I!AnalyticsInv

(* The figures of whatever was read while others wrote: the windows add up,  *)
(* jobs and attempts differ only the way the order of the reads allows.      *)
THEOREM AnalyticsHolds ==
  ASSUME AnalyticsAssumption
  PROVE  I!Spec => []I!AnalyticsInv
<1>1. I!Init => AnalyticsIInv
  BY InitAnalytics
<1>2. AnalyticsIInv /\ [I!Next]_I!vars => AnalyticsIInv'
  BY NextAnalytics
<1>3. AnalyticsIInv => I!AnalyticsInv
  BY AnalyticsSuffices
<1> QED
  BY <1>1, <1>2, <1>3, PTL DEF I!Spec

=============================================================================
