------------------------ MODULE CandidateSet_proofs ------------------------
(***************************************************************************)
(* Theorems about CandidateDB::queryCandidateSet, for any number of items, *)
(* users and concurrent queries, any limits, and whatever calls fail.      *)
(***************************************************************************)
EXTENDS CandidateSet, FiniteSetTheorems, TLAPS

\* A query that is under way has a request; only then is its history a set of
\* items.
Asking == \A c \in Clients : pc[c] # "idle" => req[c] \in Requests

LEMMA TypeInit == Init => TypeOK /\ Asking
<1> SUFFICES ASSUME Init PROVE TypeOK /\ Asking
  OBVIOUS
<1>1. /\ present \subseteq Items /\ recommended \in [Users -> SUBSET Items]
      /\ clicked \in [Users -> SUBSET Items]
  BY DEF Init
<1>2. /\ NoResult \in [items : SUBSET Items, history : SUBSET Items]
      /\ Nothing \in [cities : SUBSET City, recommended : SUBSET Items, failed : BOOLEAN]
  BY DEF NoResult, Nothing
<1>3. updates \in 0 .. MaxUpdates
  BY CandidateSetAssumption DEF CandidateSetAssumption, Init
<1>4. QED
  BY <1>1, <1>2, <1>3 DEF Init, TypeOK, Asking

\* A selection takes its items from the lists of the query.
LEMMA SelectionType ==
  ASSUME NEW c \in Clients, NEW s \in Selection(c)
  PROVE  s \subseteq normal[c] \cup video[c] \cup region[c]
  BY DEF Selection, FirstOf

\* What a call does when its failure is ignored: nothing but being noted.
LEMMA IgnoredFailureType ==
  ASSUME TypeOK, NEW c \in Clients, IgnoredFailure(c)
  PROVE  /\ was' \in [Clients -> [cities : SUBSET City, recommended : SUBSET Items, failed : BOOLEAN]]
         /\ was'[c].failed = TRUE
         /\ was'[c].recommended = was[c].recommended /\ was'[c].cities = was[c].cities
         /\ \A d \in Clients \ {c} : was'[d] = was[d]
<1>1. was[c] \in [cities : SUBSET City, recommended : SUBSET Items, failed : BOOLEAN]
  BY DEF TypeOK
<1> DEFINE w == [was[c] EXCEPT !.failed = TRUE]
<1>2. /\ w \in [cities : SUBSET City, recommended : SUBSET Items, failed : BOOLEAN]
      /\ w.failed = TRUE /\ w.recommended = was[c].recommended /\ w.cities = was[c].cities
  BY <1>1
<1>3. was' = [was EXCEPT ![c] = w]
  BY DEF IgnoredFailure
<1> HIDE DEF w
<1>4. was \in [Clients -> [cities : SUBSET City, recommended : SUBSET Items, failed : BOOLEAN]]
  BY DEF TypeOK
<1>5. was'[c] = w /\ \A d \in Clients \ {c} : was'[d] = was[d]
  BY <1>3, <1>4
<1>6. QED
  BY <1>2, <1>3, <1>4, <1>5

LEMMA QueriedType ==
  ASSUME TypeOK, NEW c \in Clients, NEW kind, NEW found, Queried(c, kind, found)
  PROVE  /\ found \subseteq kind
         /\ was' \in [Clients -> [cities : SUBSET City, recommended : SUBSET Items, failed : BOOLEAN]]
<1>1. CASE IgnoredFailure(c) /\ found = {}
  BY <1>1, IgnoredFailureType
<1>2. CASE found = kind \cap present /\ UNCHANGED was
  BY <1>2 DEF TypeOK
<1>3. QED
  BY <1>1, <1>2 DEF Queried

LEMMA UpdateType ==
  ASSUME TypeOK, Update
  PROVE  updates' \in 0 .. MaxUpdates
<1>1. MaxUpdates \in Nat /\ updates \in 0 .. MaxUpdates
  BY CandidateSetAssumption DEF CandidateSetAssumption, TypeOK
<1>2. QED
  BY <1>1 DEF Update

LEMMA ResultType ==
  ASSUME NEW r \in [items : SUBSET Items, history : SUBSET Items], NEW s \in SUBSET Items
  PROVE  /\ [r EXCEPT !.items = s] \in [items : SUBSET Items, history : SUBSET Items]
         /\ [r EXCEPT !.history = s] \in [items : SUBSET Items, history : SUBSET Items]
         /\ [r EXCEPT !.items = s].items = s /\ [r EXCEPT !.items = s].history = r.history
         /\ [r EXCEPT !.history = s].history = s
  OBVIOUS

LEMMA AskingNext == TypeOK /\ Asking /\ [Next]_vars => Asking'
<1> SUFFICES ASSUME TypeOK, Asking, [Next]_vars PROVE Asking'
  OBVIOUS
<1> USE DEF TypeOK, tables, sets, Goto, Asking
<1>1. ASSUME NEW c \in Clients, QueryCandidateSet(c) PROVE Asking'
  BY <1>1 DEF QueryCandidateSet
<1>2. ASSUME NEW c \in Clients, Reply(c) PROVE Asking'
  BY <1>2 DEF Reply
<1>3. ASSUME NEW c \in Clients, Query(c), pc[c] # "idle", UNCHANGED req PROVE Asking'
  BY <1>3 DEF Query, QueryCandidateSet, QueryNormal, FilterNormal, Fails, QueryVideo,
     FilterVideo, QueryCity, QueryProvince, FilterRegion, QueryHistory, Select, Reply
<1>4. ASSUME NEW c \in Clients, Query(c) PROVE Asking'
  <2>1. QueryCandidateSet(c) \/ Reply(c) \/ (pc[c] # "idle" /\ UNCHANGED req)
    BY <1>4 DEF Query, QueryNormal, FilterNormal, Fails, QueryVideo, FilterVideo,
       QueryCity, QueryProvince, FilterRegion, QueryHistory, Select
  <2>2. QED
    BY <1>1, <1>2, <1>3, <1>4, <2>1
<1>5. ASSUME NEW i \in Items, AddItem(i) PROVE Asking'
  BY <1>5 DEF AddItem
<1>6. ASSUME NEW u \in Users, NEW i \in Items, UpdateFeedback(u, i) PROVE Asking'
  BY <1>6 DEF UpdateFeedback
<1>7. ASSUME NEW u \in Users, NEW i \in Items, UpdateAction(u, i) PROVE Asking'
  BY <1>7 DEF UpdateAction
<1>8. CASE UNCHANGED vars
  BY <1>8 DEF vars
<1>9. QED
  BY <1>4, <1>5, <1>6, <1>7, <1>8 DEF Next

LEMMA TypeNext == TypeOK /\ Asking /\ [Next]_vars => TypeOK'
<1> SUFFICES ASSUME TypeOK, Asking, [Next]_vars PROVE TypeOK'
  OBVIOUS
<1> USE DEF TypeOK, tables, sets, Goto
<1>1. ASSUME NEW c \in Clients, QueryCandidateSet(c) PROVE TypeOK'
  <2>1. PICK r \in Requests :
          /\ req' = [req EXCEPT ![c] = r]
          /\ was' = [was EXCEPT ![c] = [cities |-> present \cap City,
                                        recommended |-> recommended[r.user],
                                        failed |-> FALSE]]
    BY <1>1 DEF QueryCandidateSet
  <2>2. recommended[r.user] \subseteq Items
    BY DEF Requests
  <2>3. [cities |-> present \cap City, recommended |-> recommended[r.user], failed |-> FALSE]
           \in [cities : SUBSET City, recommended : SUBSET Items, failed : BOOLEAN]
    BY <2>2
  <2>4. QED
    BY <1>1, <2>1, <2>3 DEF QueryCandidateSet
<1>2. ASSUME NEW c \in Clients, QueryNormal(c) PROVE TypeOK'
  BY <1>2 DEF QueryNormal
<1>3. ASSUME NEW c \in Clients, FilterNormal(c) PROVE TypeOK'
  <2>1. PICK left \in Filtered(c, normal[c]) : normal' = [normal EXCEPT ![c] = left]
    BY <1>3 DEF FilterNormal
  <2>2. QED
    BY <1>3, <2>1 DEF FilterNormal, Filtered
<1>4. ASSUME NEW c \in Clients, Fails(c) PROVE TypeOK'
  BY <1>4 DEF Fails
<1>5. ASSUME NEW c \in Clients, QueryVideo(c) PROVE TypeOK'
  <2>1. CASE Recommends /\ req[c].wifi
    <3>1. PICK found \in SUBSET Video :
            /\ Queried(c, Video, found)
            /\ video' = [video EXCEPT ![c] = found]
            /\ Goto(c, IF found # {} THEN "filter video" ELSE "region")
      BY <1>5, <2>1 DEF QueryVideo
    <3>2. QED
      BY <1>5, <3>1, QueriedType DEF QueryVideo
  <2>2. CASE ~(Recommends /\ req[c].wifi)
    BY <1>5, <2>2 DEF QueryVideo
  <2>3. QED
    BY <2>1, <2>2
<1>6. ASSUME NEW c \in Clients, FilterVideo(c) PROVE TypeOK'
  <2>1. CASE IgnoredFailure(c) /\ UNCHANGED video
    BY <1>6, <2>1, IgnoredFailureType DEF FilterVideo
  <2>2. CASE ~(IgnoredFailure(c) /\ UNCHANGED video)
    <3>1. PICK left \in Filtered(c, video[c]) : video' = [video EXCEPT ![c] = left]
      BY <1>6, <2>2 DEF FilterVideo
    <3>2. UNCHANGED was
      BY <1>6, <2>2 DEF FilterVideo
    <3>3. QED
      BY <1>6, <3>1, <3>2 DEF FilterVideo, Filtered
  <2>3. QED
    BY <2>1, <2>2
<1>7. ASSUME NEW c \in Clients, QueryCity(c) PROVE TypeOK'
  <2>1. CASE Recommends /\ req[c].zone # "none"
    <3>1. PICK found \in SUBSET (City \cup Province) :
            /\ Queried(c, City, found)
            /\ region' = [region EXCEPT ![c] = found]
            /\ Goto(c, IF found # {} THEN "filter region"
                       ELSE IF req[c].zone = "city" THEN "history" ELSE "province")
      BY <1>7, <2>1 DEF QueryCity
    <3>2. found \in (SUBSET City) \cup (SUBSET Province)
      BY <3>1, QueriedType
    <3>3. QED
      BY <1>7, <3>1, <3>2, QueriedType DEF QueryCity
  <2>2. CASE ~(Recommends /\ req[c].zone # "none")
    BY <1>7, <2>2 DEF QueryCity
  <2>3. QED
    BY <2>1, <2>2
<1>8. ASSUME NEW c \in Clients, QueryProvince(c) PROVE TypeOK'
  <2>1. PICK found \in SUBSET Province :
          /\ Queried(c, Province, found)
          /\ region' = [region EXCEPT ![c] = found]
          /\ Goto(c, IF found # {} THEN "filter region" ELSE "history")
    BY <1>8 DEF QueryProvince
  <2>2. QED
    BY <1>8, <2>1, QueriedType DEF QueryProvince
<1>9. ASSUME NEW c \in Clients, FilterRegion(c) PROVE TypeOK'
  <2>1. CASE IgnoredFailure(c) /\ UNCHANGED region
    BY <1>9, <2>1, IgnoredFailureType DEF FilterRegion
  <2>2. CASE ~(IgnoredFailure(c) /\ UNCHANGED region)
    <3>1. PICK left \in Filtered(c, region[c]) : region' = [region EXCEPT ![c] = left]
      BY <1>9, <2>2 DEF FilterRegion
    <3>2. UNCHANGED was
      BY <1>9, <2>2 DEF FilterRegion
    <3>3. left \in (SUBSET City) \cup (SUBSET Province)
      BY <3>1 DEF Filtered
    <3>4. QED
      BY <1>9, <3>1, <3>2, <3>3 DEF FilterRegion
  <2>3. QED
    BY <2>1, <2>2
<1>10. ASSUME NEW c \in Clients, QueryHistory(c) PROVE TypeOK'
  <2>1. req[c].user \in Users
    BY <1>10 DEF QueryHistory, Asking, Requests
  <2> DEFINE res == [result[c] EXCEPT !.history = clicked[req[c].user]]
  <2>2. res \in [items : SUBSET Items, history : SUBSET Items]
    <3>1. result[c] \in [items : SUBSET Items, history : SUBSET Items]
      OBVIOUS
    <3>2. clicked[req[c].user] \in SUBSET Items
      BY <2>1
    <3>3. QED
      BY <3>1, <3>2, ResultType
  <2>3. result' = [result EXCEPT ![c] = res]
    BY <1>10 DEF QueryHistory
  <2> HIDE DEF res
  <2>4. result' \in [Clients -> [items : SUBSET Items, history : SUBSET Items]]
    BY <2>2, <2>3
  <2>5. QED
    BY <1>10, <2>4 DEF QueryHistory
<1>11. ASSUME NEW c \in Clients, Select(c) PROVE TypeOK'
  <2>1. PICK s \in Selection(c) : result' = [result EXCEPT ![c].items = s]
    BY <1>11 DEF Select
  <2>2. s \subseteq Items
    BY SelectionType DEF Items
  <2> DEFINE res == [result[c] EXCEPT !.items = s]
  <2>3. res \in [items : SUBSET Items, history : SUBSET Items]
    <3>1. result[c] \in [items : SUBSET Items, history : SUBSET Items]
      OBVIOUS
    <3>2. QED
      BY <2>2, <3>1, ResultType
  <2>4. result' = [result EXCEPT ![c] = res]
    BY <2>1
  <2> HIDE DEF res
  <2>5. result' \in [Clients -> [items : SUBSET Items, history : SUBSET Items]]
    BY <2>3, <2>4
  <2>6. QED
    BY <1>11, <2>5 DEF Select
<1>12. ASSUME NEW c \in Clients, Reply(c) PROVE TypeOK'
  <2>1. /\ NoResult \in [items : SUBSET Items, history : SUBSET Items]
        /\ Nothing \in [cities : SUBSET City, recommended : SUBSET Items, failed : BOOLEAN]
    BY DEF NoResult, Nothing
  <2>2. /\ result' \in [Clients -> [items : SUBSET Items, history : SUBSET Items]]
        /\ was' \in [Clients -> [cities : SUBSET City, recommended : SUBSET Items, failed : BOOLEAN]]
    BY <1>12, <2>1 DEF Reply
  <2>3. QED
    BY <1>12, <2>2 DEF Reply
<1>13. ASSUME NEW i \in Items, AddItem(i) PROVE TypeOK'
  BY <1>13, UpdateType DEF AddItem
<1>14. ASSUME NEW u \in Users, NEW i \in Items, UpdateFeedback(u, i) PROVE TypeOK'
  <2>1. i \in Items /\ recommended[u] \subseteq Items
    OBVIOUS
  <2>2. QED
    BY <1>14, <2>1, UpdateType DEF UpdateFeedback
<1>15. ASSUME NEW u \in Users, NEW i \in Items, UpdateAction(u, i) PROVE TypeOK'
  <2>1. i \in Items /\ clicked[u] \subseteq Items
    OBVIOUS
  <2>2. QED
    BY <1>15, <2>1, UpdateType DEF UpdateAction
<1>16. CASE UNCHANGED vars
  BY <1>16 DEF vars
<1>17. QED
  BY <1>1, <1>2, <1>3, <1>4, <1>5, <1>6, <1>7, <1>8, <1>9, <1>10, <1>11, <1>12,
     <1>13, <1>14, <1>15, <1>16 DEF Next, Query

(***************************************************************************)
(* The lists of a query hold items of their kind and the tables only items *)
(* that exist, whatever the tables return and fail to return.              *)
(***************************************************************************)
THEOREM TypeCorrect == Spec => []TypeOK
<1>1. Spec => [](TypeOK /\ Asking)
  BY TypeInit, AskingNext, TypeNext, PTL DEF Spec
<1>2. QED
  BY <1>1, PTL

-----------------------------------------------------------------------------
(***************************************************************************)
(* An item is of one type, kNormalItem, kVideoItem or kRegionItem, and a   *)
(* regional item of one region; the table is asked for one type at a time. *)
(***************************************************************************)
KindsAreDisjoint ==
  /\ Normal \cap (Video \cup City \cup Province) = {}
  /\ Video \cap (City \cup Province) = {}
  /\ City \cap Province = {}

(***************************************************************************)
(* What a query knows while it goes through the tables.  The tables only   *)
(* grow, so that a filter removes at least what was recommended when the query    *)
(* began, however late it is called.                                       *)
(***************************************************************************)
Began(c) == pc[c] # "idle" => /\ was[c].recommended \subseteq recommended[req[c].user]
                              /\ was[c].cities \subseteq present

NormalUnseen(c) ==
  pc[c] \in {"video", "filter video", "region", "province", "filter region",
             "history", "select", "done"} => normal[c] \cap was[c].recommended = {}

VideoUnseen(c) ==
  /\ pc[c] \in {"idle", "normal", "filter", "video"} => video[c] = {}
  /\ pc[c] \in {"region", "province", "filter region", "history", "select", "done"} =>
       video[c] \cap was[c].recommended = {} \/ was[c].failed = TRUE

RegionUnseen(c) ==
  /\ pc[c] \in {"idle", "normal", "filter", "video", "filter video", "region",
                "province"} => region[c] = {}
  /\ pc[c] \in {"history", "select", "done"} =>
       region[c] \cap was[c].recommended = {} \/ was[c].failed = TRUE

Substitute(c) ==
  pc[c] = "province" \/ region[c] \cap Province # {} =>
    was[c].cities = {} \/ was[c].failed = TRUE

FromLists(c) ==
  pc[c] = "done" => result[c].items \subseteq normal[c] \cup video[c] \cup region[c]

QueryInv(c) ==
  /\ Began(c) /\ NormalUnseen(c) /\ VideoUnseen(c) /\ RegionUnseen(c)
  /\ Substitute(c) /\ FromLists(c)

Parts(c) == <<pc[c], req[c], normal[c], video[c], region[c], result[c], was[c]>>

\* Adding items and feedback leaves a query's knowledge valid.
LEMMA QueryInvStable ==
  ASSUME TypeOK, Asking, NEW c \in Clients, QueryInv(c), UNCHANGED Parts(c),
         present \subseteq present', \A u \in Users : recommended[u] \subseteq recommended'[u]
  PROVE  QueryInv(c)'
<1>1. pc[c] # "idle" => req[c].user \in Users
  BY DEF Asking, Requests
<1>2. Began(c)'
  BY <1>1 DEF QueryInv, Began, Parts
<1>3. QED
  BY <1>2 DEF QueryInv, NormalUnseen, VideoUnseen, RegionUnseen, Substitute,
     FromLists, Parts

\* A query changes nothing of another query's, and no table.
LEMMA OthersUntouched ==
  ASSUME TypeOK, NEW c \in Clients, NEW d \in Clients \ {c}, Query(d)
  PROVE  UNCHANGED Parts(c) /\ UNCHANGED tables
<1> USE DEF Goto, TypeOK, tables, sets, Parts
<1>1. CASE QueryCandidateSet(d)
  BY <1>1 DEF QueryCandidateSet
<1>2. CASE QueryNormal(d) \/ FilterNormal(d) \/ Fails(d) \/ QueryHistory(d) \/ Select(d)
  BY <1>2 DEF QueryNormal, FilterNormal, Fails, QueryHistory, Select
<1>3. CASE QueryVideo(d) \/ FilterVideo(d)
  BY <1>3 DEF QueryVideo, FilterVideo, Queried, IgnoredFailure
<1>4. CASE QueryCity(d) \/ QueryProvince(d) \/ FilterRegion(d)
  BY <1>4 DEF QueryCity, QueryProvince, FilterRegion, Queried, IgnoredFailure
<1>5. CASE Reply(d)
  BY <1>5 DEF Reply
<1>6. QED
  BY <1>1, <1>2, <1>3, <1>4, <1>5 DEF Query

-----------------------------------------------------------------------------
\* What a query to the item table leaves in was.
LEMMA QueriedKeeps ==
  ASSUME TypeOK, NEW c \in Clients, NEW kind, NEW found, Queried(c, kind, found)
  PROVE  /\ was'[c].recommended = was[c].recommended /\ was'[c].cities = was[c].cities
         /\ \/ found = kind \cap present /\ was'[c].failed = was[c].failed
            \/ found = {} /\ was'[c].failed = TRUE
  BY IgnoredFailureType DEF Queried

LEMMA QueryStep ==
  ASSUME KindsAreDisjoint, TypeOK, Asking, NEW c \in Clients, QueryInv(c), Query(c)
  PROVE  QueryInv(c)'
<1> USE DEF Goto, tables, sets, TypeOK
<1> DEFINE Goal == QueryInv(c)'
<1>1. ASSUME QueryCandidateSet(c) PROVE Goal
  <2>1. PICK r \in Requests :
          /\ req' = [req EXCEPT ![c] = r]
          /\ was' = [was EXCEPT ![c] = [cities |-> present \cap City,
                                        recommended |-> recommended[r.user],
                                        failed |-> FALSE]]
    BY <1>1 DEF QueryCandidateSet
  <2>2. /\ req'[c] = r /\ was'[c].recommended = recommended[r.user] /\ was'[c].cities = present \cap City
        /\ pc'[c] = "normal" /\ UNCHANGED <<normal, video, region, present, recommended>>
    BY <1>1, <2>1 DEF QueryCandidateSet
  <2>3. pc[c] = "idle"
    BY <1>1 DEF QueryCandidateSet
  <2>4. QED
    BY <2>2, <2>3 DEF QueryInv, Began, NormalUnseen, VideoUnseen, RegionUnseen, Substitute,
       FromLists
<1>2. ASSUME QueryNormal(c) PROVE Goal
  BY <1>2 DEF QueryNormal, QueryInv, Began, NormalUnseen, VideoUnseen, RegionUnseen,
     Substitute, FromLists
<1>3. ASSUME FilterNormal(c) PROVE Goal
  <2>1. PICK left \in Filtered(c, normal[c]) : normal' = [normal EXCEPT ![c] = left]
    BY <1>3 DEF FilterNormal
  <2>2. normal'[c] \cap recommended[req[c].user] = {}
    BY <2>1 DEF Filtered
  <2>3. QED
    BY <1>3, <2>1, <2>2 DEF FilterNormal, QueryInv, Began, NormalUnseen, VideoUnseen,
       RegionUnseen, Substitute, FromLists
<1>4. ASSUME Fails(c) PROVE Goal
  BY <1>4 DEF Fails, QueryInv, Began, NormalUnseen, VideoUnseen, RegionUnseen,
     Substitute, FromLists
<1>5. ASSUME QueryVideo(c) PROVE Goal
  <2>1. CASE Recommends /\ req[c].wifi
    <3>1. PICK found \in SUBSET Video :
            /\ Queried(c, Video, found)
            /\ video' = [video EXCEPT ![c] = found]
            /\ Goto(c, IF found # {} THEN "filter video" ELSE "region")
      BY <1>5, <2>1 DEF QueryVideo
    <3>2. was'[c].recommended = was[c].recommended /\ was'[c].cities = was[c].cities
          /\ (was[c].failed = TRUE => was'[c].failed = TRUE)
      BY <3>1, QueriedKeeps
    <3>3. QED
      BY <1>5, <3>1, <3>2 DEF QueryVideo, QueryInv, Began, NormalUnseen, VideoUnseen,
         RegionUnseen, Substitute, FromLists
  <2>2. CASE ~(Recommends /\ req[c].wifi)
    BY <1>5, <2>2 DEF QueryVideo, QueryInv, Began, NormalUnseen, VideoUnseen,
       RegionUnseen, Substitute, FromLists
  <2>3. QED
    BY <2>1, <2>2
<1>6. ASSUME FilterVideo(c) PROVE Goal
  <2>1. CASE UNCHANGED was /\ \E left \in Filtered(c, video[c]) : video' = [video EXCEPT ![c] = left]
    <3>1. PICK left \in Filtered(c, video[c]) : video' = [video EXCEPT ![c] = left]
      BY <2>1
    <3>2. video'[c] \cap recommended[req[c].user] = {}
      BY <3>1 DEF Filtered
    <3>3. QED
      BY <1>6, <2>1, <3>1, <3>2 DEF FilterVideo, QueryInv, Began, NormalUnseen, VideoUnseen,
         RegionUnseen, Substitute, FromLists
  <2>2. CASE IgnoredFailure(c) /\ UNCHANGED video
    BY <1>6, <2>2, IgnoredFailureType DEF FilterVideo, QueryInv, Began, NormalUnseen,
       VideoUnseen, RegionUnseen, Substitute, FromLists
  <2>3. QED
    BY <1>6, <2>1, <2>2 DEF FilterVideo
<1>7. ASSUME QueryCity(c) PROVE Goal
  <2>1. CASE Recommends /\ req[c].zone # "none"
    <3>1. PICK found \in SUBSET (City \cup Province) :
            /\ Queried(c, City, found)
            /\ region' = [region EXCEPT ![c] = found]
            /\ Goto(c, IF found # {} THEN "filter region"
                       ELSE IF req[c].zone = "city" THEN "history" ELSE "province")
      BY <1>7, <2>1 DEF QueryCity
    <3>2. was'[c].recommended = was[c].recommended /\ was'[c].cities = was[c].cities
          /\ (was[c].failed = TRUE => was'[c].failed = TRUE)
      BY <3>1, QueriedKeeps
    <3>3. Substitute(c)'
      <4>1. was[c].cities \subseteq present \cap City
        BY <1>7 DEF QueryCity, QueryInv, Began
      <4>2. found \cap Province = {} /\ (found = {} => was'[c].cities = {} \/ was'[c].failed = TRUE)
        <5>1. \/ found = City \cap present /\ was'[c].failed = was[c].failed
              \/ found = {} /\ was'[c].failed = TRUE
          BY <3>1, QueriedKeeps
        <5>2. found \cap Province = {}
          BY <5>1 DEF KindsAreDisjoint
        <5>3. found = City \cap present /\ found = {} => was'[c].cities = {}
          BY <3>2, <4>1
        <5>4. QED
          BY <5>1, <5>2, <5>3
      <4>3. region'[c] = found /\ (pc'[c] = "province" => found = {})
        BY <1>7, <3>1 DEF QueryCity
      <4>4. QED
        BY <4>2, <4>3 DEF Substitute
    <3>4. QED
      <4>1. /\ pc[c] = "region" /\ region[c] = {} /\ region'[c] = found
            /\ pc'[c] \in {"filter region", "history", "province"}
            /\ pc'[c] # "filter region" => found = {}
            /\ UNCHANGED <<present, recommended, req, normal, video, result>>
        BY <1>7, <3>1 DEF QueryCity, QueryInv, RegionUnseen
      <4>2. Began(c)' /\ NormalUnseen(c)' /\ VideoUnseen(c)'
        BY <3>2, <4>1 DEF QueryInv, Began, NormalUnseen, VideoUnseen
      <4>3. RegionUnseen(c)' /\ FromLists(c)'
        BY <4>1 DEF RegionUnseen, FromLists
      <4>4. QED
        BY <3>3, <4>2, <4>3 DEF QueryInv
  <2>2. CASE ~(Recommends /\ req[c].zone # "none")
    BY <1>7, <2>2 DEF QueryCity, QueryInv, Began, NormalUnseen, VideoUnseen,
       RegionUnseen, Substitute, FromLists
  <2>3. QED
    BY <2>1, <2>2
<1>8. ASSUME QueryProvince(c) PROVE Goal
  <2>1. PICK found \in SUBSET Province :
          /\ Queried(c, Province, found)
          /\ region' = [region EXCEPT ![c] = found]
          /\ Goto(c, IF found # {} THEN "filter region" ELSE "history")
    BY <1>8 DEF QueryProvince
  <2>2. was'[c].recommended = was[c].recommended /\ was'[c].cities = was[c].cities
        /\ (was[c].failed = TRUE => was'[c].failed = TRUE)
    BY <2>1, QueriedKeeps
  <2>3. QED
    BY <1>8, <2>1, <2>2 DEF QueryProvince, QueryInv, Began, NormalUnseen, VideoUnseen,
       RegionUnseen, Substitute, FromLists
<1>9. ASSUME FilterRegion(c) PROVE Goal
  <2>1. CASE UNCHANGED was /\ \E left \in Filtered(c, region[c]) : region' = [region EXCEPT ![c] = left]
    <3>1. PICK left \in Filtered(c, region[c]) : region' = [region EXCEPT ![c] = left]
      BY <2>1
    <3>2. /\ region'[c] \subseteq region[c]
          /\ region'[c] \cap recommended[req[c].user] = {}
      BY <3>1 DEF Filtered
    <3>3. QED
      BY <1>9, <2>1, <3>1, <3>2 DEF FilterRegion, QueryInv, Began, NormalUnseen, VideoUnseen,
         RegionUnseen, Substitute, FromLists
  <2>2. CASE IgnoredFailure(c) /\ UNCHANGED region
    BY <1>9, <2>2, IgnoredFailureType DEF FilterRegion, QueryInv, Began, NormalUnseen,
       VideoUnseen, RegionUnseen, Substitute, FromLists
  <2>3. QED
    BY <1>9, <2>1, <2>2 DEF FilterRegion
<1>10. ASSUME QueryHistory(c) PROVE Goal
  <2>1. result'[c].items = result[c].items
    BY <1>10 DEF QueryHistory
  <2>2. QED
    BY <1>10, <2>1 DEF QueryHistory, QueryInv, Began, NormalUnseen, VideoUnseen,
       RegionUnseen, Substitute, FromLists
<1>11. ASSUME Select(c) PROVE Goal
  <2>1. PICK s \in Selection(c) : result' = [result EXCEPT ![c].items = s]
    BY <1>11 DEF Select
  <2>2. result'[c].items = s
    BY <2>1
  <2>3. QED
    BY <1>11, <2>2, SelectionType DEF Select, QueryInv, Began, NormalUnseen, VideoUnseen,
       RegionUnseen, Substitute, FromLists
<1>12. ASSUME Reply(c) PROVE Goal
  BY <1>12 DEF Reply, QueryInv, Began, NormalUnseen, VideoUnseen, RegionUnseen,
     Substitute, FromLists
<1>13. QED
  BY <1>1, <1>2, <1>3, <1>4, <1>5, <1>6, <1>7, <1>8, <1>9, <1>10, <1>11, <1>12 DEF Query

LEMMA QueryInvInductive ==
  ASSUME KindsAreDisjoint, TypeOK, Asking, \A c \in Clients : QueryInv(c), [Next]_vars
  PROVE  \A c \in Clients : QueryInv(c)'
<1> SUFFICES ASSUME NEW c \in Clients PROVE QueryInv(c)'
  OBVIOUS
<1>1. QueryInv(c)
  OBVIOUS
<1>2. CASE Query(c)
  BY <1>1, <1>2, QueryStep
<1>3. ASSUME NEW d \in Clients \ {c}, Query(d) PROVE QueryInv(c)'
  BY <1>1, <1>3, OthersUntouched, QueryInvStable DEF tables
<1>4. ASSUME NEW i \in Items, AddItem(i) PROVE QueryInv(c)'
  <2>1. UNCHANGED Parts(c) /\ present \subseteq present' /\ UNCHANGED recommended
    BY <1>4 DEF AddItem, Parts, sets
  <2>2. QED
    BY <1>1, <2>1, QueryInvStable
<1>5. ASSUME NEW u \in Users, NEW i \in Items, UpdateFeedback(u, i) PROVE QueryInv(c)'
  <2>1. UNCHANGED Parts(c) /\ UNCHANGED present
    BY <1>5 DEF UpdateFeedback, Parts, sets
  <2>2. \A v \in Users : recommended[v] \subseteq recommended'[v]
    BY <1>5 DEF UpdateFeedback, TypeOK
  <2>3. QED
    BY <1>1, <2>1, <2>2, QueryInvStable
<1>6. ASSUME NEW u \in Users, NEW i \in Items, UpdateAction(u, i) PROVE QueryInv(c)'
  <2>1. UNCHANGED Parts(c) /\ UNCHANGED <<present, recommended>>
    BY <1>6 DEF UpdateAction, Parts, sets
  <2>2. QED
    BY <1>1, <2>1, QueryInvStable
<1>7. CASE UNCHANGED vars
  BY <1>1, <1>7, QueryInvStable DEF vars, tables, sets, Parts
<1>8. QED
  BY <1>2, <1>3, <1>4, <1>5, <1>6, <1>7 DEF Next

LEMMA QueryInvInit ==
  ASSUME Init, NEW c \in Clients
  PROVE  QueryInv(c)
  BY DEF Init, QueryInv, Began, NormalUnseen, VideoUnseen, RegionUnseen, Substitute,
     FromLists

QueriesInv == \A c \in Clients : QueryInv(c)

LEMMA QueriesInvariant ==
  ASSUME KindsAreDisjoint
  PROVE  Spec => [](TypeOK /\ QueriesInv)
<1>1. Init => TypeOK /\ Asking /\ QueriesInv
  BY TypeInit, QueryInvInit DEF QueriesInv
<1>2. TypeOK /\ Asking /\ QueriesInv /\ [Next]_vars => TypeOK' /\ Asking' /\ QueriesInv'
  BY TypeNext, AskingNext, QueryInvInductive DEF QueriesInv
<1>3. QED
  BY <1>1, <1>2, PTL DEF Spec

(***************************************************************************)
(* Whatever is added, fed back or clicked while a query goes through the   *)
(* tables, a user is not offered again what was recommended to it before,  *)
(* unless a call whose result queryRecommendationCandidateSet ignores has  *)
(* failed, and then no normal item.                                        *)
(***************************************************************************)
THEOREM RecommendedIsNotOffered ==
  ASSUME KindsAreDisjoint
  PROVE  Spec => []NothingRecommendedAgain
<1>1. TypeOK /\ QueriesInv => NothingRecommendedAgain
  <2> SUFFICES ASSUME TypeOK, NEW c \in Clients, QueryInv(c), pc[c] = "done"
               PROVE  Returned(c) \cap was[c].recommended \subseteq
                        (IF was[c].failed THEN Items \ Normal ELSE {})
    <3>1. \A c \in Clients : pc[c] # "done" => Returned(c) = {}
      BY DEF Returned
    <3>2. QED
      BY <3>1 DEF NothingRecommendedAgain, QueriesInv
  <2>1. /\ Returned(c) \subseteq normal[c] \cup video[c] \cup region[c]
        /\ normal[c] \cap was[c].recommended = {}
        /\ video[c] \cap was[c].recommended = {} \/ was[c].failed = TRUE
        /\ region[c] \cap was[c].recommended = {} \/ was[c].failed = TRUE
    BY DEF QueryInv, NormalUnseen, VideoUnseen, RegionUnseen, FromLists, Returned
  <2>2. video[c] \cup region[c] \subseteq Items \ Normal
    BY DEF TypeOK, KindsAreDisjoint, Items
  <2>3. CASE was[c].failed = TRUE
    BY <2>1, <2>2, <2>3
  <2>4. CASE was[c].failed # TRUE
    <3>1. was[c].failed = FALSE
      BY <2>4 DEF TypeOK
    <3>2. Returned(c) \cap was[c].recommended = {}
      BY <2>1, <2>4
    <3>3. QED
      BY <2>1, <3>1, <3>2
  <2>5. QED
    BY <2>3, <2>4
<1>2. QED
  BY <1>1, QueriesInvariant, PTL

(***************************************************************************)
(* Items of the province are only ever returned to a user whose city had   *)
(* no items when the query began, or could not be listed.                  *)
(***************************************************************************)
THEOREM ProvinceOnlySubstitutes ==
  ASSUME KindsAreDisjoint
  PROVE  Spec => []ProvinceIsSubstitute
<1>1. TypeOK /\ QueriesInv => ProvinceIsSubstitute
  <2> SUFFICES ASSUME TypeOK, NEW c \in Clients, QueryInv(c), Returned(c) \cap Province # {}
               PROVE  was[c].cities = {} \/ was[c].failed
    BY DEF ProvinceIsSubstitute, QueriesInv
  <2>1. Returned(c) \subseteq normal[c] \cup video[c] \cup region[c]
    BY DEF QueryInv, FromLists, Returned
  <2>2. (normal[c] \cup video[c]) \cap Province = {}
    BY DEF TypeOK, KindsAreDisjoint
  <2>3. region[c] \cap Province # {}
    BY <2>1, <2>2
  <2>4. QED
    BY <2>3 DEF QueryInv, Substitute
<1>2. QED
  BY <1>1, QueriesInvariant, PTL

-----------------------------------------------------------------------------
(***************************************************************************)
(* The two smaller limits of ModelOptions fit into the large one, as those *)
(* of conf/candb.conf do.  Otherwise the int total of the normal items can *)
(* be negative, and as a size_t larger than any list.                      *)
(***************************************************************************)
LimitsFit == MaxVideo + MaxRegion <= MaxSet

LEMMA FirstOfBounded ==
  ASSUME NEW set, IsFiniteSet(set), NEW n \in Nat, NEW s \in FirstOf(set, n)
  PROVE  s \subseteq set /\ IsFiniteSet(s) /\ Cardinality(s) <= n
<1>1. s \subseteq set /\ Cardinality(s) = Lesser(n, Cardinality(set))
  BY DEF FirstOf
<1>2. IsFiniteSet(s) /\ Cardinality(set) \in Nat
  BY <1>1, FS_Subset, FS_CardinalityType
<1>3. QED
  BY <1>1, <1>2 DEF Lesser

LEMMA LimitedBounded ==
  ASSUME NEW set, IsFiniteSet(set), NEW num \in Int, NEW max \in Nat
  PROVE  Limited(set, num, max) \in 0 .. max
<1>1. Cardinality(set) \in Nat
  BY FS_CardinalityType
<1>2. QED
  BY <1>1 DEF Limited, Lesser, Requested

LEMMA ItemsAreFinite ==
  /\ IsFiniteSet(Items) /\ IsFiniteSet(Normal) /\ IsFiniteSet(Video)
  /\ IsFiniteSet(City) /\ IsFiniteSet(Province)
  BY CandidateSetAssumption, FS_Subset DEF CandidateSetAssumption, Items

LEMMA SizeTBounded ==
  ASSUME NEW n \in Nat
  PROVE  SizeT(n) \in 0 .. n
<1>1. SizeMod \in Nat /\ SizeMod > 0
  <2>1. Cardinality(Items) \in Nat
    BY ItemsAreFinite, FS_CardinalityType
  <2>2. MaxVideo \in Nat /\ MaxRegion \in Nat /\ SizeMod \in Nat
        /\ SizeMod > 2 * (Cardinality(Items) + MaxVideo + MaxRegion)
    BY CandidateSetAssumption DEF CandidateSetAssumption
  <2>3. QED
    BY <2>1, <2>2
<1>2. QED
  BY <1>1 DEF SizeT

\* Here the comparison of an int with a size_t does no harm.
LEMMA TotalNormalBounded ==
  ASSUME NEW set, IsFiniteSet(set), NEW num \in Int, NEW others \in 0 .. MaxSet
  PROVE  TotalNormal(set, num, others) \in 0 .. MaxSet - others
<1>1. MaxSet \in Nat /\ Cardinality(set) \in Nat
  BY CandidateSetAssumption, FS_CardinalityType DEF CandidateSetAssumption
<1> DEFINE total == Requested(MaxSet - others, num)
<1>2. total \in 0 .. MaxSet - others
  BY <1>1 DEF Requested
<1> HIDE DEF total
<1>3. SizeT(total) \in 0 .. total
  BY <1>1, <1>2, SizeTBounded
<1>4. TotalNormal(set, num, others) =
        IF Cardinality(set) < SizeT(total) THEN Cardinality(set) ELSE total
  BY DEF TotalNormal, total
<1>5. QED
  BY <1>1, <1>2, <1>3, <1>4

LimitsOf(c) ==
  /\ Cardinality(Returned(c)) <= MaxSet
  /\ Cardinality(Returned(c) \cap Video) <= MaxVideo
  /\ Cardinality(Returned(c) \cap (City \cup Province)) <= MaxRegion

LEMMA NothingIsWithinLimits ==
  ASSUME NEW c \in Clients, Returned(c) = {}
  PROVE  LimitsOf(c)
  BY CandidateSetAssumption, FS_EmptySet DEF LimitsOf, CandidateSetAssumption

LEMMA UnionBounded ==
  ASSUME NEW S, IsFiniteSet(S), NEW T, IsFiniteSet(T)
  PROVE  IsFiniteSet(S \cup T) /\ Cardinality(S \cup T) <= Cardinality(S) + Cardinality(T)
<1>1. /\ IsFiniteSet(S \cup T) /\ IsFiniteSet(S \cap T)
      /\ Cardinality(S \cup T) = Cardinality(S) + Cardinality(T) - Cardinality(S \cap T)
  BY FS_Union, FS_Intersection
<1>2. Cardinality(S) \in Nat /\ Cardinality(T) \in Nat /\ Cardinality(S \cap T) \in Nat
  BY <1>1, FS_CardinalityType
<1>3. QED
  BY <1>1, <1>2

\* What the loops copy stays within the limits of each kind, and the normal
\* items take what the others leave of max_candidate_set_size.
LEMMA SelectionBounded ==
  ASSUME KindsAreDisjoint, LimitsFit, TypeOK, NEW c \in Clients, req[c] \in Requests,
         NEW s \in Selection(c)
  PROVE  /\ Cardinality(s) <= MaxSet
         /\ Cardinality(s \cap Video) <= MaxVideo
         /\ Cardinality(s \cap (City \cup Province)) <= MaxRegion
<1>1. MaxSet \in Nat /\ MaxVideo \in Nat /\ MaxRegion \in Nat /\ req[c].num \in Int
  BY CandidateSetAssumption DEF CandidateSetAssumption, Requests
<1>2. /\ normal[c] \subseteq Normal /\ IsFiniteSet(normal[c])
      /\ video[c] \subseteq Video /\ IsFiniteSet(video[c])
      /\ region[c] \subseteq City \cup Province /\ IsFiniteSet(region[c])
  <2>1. normal[c] \subseteq Normal /\ video[c] \subseteq Video
    BY DEF TypeOK
  <2>2. region[c] \subseteq City \/ region[c] \subseteq Province
    BY DEF TypeOK
  <2>3. QED
    BY <2>1, <2>2, ItemsAreFinite, FS_Subset
<1> DEFINE num == req[c].num
           nv == Limited(video[c], num, MaxVideo)
           nr == Limited(region[c], num, MaxRegion)
<1>3. CASE Recommends
  <2>1. PICK v \in FirstOf(video[c], nv), r \in FirstOf(region[c], nr),
             n \in FirstOf(normal[c], TotalNormal(normal[c], num, nv + nr)) :
          s = v \cup r \cup n
    BY <1>3 DEF Selection
  <2>2. nv \in 0 .. MaxVideo /\ nr \in 0 .. MaxRegion
    BY <1>1, <1>2, LimitedBounded
  <2> HIDE DEF nv, nr
  <2>3. nv + nr \in 0 .. MaxSet
    BY <1>1, <2>2 DEF LimitsFit
  <2>4. TotalNormal(normal[c], num, nv + nr) \in 0 .. MaxSet - (nv + nr)
    BY <1>1, <1>2, <2>3, TotalNormalBounded
  <2> DEFINE nn == TotalNormal(normal[c], num, nv + nr)
  <2> HIDE DEF nn
  <2>5. /\ v \subseteq Video /\ IsFiniteSet(v) /\ Cardinality(v) <= nv
        /\ r \subseteq City \cup Province /\ IsFiniteSet(r) /\ Cardinality(r) <= nr
        /\ n \subseteq Normal /\ IsFiniteSet(n) /\ Cardinality(n) <= nn
    <3>1. nv \in Nat /\ nr \in Nat
      BY <2>2
    <3>2. nn \in Nat
      BY <1>1, <2>3, <2>4 DEF nn
    <3>3. n \in FirstOf(normal[c], nn)
      BY DEF nn
    <3>4. v \subseteq video[c] /\ IsFiniteSet(v) /\ Cardinality(v) <= nv
      BY <1>2, <3>1, FirstOfBounded
    <3>5. r \subseteq region[c] /\ IsFiniteSet(r) /\ Cardinality(r) <= nr
      BY <1>2, <3>1, FirstOfBounded
    <3>6. n \subseteq normal[c] /\ IsFiniteSet(n) /\ Cardinality(n) <= nn
      BY <1>2, <3>2, <3>3, FirstOfBounded
    <3>7. QED
      BY <1>2, <3>4, <3>5, <3>6
  <2>6. /\ Cardinality(v) \in Nat /\ Cardinality(r) \in Nat /\ Cardinality(n) \in Nat
        /\ IsFiniteSet(v \cup r) /\ Cardinality(v \cup r) <= Cardinality(v) + Cardinality(r)
    BY <2>5, UnionBounded, FS_CardinalityType
  <2>7. /\ Cardinality(v \cup r) \in Nat /\ Cardinality(s) \in Nat
        /\ Cardinality(s) <= Cardinality(v \cup r) + Cardinality(n)
    BY <2>1, <2>5, <2>6, UnionBounded, FS_CardinalityType
  <2>8. Cardinality(s) <= MaxSet
    <3>1. nn \in 0 .. MaxSet - (nv + nr)
      BY <2>4 DEF nn
    <3>2. QED
      BY <1>1, <2>2, <2>5, <2>6, <2>7, <3>1
  <2>9. s \cap Video = v
    BY <2>1, <2>5 DEF KindsAreDisjoint
  <2>10. s \cap (City \cup Province) = r
    BY <2>1, <2>5 DEF KindsAreDisjoint
  <2>11. Cardinality(v) <= MaxVideo /\ Cardinality(r) <= MaxRegion
    BY <1>1, <2>2, <2>5, <2>6
  <2>12. QED
    BY <2>8, <2>9, <2>10, <2>11
<1>4. CASE ~Recommends
  <2> DEFINE subscribed == normal[c] \cap Subscribed
             n == Limited(normal[c], num, MaxSet)
  <2>1. s \in FirstOf(subscribed, n)
    BY <1>4 DEF Selection
  <2>2. IsFiniteSet(subscribed) /\ subscribed \subseteq Normal
    BY <1>2, FS_Intersection
  <2>3. n \in 0 .. MaxSet
    BY <1>1, <1>2, LimitedBounded
  <2> HIDE DEF subscribed, n
  <2>4. n \in Nat
    BY <1>1, <2>3
  <2>5. s \subseteq subscribed /\ IsFiniteSet(s) /\ Cardinality(s) <= n
    BY <2>1, <2>2, <2>4, FirstOfBounded
  <2>6. s \cap Video = {} /\ s \cap (City \cup Province) = {}
    BY <2>2, <2>5 DEF KindsAreDisjoint
  <2>7. Cardinality(s) <= MaxSet
    BY <1>1, <2>3, <2>5, FS_CardinalityType
  <2>8. Cardinality(s \cap Video) = 0 /\ Cardinality(s \cap (City \cup Province)) = 0
    BY <2>6, FS_EmptySet
  <2>9. QED
    BY <1>1, <2>7, <2>8
<1>5. QED
  BY <1>3, <1>4

WithinLimitsInv == \A c \in Clients : LimitsOf(c)

LEMMA LimitsInductive ==
  ASSUME KindsAreDisjoint, LimitsFit, TypeOK, Asking, WithinLimitsInv, [Next]_vars
  PROVE  WithinLimitsInv'
<1> SUFFICES ASSUME NEW c \in Clients PROVE LimitsOf(c)'
  BY DEF WithinLimitsInv
<1>1. LimitsOf(c)
  BY DEF WithinLimitsInv
<1>2. ASSUME Returned(c)' = Returned(c) PROVE LimitsOf(c)'
  BY <1>1, <1>2 DEF LimitsOf
<1>3. ASSUME Returned(c)' = {} PROVE LimitsOf(c)'
  <2>1. /\ Cardinality(Returned(c)') = 0 /\ Cardinality(Returned(c)' \cap Video) = 0
        /\ Cardinality(Returned(c)' \cap (City \cup Province)) = 0
    <3>1. Returned(c)' \cap Video = {} /\ Returned(c)' \cap (City \cup Province) = {}
      BY <1>3
    <3>2. QED
      BY <1>3, <3>1, FS_EmptySet, Zenon
  <2>2. QED
    BY <2>1, CandidateSetAssumption DEF LimitsOf, CandidateSetAssumption
<1>4. CASE Select(c)
  <2>1. PICK s \in Selection(c) : result' = [result EXCEPT ![c].items = s]
    BY <1>4 DEF Select
  <2>2. result'[c].items = s
    BY <2>1 DEF TypeOK
  <2>3. pc'[c] = "done"
    BY <1>4 DEF Select, Goto, TypeOK
  <2>4. Returned(c)' = s
    BY <2>2, <2>3 DEF Returned
  <2>5. req[c] \in Requests
    BY <1>4 DEF Select, Asking
  <2>6. QED
    BY <2>4, <2>5, SelectionBounded DEF LimitsOf
<1>5. ASSUME Query(c), ~Select(c) PROVE pc'[c] # "done"
  BY <1>5 DEF Query, QueryCandidateSet, QueryNormal, FilterNormal, Fails, QueryVideo,
     FilterVideo, QueryCity, QueryProvince, FilterRegion, QueryHistory, Reply, Goto, TypeOK
<1>6. CASE Query(c) /\ ~Select(c)
  BY <1>3, <1>5, <1>6 DEF Returned
<1>7. ASSUME NEW d \in Clients \ {c}, Query(d) PROVE LimitsOf(c)'
  BY <1>2, <1>7, OthersUntouched DEF Parts, Returned
<1>8. ASSUME NEW i \in Items, AddItem(i) PROVE LimitsOf(c)'
  BY <1>2, <1>8 DEF AddItem, Returned
<1>9. ASSUME NEW u \in Users, NEW i \in Items, UpdateFeedback(u, i) PROVE LimitsOf(c)'
  BY <1>2, <1>9 DEF UpdateFeedback, Returned
<1>10. ASSUME NEW u \in Users, NEW i \in Items, UpdateAction(u, i) PROVE LimitsOf(c)'
  BY <1>2, <1>10 DEF UpdateAction, Returned
<1>11. CASE UNCHANGED vars
  BY <1>2, <1>11 DEF vars, Returned
<1>12. QED
  BY <1>4, <1>6, <1>7, <1>8, <1>9, <1>10, <1>11 DEF Next

(***************************************************************************)
(* A candidate set never exceeds max_candidate_set_size, nor its videos    *)
(* and regional items their limits, when the two smaller limits fit into   *)
(* the large one; the run set_overfull shows that the condition is needed. *)
(***************************************************************************)
THEOREM LimitsAreKept ==
  ASSUME KindsAreDisjoint, LimitsFit
  PROVE  Spec => []WithinLimits
<1>1. Init => TypeOK /\ Asking /\ WithinLimitsInv
  <2> SUFFICES ASSUME Init, NEW c \in Clients PROVE LimitsOf(c)
    BY TypeInit DEF WithinLimitsInv
  <2>1. Returned(c) = {}
    BY DEF Init, Returned
  <2>2. QED
    BY <2>1, NothingIsWithinLimits
<1>2. TypeOK /\ Asking /\ WithinLimitsInv /\ [Next]_vars =>
        TypeOK' /\ Asking' /\ WithinLimitsInv'
  BY TypeNext, AskingNext, LimitsInductive
<1>3. WithinLimitsInv => WithinLimits
  BY DEF WithinLimitsInv, WithinLimits, LimitsOf
<1>4. QED
  BY <1>1, <1>2, <1>3, PTL DEF Spec
=============================================================================
