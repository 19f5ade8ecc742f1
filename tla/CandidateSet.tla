---------------------------- MODULE CandidateSet ----------------------------
(***************************************************************************)
(* CandidateDB::queryCandidateSet (core/candidate_db.cpp): how the         *)
(* candidate set of a user is put together from the item table and the     *)
(* user table, while other threads of the gRPC server and of the framework *)
(* add items and record feedback.                                          *)
(*                                                                         *)
(* A query reads the tables one call at a time: normal items, filtered for *)
(* the user; on wifi videos, filtered; with a zone the items of the city,  *)
(* or else of the province, filtered; the user's history; and then picks   *)
(* from each list by the limits of ModelOptions and of the request.  With  *)
(* service_type # 0 only subscribed normal items are considered.           *)
(*                                                                         *)
(* UserTable and ItemTable are external (libdb): queryCandidateSet lists   *)
(* the items of a kind, filterCandidateSet removes what was recommended to *)
(* the user before (whether it also removes what the user clicked is left  *)
(* open), queryHistory lists what the user clicked, and a call is atomic.  *)
(* The order of a list is the table's, so "the first n" is some n of them. *)
(* Sizes are size_t, reduced to SizeMod.                                   *)
(***************************************************************************)
EXTENDS Integers, FiniteSets

CONSTANTS Users, Clients,
          Normal, Video, City, Province, \* items by type and region
          Subscribed,      \* normal items a user's subscription selects
          Clickable,       \* the items that users click
          MaxSet,          \* max_candidate_set_size
          MaxVideo,        \* max_candidate_video_size
          MaxRegion,       \* max_candidate_region_size
          Nums,            \* values of recommend_num in requests
          SizeMod,         \* size_t counts modulo SizeMod
          MayFail,         \* whether a table may fail
          MaxUpdates       \* bound: updates during a behaviour

Items == Normal \cup Video \cup City \cup Province

ASSUME CandidateSetAssumption ==
  /\ IsFiniteSet(Items) /\ Subscribed \subseteq Normal /\ Clickable \subseteq Items
  /\ MaxSet \in Nat /\ MaxVideo \in Nat /\ MaxRegion \in Nat
  /\ Nums \subseteq Int
  /\ SizeMod \in Nat /\ SizeMod > 2 * (Cardinality(Items) + MaxVideo + MaxRegion)
  /\ MayFail \in BOOLEAN /\ MaxUpdates \in Nat

VARIABLES service_type, \* options_.service_type, read once: 0 to recommend
          present,      \* item_table_: the items in it
          recommended,  \* user_table_: what was recommended to a user
          clicked,      \*   and what it clicked
          pc, req,      \* where a query is, and its Recommend message
          normal, video, region, \* candidate_set, candidate_video_set, ..._region_set
          result,       \* the CandidateSet returned
          was,          \* history: the cities' items and the user's history
                        \* when the query began, and whether an ignored call
                        \* failed since
          updates       \* updates made so far

tables == <<service_type, present, recommended, clicked>>
sets == <<normal, video, region>>
vars == <<tables, pc, req, sets, result, was, updates>>

Requests == [user : Users, num : Nums, wifi : BOOLEAN,
             zone : {"none", "city", "city and province"}]
NoRequest == [user |-> "none"]
NoResult == [items |-> {}, history |-> {}]
Nothing == [cities |-> {}, recommended |-> {}, failed |-> FALSE]

TypeOK ==
  /\ service_type \in {0, 1}
  /\ present \subseteq Items
  /\ recommended \in [Users -> SUBSET Items]
  /\ clicked \in [Users -> SUBSET Items]
  /\ pc \in [Clients -> {"idle", "normal", "filter", "video", "filter video", "region",
                         "province", "filter region", "history", "select", "done",
                           "failed"}]
  /\ req \in [Clients -> Requests \cup {NoRequest}]
  /\ normal \in [Clients -> SUBSET Normal]
  /\ video \in [Clients -> SUBSET Video]
  /\ region \in [Clients -> (SUBSET City) \cup (SUBSET Province)]
  /\ result \in [Clients -> [items : SUBSET Items, history : SUBSET Items]]
  /\ was \in [Clients -> [cities : SUBSET City, recommended : SUBSET Items,
                       failed : BOOLEAN]]
  /\ updates \in 0 .. MaxUpdates

\* reload may have loaded any tables.
Init ==
  /\ service_type \in {0, 1}
  /\ present \in SUBSET Items
  /\ recommended \in [Users -> SUBSET present]
  /\ clicked \in [Users -> SUBSET (present \cap Clickable)]
  /\ pc = [c \in Clients |-> "idle"]
  /\ req = [c \in Clients |-> NoRequest]
  /\ normal = [c \in Clients |-> {}]
  /\ video = [c \in Clients |-> {}]
  /\ region = [c \in Clients |-> {}]
  /\ result = [c \in Clients |-> NoResult]
  /\ was = [c \in Clients |-> Nothing]
  /\ updates = 0

Goto(c, where) == pc' = [pc EXCEPT ![c] = where]
-----------------------------------------------------------------------------
(***************************************************************************)
(* addItem, updateFeedback and updateAction, which counts clicks only.     *)
(***************************************************************************)
Update == updates < MaxUpdates /\ updates' = updates + 1

AddItem(i) ==
  /\ Update
  /\ i \in Items \ present
  /\ present' = present \cup {i}
  /\ UNCHANGED <<service_type, recommended, clicked, pc, req, sets, result, was>>

UpdateFeedback(u, i) ==
  /\ Update
  /\ i \in present \ recommended[u]
  /\ recommended' = [recommended EXCEPT ![u] = @ \cup {i}]
  /\ UNCHANGED <<service_type, present, clicked, pc, req, sets, result, was>>

UpdateAction(u, i) ==
  /\ Update
  /\ i \in (present \cap Clickable) \ clicked[u]
  /\ clicked' = [clicked EXCEPT ![u] = @ \cup {i}]
  /\ UNCHANGED <<service_type, present, recommended, pc, req, sets, result, was>>
-----------------------------------------------------------------------------
QueryCandidateSet(c) ==
  /\ pc[c] = "idle"
  /\ \E r \in Requests :
       /\ req' = [req EXCEPT ![c] = r]
       /\ was' = [was EXCEPT ![c] = [cities |-> present \cap City,
                                     recommended |-> recommended[r.user],
                                     failed |-> FALSE]]
  /\ Goto(c, "normal")
  /\ UNCHANGED <<tables, sets, result, updates>>

\* The filter is called only for a list that is not empty.
QueryNormal(c) ==
  /\ pc[c] = "normal"
  /\ normal' = [normal EXCEPT ![c] = Normal \cap present]
  /\ Goto(c, IF Normal \cap present # {} THEN "filter" ELSE "video")
  /\ UNCHANGED <<tables, req, video, region, result, was, updates>>

\* filterCandidateSet: what it may leave of a list.
Filtered(c, items) ==
  {items \ recommended[req[c].user],
   items \ (recommended[req[c].user] \cup clicked[req[c].user])}

FilterSkipped(c) ==
  /\ pc[c] \in {"filter", "filter region"}
  /\ Goto(c, IF pc[c] = "filter" THEN "video" ELSE "history")
  /\ UNCHANGED <<tables, req, sets, result, was, updates>>

FilterNormal(c) ==
  /\ pc[c] = "filter"
  /\ \E left \in Filtered(c, normal[c]) : normal' = [normal EXCEPT ![c] = left]
  /\ Goto(c, "video")
  /\ UNCHANGED <<tables, req, video, region, result, was, updates>>

\* A failure with normal items, or with the history, ends the query; "not
\* found" is no failure, it is a user who was given nothing.
Fails(c) ==
  /\ MayFail /\ pc[c] \in {"normal", "filter", "history"}
  /\ Goto(c, "failed")
  /\ UNCHANGED <<tables, req, sets, result, was, updates>>

Recommends == service_type = 0

\* The results of the calls for videos and regions are ignored: a failing one
\* leaves its list as it was.
IgnoredFailure(c) == MayFail /\ was' = [was EXCEPT ![c].failed = TRUE]

Queried(c, kind, found) ==
  \/ found = kind \cap present /\ UNCHANGED was
  \/ found = {} /\ IgnoredFailure(c)

QueryVideo(c) ==
  /\ pc[c] = "video"
  /\ IF Recommends /\ req[c].wifi
     THEN \E found \in SUBSET Video :
            /\ Queried(c, Video, found)
            /\ video' = [video EXCEPT ![c] = found]
            /\ Goto(c, IF found # {} THEN "filter video" ELSE "region")
     ELSE Goto(c, "region") /\ UNCHANGED <<video, was>>
  /\ UNCHANGED <<tables, req, normal, region, result, updates>>

FilterVideo(c) ==
  /\ pc[c] = "filter video"
  /\ \/ /\ \E left \in Filtered(c, video[c]) : video' = [video EXCEPT ![c] = left]
        /\ UNCHANGED was
     \/ IgnoredFailure(c) /\ UNCHANGED video
  /\ Goto(c, "region")
  /\ UNCHANGED <<tables, req, normal, region, result, updates>>

QueryCityKindKept(c) ==
  /\ pc[c] = "region"
  /\ region' = [region EXCEPT ![c] = (IF req[c].wifi THEN Video ELSE Normal) \cap present]
  /\ Goto(c, IF region'[c] # {} THEN "filter region" ELSE "history")
  /\ UNCHANGED <<tables, req, normal, video, result, was, updates>>

QueryCity(c) ==
  /\ pc[c] = "region"
  /\ IF Recommends /\ req[c].zone # "none"
     THEN \E found \in SUBSET (City \cup Province) :
            /\ Queried(c, City, found)
            /\ region' = [region EXCEPT ![c] = found]
            /\ Goto(c, IF found # {} THEN "filter region"
                       ELSE IF req[c].zone = "city" THEN "history" ELSE "province")
     ELSE Goto(c, "history") /\ UNCHANGED <<region, was>>
  /\ UNCHANGED <<tables, req, normal, video, result, updates>>

\* region_num > 1, the city has no items and is not its own province.
QueryProvince(c) ==
  /\ pc[c] = "province"
  /\ \E found \in SUBSET Province :
       /\ Queried(c, Province, found)
       /\ region' = [region EXCEPT ![c] = found]
       /\ Goto(c, IF found # {} THEN "filter region" ELSE "history")
  /\ UNCHANGED <<tables, req, normal, video, result, updates>>

FilterThenProvince(c) ==
  /\ pc[c] = "filter region"
  /\ \E left \in Filtered(c, region[c]) : region' = [region EXCEPT ![c] = left]
  /\ Goto(c, IF region'[c] = {} /\ req[c].zone = "city and province" /\ region[c] \subseteq City
             THEN "province" ELSE "history")
  /\ UNCHANGED <<tables, req, normal, video, result, was, updates>>

FilterRegion(c) ==
  /\ pc[c] = "filter region"
  /\ \/ /\ \E left \in Filtered(c, region[c]) : region' = [region EXCEPT ![c] = left]
        /\ UNCHANGED was
     \/ IgnoredFailure(c) /\ UNCHANGED region
  /\ Goto(c, "history")
  /\ UNCHANGED <<tables, req, normal, video, result, updates>>

QueryHistory(c) ==
  /\ pc[c] = "history"
  /\ result' = [result EXCEPT ![c].history = clicked[req[c].user]]
  /\ Goto(c, "select")
  /\ UNCHANGED <<tables, req, sets, was, updates>>
-----------------------------------------------------------------------------
Lesser(m, n) == IF m < n THEN m ELSE n

\* recommend_num limits when it is positive.
Requested(n, num) == IF num > 0 /\ n > num THEN num ELSE n

SizeT(n) == n % SizeMod

RequestedOnly(set, num, max) == Requested(Cardinality(set), num)

\* total_video and total_region, and total of a subscription query.
Limited(set, num, max) == Lesser(Requested(Cardinality(set), num), max)

\* total_normal: what the others leave of the limit.  The int is compared with
\* candidate_set.size() as a size_t.
TotalNormal(set, num, others) ==
  LET total == Requested(MaxSet - others, num)
  IN  IF Cardinality(set) < SizeT(total) THEN Cardinality(set) ELSE total

\* The lists the loops over the first n items can copy.
FirstOf(set, n) == {s \in SUBSET set : Cardinality(s) = Lesser(n, Cardinality(set))}

Selection(c) ==
  LET num == req[c].num
      nv == Limited(video[c], num, MaxVideo)
      nr == Limited(region[c], num, MaxRegion)
  IN  IF Recommends
      THEN {v \cup r \cup n : v \in FirstOf(video[c], nv), r \in FirstOf(region[c], nr),
                              n \in FirstOf(normal[c], TotalNormal(normal[c], num, nv + nr))}
      ELSE FirstOf(normal[c] \cap Subscribed, Limited(normal[c], num, MaxSet))

Select(c) ==
  /\ pc[c] = "select"
  /\ \E s \in Selection(c) : result' = [result EXCEPT ![c].items = s]
  /\ Goto(c, "done")
  /\ UNCHANGED <<tables, req, sets, was, updates>>

\* The reply or the error is sent; the next query starts with empty lists.
Reply(c) ==
  /\ pc[c] \in {"done", "failed"}
  /\ Goto(c, "idle")
  /\ req' = [req EXCEPT ![c] = NoRequest]
  /\ normal' = [normal EXCEPT ![c] = {}]
  /\ video' = [video EXCEPT ![c] = {}]
  /\ region' = [region EXCEPT ![c] = {}]
  /\ result' = [result EXCEPT ![c] = NoResult]
  /\ was' = [was EXCEPT ![c] = Nothing]
  /\ UNCHANGED <<tables, updates>>
-----------------------------------------------------------------------------
Query(c) ==
  \/ QueryCandidateSet(c) \/ QueryNormal(c) \/ FilterNormal(c) \/ Fails(c)
  \/ QueryVideo(c) \/ FilterVideo(c) \/ QueryCity(c) \/ QueryProvince(c)
  \/ FilterRegion(c) \/ QueryHistory(c) \/ Select(c) \/ Reply(c)

Next ==
  \/ \E c \in Clients : Query(c)
  \/ \E i \in Items : AddItem(i)
  \/ \E u \in Users, i \in Items : UpdateFeedback(u, i) \/ UpdateAction(u, i)

Spec == Init /\ [][Next]_vars
-----------------------------------------------------------------------------
Returned(c) == IF pc[c] = "done" THEN result[c].items ELSE {}

(***************************************************************************)
(* A candidate set is never larger than max_candidate_set_size, of which   *)
(* the configuration says that it is the largest number of candidates      *)
(* returned, nor holds more videos or regional items than their limits.    *)
(***************************************************************************)
WithinLimits ==
  \A c \in Clients :
    /\ Cardinality(Returned(c)) <= MaxSet
    /\ Cardinality(Returned(c) \cap Video) <= MaxVideo
    /\ Cardinality(Returned(c) \cap (City \cup Province)) <= MaxRegion

(***************************************************************************)
(* A user is not offered what was fed back for it before the query began,  *)
(* whatever is added, fed back or clicked meanwhile; a video or a regional *)
(* item may slip through only when a call the code does not check failed.  *)
(***************************************************************************)
NothingRecommendedAgain ==
  \A c \in Clients :
    Returned(c) \cap was[c].recommended \subseteq
      (IF was[c].failed THEN Items \ Normal ELSE {})

(***************************************************************************)
(* Items of the province are a substitute for a city without items (or     *)
(* one whose items could not be listed), not for one whose items the user  *)
(* has all recommended.                                                           *)
(***************************************************************************)
ProvinceIsSubstitute ==
  \A c \in Clients :
    Returned(c) \cap Province # {} => was[c].cities = {} \/ was[c].failed
=============================================================================
