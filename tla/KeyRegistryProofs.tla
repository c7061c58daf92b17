-------------------------- MODULE KeyRegistryProofs --------------------------
(***************************************************************************)
(* The key registry for any number of concurrent requests, users, keys and *)
(* texts, and any number of faults and kills.                              *)
(***************************************************************************)
EXTENDS KeyRegistry, FiniteSetTheorems, TLAPS

-----------------------------------------------------------------------------
(* Records and entries.                                                    *)

LEMMA EntriesOf ==
  ASSUME NEW f
  PROVE  /\ EnabledIn(f) \subseteq Entries
         /\ \A e \in Entries : e[1] \in Slots /\ e[2] \in Texts /\ e[1][1] \in Users
         /\ \A e \in EnabledIn(f) : e[1] \in Slots /\ Has(f, e[1])
<1>1. EnabledIn(f) \subseteq Entries
  BY DEF EnabledIn
<1>2. \A e \in Entries : e[1] \in Slots /\ e[2] \in Texts /\ e[1][1] \in Users
  BY DEF Entries, Slots
<1>3. ASSUME NEW e \in EnabledIn(f) PROVE e[1] \in Slots /\ Has(f, e[1])
  <2>1. e \in Entries /\ f[e[1]] = [text |-> e[2], enabled |-> TRUE]
    BY <1>3 DEF EnabledIn
  <2>2. [text |-> e[2], enabled |-> TRUE] \in [text : Texts, enabled : BOOLEAN]
    BY <1>2, <2>1
  <2>3. QED
    BY <1>2, <2>1, <2>2, AbsentAssumption DEF Has
<1>4. QED
  BY <1>1, <1>2, <1>3

LEMMA TextsTyped ==
  ASSUME NEW E \in SUBSET Entries
  PROVE  TextsOf(E) \subseteq Texts
  BY DEF TextsOf, Entries

LEMMA Placeholders ==
  /\ NoScan \in Scan
  /\ NoHist \in [seen : SUBSET Entries, kept : SUBSET Entries]
  /\ NoRequest \notin Request
  BY DEF NoScan, Scan, NoHist, NoRequest, Request

\* The page of a user is a request of its own.
LEMMA PageTyped ==
  ASSUME NEW u \in Users
  PROVE  PageOf(u) \in Request
  BY DEF PageOf, Request

LEMMA SlotOwner ==
  ASSUME NEW q \in Request
  PROVE  q.slot[1] \in Users /\ PageOf(q.slot[1]) \in Request
<1>1. q.slot[1] \in Users
  BY DEF Request
<1>2. QED
  BY <1>1, PageTyped

(* The history keeps to its type whatever a step does to the records.      *)
LEMMA TrackTyped ==
  ASSUME Track, hist \in [Requests -> [seen : SUBSET Entries, kept : SUBSET Entries]]
  PROVE  /\ hist' \in [Requests -> [seen : SUBSET Entries, kept : SUBSET Entries]]
         /\ calm' \in BOOLEAN
<1>1. EnabledIn(json') \subseteq Entries
  BY EntriesOf
<1>2. QED
  BY <1>1, Placeholders DEF Track

(* What is true of every variable but the history, step by step.           *)
Typed ==
  /\ json \in [Slots -> Record \cup {Absent}]
  /\ pub \in [Slots -> Texts \cup {Absent}]
  /\ userDirs \subseteq Users /\ profiles \subseteq userDirs
  /\ authKeys \subseteq Texts
  /\ pc \in [Requests -> {"idle", "get", "json", "pub", "rmjson", "rmpub",
                          "render", "scan", "page"}]
  /\ req \in [Requests -> Request \cup {NoRequest}]
  /\ \A r \in Requests : pc[r] \notin {"idle", "render", "scan"} => req[r] \in Request
  /\ scan \in [Requests -> Scan]
  /\ faults \in Nat /\ kills \in Nat

Ready ==
  \A r \in Requests :
    /\ pc[r] \in {"get", "json", "pub", "rmjson", "rmpub"} => req[r].slot \in Slots
    /\ pc[r] \in {"json", "pub"} => req[r].text \in Texts
    /\ pc[r] # "scan" => scan[r] = NoScan

Local == Typed /\ Ready /\ DirsKnown

LEMMA ArriveLocal ==
  ASSUME Local, NEW r \in Requests, Arrive(r)
  PROVE  Local'
<1> USE DEF Local, Typed, Ready, DirsKnown
<1>1. ASSUME NEW u \in Users, View(r, u)
      PROVE  Local'
  BY <1>1, PageTyped DEF View, GoTo, Changing, files, budget
<1>2. ASSUME NEW u \in Users, NEW o \in {"add", "enable", "disable", "delete"},
             NEW k \in Keys \cup {NoKey}, NEW t \in Texts \cup {Absent},
             o = "add" => t \in Texts,
             Change(r, u, o, k, t)
      PROVE  Local'
  <2>1. (IF k = NoKey THEN PageOf(u) ELSE [op |-> o, slot |-> <<u, k>>, text |-> t]) \in Request
    BY PageTyped DEF Request
  <2>2. CASE k = NoKey
    BY <1>2, <2>1, <2>2 DEF Change, GoTo, EnsureUserProfile, Fault, NoFault, budget
  <2>3. CASE k # NoKey
    <3>1. <<u, k>> \in Slots
      BY <2>3 DEF Slots
    <3>2. QED
      BY <1>2, <2>1, <2>3, <3>1 DEF Change, GoTo, EnsureUserProfile, Fault, NoFault, budget
  <2>4. QED
    BY <2>2, <2>3
<1>3. QED
  BY <1>1, <1>2, TextsAssumption DEF Arrive, Add, Modify

LEMMA ChangeLocal ==
  ASSUME Local, NEW r \in Requests,
         GetKey(r) \/ WriteJson(r) \/ WritePub(r) \/ RemoveJson(r) \/ RemovePub(r)
  PROVE  Local'
<1> USE DEF Local, Typed, Ready, DirsKnown, Changing, GoTo, ErrorPage, NoFault, Fault, budget, files
<1>0. /\ req[r] \in Request /\ req[r].slot[1] \in Users
      /\ PageOf(req[r].slot[1]) \in Request
  BY SlotOwner DEF GetKey, WriteJson, WritePub, RemoveJson, RemovePub
<1>1. CASE GetKey(r)
  <2>1. CASE pc'[r] = "page"
    BY <1>0, <1>1, <2>1 DEF GetKey
  <2>2. CASE pc'[r] = "json"
    <3>1. json[req[r].slot].text \in Texts /\ req[r].slot \in Slots
      BY <1>1, <2>2 DEF GetKey, Record, Has
    <3>2. [req[r] EXCEPT !.text = json[req[r].slot].text] \in Request
      BY <1>0, <3>1 DEF Request
    <3>3. req' = [req EXCEPT ![r].text = json[req[r].slot].text]
      BY <1>1, <2>2 DEF GetKey
    <3>4. req'[r] \in Request /\ req'[r].slot \in Slots /\ req'[r].text \in Texts
      BY <1>0, <3>1, <3>2, <3>3 DEF Request
    <3>5. QED
      BY <1>1, <2>2, <3>3, <3>4 DEF GetKey
  <2>3. CASE pc'[r] = "rmjson"
    BY <1>0, <1>1, <2>3 DEF GetKey
  <2>4. QED
    BY <1>1, <2>1, <2>2, <2>3 DEF GetKey
<1>2. CASE WriteJson(r)
  <2>1. /\ req[r] \in Request /\ req[r].slot \in Slots /\ req[r].slot[1] \in Users
        /\ [text |-> req[r].text, enabled |-> req[r].op # "disable"] \in Record
    BY <1>2 DEF WriteJson, Request, Record, Slots
  <2>2. CASE ErrorPage(r) /\ Fault
    BY <1>0, <1>2, <2>1, <2>2 DEF WriteJson
  <2>3. CASE pc'[r] = "pub"
    BY <1>2, <2>1, <2>3 DEF WriteJson, Has
  <2>4. QED
    BY <1>2, <2>2, <2>3 DEF WriteJson
<1>3. CASE WritePub(r)
  <2>1. CASE pc'[r] = "render"
    BY <1>3, <2>1, Placeholders DEF WritePub, ToRender
  <2>2. CASE pc'[r] = "page"
    BY <1>0, <1>3, <2>2 DEF WritePub, ToRender
  <2>3. QED
    BY <1>3, <2>1, <2>2 DEF WritePub, ToRender
<1>4. CASE RemoveJson(r)
  <2>1. CASE pc'[r] = "rmpub"
    BY <1>0, <1>4, <2>1 DEF RemoveJson, Has
  <2>2. CASE pc'[r] = "page"
    BY <1>0, <1>4, <2>2 DEF RemoveJson
  <2>3. QED
    BY <1>4, <2>1, <2>2 DEF RemoveJson
<1>5. CASE RemovePub(r)
  <2>1. CASE pc'[r] = "render"
    BY <1>5, <2>1, Placeholders DEF RemovePub, ToRender
  <2>2. CASE pc'[r] = "page"
    BY <1>0, <1>5, <2>2 DEF RemovePub, ToRender
  <2>3. QED
    BY <1>5, <2>1, <2>2 DEF RemovePub, ToRender
<1>6. QED
  BY <1>1, <1>2, <1>3, <1>4, <1>5

LEMMA RenderLocal ==
  ASSUME Local, NEW r \in Requests,
         \/ ReadUsersDir(r) \/ Publish(r) \/ Page(r)
         \/ \E u \in Users : ListUser(r, u)
         \/ \E s \in Slots : ReadKey(r, s)
  PROVE  Local'
<1> USE DEF Local, Typed, Ready, DirsKnown, Changing, GoTo, Respond, NoFault, Fault, budget, files
<1>1. CASE ReadUsersDir(r)
  <2>1. [scan[r] EXCEPT !.dirs = userDirs] \in Scan
    BY DEF Scan
  <2>2. scan' \in [Requests -> Scan]
    BY <1>1, <2>1, Placeholders DEF ReadUsersDir
  <2>3. QED
    BY <1>1, <2>2, Placeholders DEF ReadUsersDir
<1>2. CASE Publish(r)
  <2>1. TextsOf(scan[r].out) \subseteq Texts
    BY TextsTyped DEF Scan
  <2>2. QED
    BY <1>2, <2>1, Placeholders DEF Publish, Scanned
<1>3. CASE Page(r)
  <2>1. req[r].slot[1] \in Users
    BY <1>3, SlotOwner DEF Page
  <2>2. QED
    BY <1>3, <2>1, Placeholders DEF Page, EnsureUserProfile
<1>4. ASSUME NEW u \in Users, ListUser(r, u)
      PROVE  Local'
  <2>1. scan' \in [Requests -> Scan]
    <3> HIDE DEF Ready, DirsKnown
    <3>1. {z \in Slots : z[1] = u /\ Has(json, z)} \in SUBSET Slots
      OBVIOUS
    <3>2. QED
      BY <1>4, <3>1 DEF ListUser, Scan
  <2>2. \A q \in Requests : pc[q] # "scan" => scan'[q] = scan[q]
    BY <1>4 DEF ListUser
  <2>3. pc' = pc /\ UNCHANGED <<files, req>> /\ faults' \in Nat /\ kills' \in Nat
    BY <1>4 DEF ListUser
  <2>4. QED
    BY <2>1, <2>2, <2>3 DEF Has
<1>5. ASSUME NEW s \in Slots, ReadKey(r, s)
      PROVE  Local'
  <2>1. {e \in EnabledIn(json) : e[1] = s} \subseteq Entries
    BY EntriesOf
  <2>2. scan' \in [Requests -> Scan]
    <3> HIDE DEF Ready, DirsKnown
    <3>1. scan[r] \in Scan
      OBVIOUS
    <3>2. /\ [scan[r] EXCEPT !.todo = @ \ {s},
                             !.out = @ \cup {e \in EnabledIn(json) : e[1] = s}] \in Scan
          /\ [scan[r] EXCEPT !.todo = @ \ {s}, !.skipped = @ \cup {s}] \in Scan
      BY <2>1, <3>1 DEF Scan
    <3>3. QED
      BY <1>5, <3>2 DEF ReadKey
  <2>3. \A q \in Requests : pc[q] # "scan" => scan'[q] = scan[q]
    BY <1>5 DEF ReadKey
  <2>4. pc' = pc /\ UNCHANGED <<files, req>> /\ faults' \in Nat /\ kills' \in Nat
    BY <1>5 DEF ReadKey
  <2>5. QED
    BY <2>2, <2>3, <2>4 DEF Has
<1>6. QED
  BY <1>1, <1>2, <1>3, <1>4, <1>5

LEMMA KillLocal ==
  ASSUME Local, Kill
  PROVE  Local'
  BY Placeholders DEF Local, Typed, Ready, DirsKnown, Changing, Kill, files

LEMMA LocalStep == Local /\ [Next]_vars => Local'
<1>1. Local /\ UNCHANGED vars => Local'
  BY DEF Local, Typed, Ready, DirsKnown, Changing, vars, files, budget
<1>2. QED
  BY <1>1, ArriveLocal, ChangeLocal, RenderLocal, KillLocal DEF Next, Handle

LEMMA InitLocal == Init => Local
<1> SUFFICES ASSUME Init PROVE Local
  OBVIOUS
<1>1. TextsOf(EnabledIn(json)) \subseteq Texts
  BY EntriesOf, TextsTyped
<1>2. pub \in [Slots -> Texts \cup {Absent}]
  BY DEF Init, Record, Has
<1>3. QED
  BY <1>1, <1>2, Placeholders DEF Init, Local, Typed, Ready, DirsKnown, Changing

(* Every variable of the handlers and of the data directory keeps to its   *)
(* type, and a handler that has work to do has a request to do it for.     *)
THEOREM TypeCorrect == Spec => []TypeOK
<1> DEFINE HistTyped ==
      /\ hist \in [Requests -> [seen : SUBSET Entries, kept : SUBSET Entries]]
      /\ calm \in BOOLEAN
<1>1. Init => Local /\ HistTyped
  BY InitLocal, Placeholders DEF Init
<1>2. Local /\ HistTyped /\ [Next]_vars => Local' /\ HistTyped'
  BY LocalStep, TrackTyped DEF Next, Arrive, Handle, vars, history
<1>3. Local /\ HistTyped => TypeOK
  BY DEF Local, Typed, TypeOK
<1> HIDE DEF HistTyped
<1>4. QED
  BY <1>1, <1>2, <1>3, PTL DEF Spec

-----------------------------------------------------------------------------
(* What a render collects while others change the records.                 *)

\* Only the handler itself takes a step of its render.
LEMMA ScanSteps ==
  ASSUME Local, Next, NEW r \in Requests, pc'[r] = "scan"
  PROVE  \/ pc[r] = "scan" /\ scan'[r] = scan[r]
         \/ /\ json' = json /\ pc[r] = "render"
            /\ scan'[r] = [scan[r] EXCEPT !.dirs = userDirs]
         \/ \E u \in Users : ListUser(r, u)
         \/ \E s \in Slots : ReadKey(r, s)
<1> USE DEF Local, Typed, GoTo
<1>1. ASSUME NEW q \in Requests, Arrive(q)
      PROVE  pc[r] = "scan" /\ scan'[r] = scan[r]
  BY <1>1 DEF Arrive, View, Add, Modify, Change
<1>2. ASSUME NEW q \in Requests,
             \/ GetKey(q) \/ WriteJson(q) \/ WritePub(q)
             \/ RemoveJson(q) \/ RemovePub(q)
      PROVE  pc[r] = "scan" /\ scan'[r] = scan[r]
  BY <1>2 DEF GetKey, WriteJson, WritePub, RemoveJson, RemovePub, ErrorPage, ToRender
<1>3. ASSUME NEW q \in Requests, Publish(q) \/ Page(q)
      PROVE  pc[r] = "scan" /\ scan'[r] = scan[r]
  BY <1>3 DEF Publish, Page, Respond, Scanned
<1>4. ASSUME NEW q \in Requests, ReadUsersDir(q)
      PROVE  \/ pc[r] = "scan" /\ scan'[r] = scan[r]
             \/ /\ json' = json /\ pc[r] = "render"
                /\ scan'[r] = [scan[r] EXCEPT !.dirs = userDirs]
  BY <1>4 DEF ReadUsersDir, Respond, files
<1>5. ASSUME NEW q \in Requests, NEW u \in Users, ListUser(q, u), q # r
      PROVE  pc[r] = "scan" /\ scan'[r] = scan[r]
  BY <1>5 DEF ListUser
<1>6. ASSUME NEW q \in Requests, NEW s \in Slots, ReadKey(q, s), q # r
      PROVE  pc[r] = "scan" /\ scan'[r] = scan[r]
  BY <1>6 DEF ReadKey
<1>7. ~Kill
  BY DEF Kill
<1>8. QED
  BY <1>1, <1>2, <1>3, <1>4, <1>5, <1>6, <1>7 DEF Next, Handle

LEMMA CollectedStep == Local /\ Prepared /\ Collected /\ [Next]_vars => Collected'
<1> SUFFICES ASSUME Local, Prepared, Collected, [Next]_vars PROVE Collected'
  OBVIOUS
<1>1. CASE UNCHANGED vars
  BY <1>1 DEF Collected, vars, files, history
<1>2. CASE Next
  <2> SUFFICES ASSUME NEW r \in Requests, pc'[r] = "scan"
               PROVE  /\ hist'[r].kept \subseteq EnabledIn(json')
                      /\ EnabledIn(json') \subseteq hist'[r].seen
                      /\ scan'[r].out \subseteq hist'[r].seen
                      /\ \A e \in hist'[r].kept :
                           \/ e[1][1] \in scan'[r].dirs
                           \/ e[1] \in scan'[r].todo \cup scan'[r].skipped
                           \/ e \in scan'[r].out
    BY DEF Collected
  <2>1. Track
    BY <1>2 DEF Next, Arrive, Handle
  <2>2. CASE pc[r] = "scan" /\ scan'[r] = scan[r]
    BY <2>1, <2>2 DEF Track, Collected
  <2>3. CASE /\ json' = json /\ pc[r] = "render"
             /\ scan'[r] = [scan[r] EXCEPT !.dirs = userDirs]
    <3>1. scan[r] = NoScan
      BY <2>3 DEF Prepared
    <3>2. scan'[r].dirs = userDirs /\ scan'[r].out = {}
      BY <2>3, <3>1 DEF NoScan
    <3>3. \A e \in EnabledIn(json') : e[1][1] \in userDirs
      BY <2>3, EntriesOf DEF Local, DirsKnown
    <3>4. hist'[r] = [seen |-> EnabledIn(json'), kept |-> EnabledIn(json')]
      BY <2>1, <2>3 DEF Track
    <3>5. QED
      BY <3>2, <3>3, <3>4
  <2>4. ASSUME NEW u \in Users, ListUser(r, u)
        PROVE  /\ hist'[r].kept \subseteq EnabledIn(json')
               /\ EnabledIn(json') \subseteq hist'[r].seen
               /\ scan'[r].out \subseteq hist'[r].seen
               /\ \A e \in hist'[r].kept :
                    \/ e[1][1] \in scan'[r].dirs
                    \/ e[1] \in scan'[r].todo \cup scan'[r].skipped
                    \/ e \in scan'[r].out
    <3>1. pc[r] = "scan" /\ json' = json /\ scan[r].todo = {} /\ scan[r] \in Scan
      BY <2>4 DEF ListUser, files, Local, Typed
    <3>2. /\ hist'[r].seen = hist[r].seen \cup EnabledIn(json)
          /\ hist'[r].kept = hist[r].kept \cap EnabledIn(json)
      BY <2>1, <3>1 DEF Track
    <3>3. /\ scan'[r].out = scan[r].out
          /\ scan'[r].dirs = scan[r].dirs \ {u}
          /\ scan[r].skipped \subseteq scan'[r].skipped
          /\ \A s \in Slots : s[1] = u /\ Has(json, s)
                              => s \in scan'[r].todo \cup scan'[r].skipped
      BY <2>4, <3>1 DEF ListUser, Scan, Local, Typed
    <3>4. \A e \in EnabledIn(json) : e[1] \in Slots /\ Has(json, e[1])
      BY EntriesOf
    <3>5. QED
      BY <3>1, <3>2, <3>3, <3>4 DEF Collected
  <2>5. ASSUME NEW s \in Slots, ReadKey(r, s)
        PROVE  /\ hist'[r].kept \subseteq EnabledIn(json')
               /\ EnabledIn(json') \subseteq hist'[r].seen
               /\ scan'[r].out \subseteq hist'[r].seen
               /\ \A e \in hist'[r].kept :
                    \/ e[1][1] \in scan'[r].dirs
                    \/ e[1] \in scan'[r].todo \cup scan'[r].skipped
                    \/ e \in scan'[r].out
    <3>1. pc[r] = "scan" /\ json' = json /\ scan[r] \in Scan
      BY <2>5 DEF ReadKey, files, Local, Typed
    <3>2. /\ hist'[r].seen = hist[r].seen \cup EnabledIn(json)
          /\ hist'[r].kept = hist[r].kept \cap EnabledIn(json)
      BY <2>1, <3>1 DEF Track
    <3>3. /\ scan'[r].dirs = scan[r].dirs
          /\ scan'[r].todo = scan[r].todo \ {s}
          /\ \/ /\ scan'[r].out = scan[r].out \cup {e \in EnabledIn(json) : e[1] = s}
                /\ scan'[r].skipped = scan[r].skipped
             \/ /\ scan'[r].out = scan[r].out
                /\ scan'[r].skipped = scan[r].skipped \cup {s}
      BY <2>5, <3>1 DEF ReadKey, Scan, Local, Typed
    <3>4. QED
      BY <3>1, <3>2, <3>3 DEF Collected
  <2>6. QED
    BY <1>2, <2>2, <2>3, <2>4, <2>5, ScanSteps
<1>3. QED
  BY <1>1, <1>2

LEMMA PreparedStep == Local /\ Prepared /\ [Next]_vars => Prepared'
<1>1. Local /\ [Next]_vars => Local'
  BY LocalStep
<1>2. Next => \A r \in Requests : pc'[r] # "scan" => hist'[r] = NoHist
  BY DEF Next, Arrive, Handle, Track
<1>3. QED
  BY <1>1, <1>2 DEF Prepared, Local, Ready, Changing, vars, history

LEMMA RegularInvariant == Spec => [](Local /\ Prepared /\ Collected)
<1>1. Init => Local /\ Prepared /\ Collected
  BY InitLocal DEF Init, Prepared, Collected, Changing
<1>2. QED
  BY <1>1, LocalStep, PreparedStep, CollectedStep, PTL DEF Spec

(* Whatever other handlers do to the records while RenderAuthorizedKeys    *)
(* reads them one by one, it misses no key that stays enabled and readable,*)
(* and adds none that is not enabled at any time.                          *)
THEOREM RenderIsRegular == Spec => []RenderRegular
<1>1. Local /\ Prepared /\ Collected => RenderRegular
  BY DEF Collected, RenderRegular, Scanned
<1>2. QED
  BY <1>1, RegularInvariant, PTL

-----------------------------------------------------------------------------
(* The undisturbed render.                                                 *)

(* A render during which no record changed and no read failed leaves       *)
(* exactly the enabled keys in authorized_keys/jump, whatever happened     *)
(* before it.                                                              *)
THEOREM UndisturbedIsExact == Spec => UndisturbedRender
<1> DEFINE Exact(r) ==
      /\ Scanned(r) /\ scan[r].skipped = {} /\ hist[r].seen = hist[r].kept
      /\ pc'[r] = "idle" /\ faults' = faults /\ kills' = kills
      => authKeys' = TextsOf(EnabledIn(json'))
<1>1. ASSUME Local, Prepared, Collected, Next,
             NEW r \in Requests, Scanned(r), scan[r].skipped = {},
             hist[r].seen = hist[r].kept,
             pc'[r] = "idle", faults' = faults, kills' = kills
      PROVE  authKeys' = TextsOf(EnabledIn(json'))
  <2>1. scan[r].out = EnabledIn(json)
    BY <1>1 DEF Collected, Scanned
  <2>2. Publish(r)
    <3> USE DEF Local, Typed, GoTo, Scanned
    <3>1. ASSUME NEW q \in Requests, Arrive(q) PROVE FALSE
      BY <1>1, <3>1 DEF Arrive, View, Add, Modify, Change
    <3>2. ASSUME NEW q \in Requests,
                 \/ GetKey(q) \/ WriteJson(q) \/ WritePub(q) \/ RemoveJson(q)
                 \/ RemovePub(q) \/ ReadUsersDir(q) \/ Page(q)
                 \/ \E u \in Users : ListUser(q, u)
                 \/ \E s \in Slots : ReadKey(q, s)
          PROVE  FALSE
      BY <1>1, <3>2 DEF GetKey, WriteJson, WritePub, RemoveJson, RemovePub,
           ErrorPage, ToRender, ReadUsersDir, Page, Respond, ListUser, ReadKey
    <3>3. ASSUME NEW q \in Requests, q # r, Publish(q) PROVE FALSE
      BY <1>1, <3>3 DEF Publish, Respond
    <3>4. ~Kill
      BY <1>1 DEF Kill
    <3>5. QED
      BY <1>1, <3>1, <3>2, <3>3, <3>4 DEF Next, Handle
  <2>3. QED
    BY <1>1, <2>1, <2>2 DEF Publish, Fault, Local, Typed
<1>2. Local /\ Prepared /\ Collected /\ [Next]_vars
        => [\A r \in Requests : Exact(r)]_vars
  BY <1>1
<1>3. QED
  BY <1>2, RegularInvariant, PTL DEF Spec, UndisturbedRender

-----------------------------------------------------------------------------
(* One change at a time.                                                   *)

Inv == Local /\ Prepared /\ Collected /\ Serial

(* A step that leaves the registry calm, with what that takes.             *)
LEMMA Calm ==
  ASSUME Inv, Next, calm'
  PROVE  /\ calm /\ faults' = faults
         /\ \A q, r \in Requests : Changing(q)' /\ Changing(r)' => q = r
         /\ kills' # kills => \A r \in Requests : ~Changing(r)
  BY DEF Next, Arrive, Handle, Track

(* Requests that touch neither records nor authorized_keys leave a change  *)
(* in progress alone.                                                      *)
LEMMA BystanderSerial ==
  ASSUME Inv, Next, NEW r \in Requests,
         Page(r) \/ \E u \in Users :
           \/ View(r, u)
           \/ \E t \in Texts \cup {Absent}, o \in {"add", "enable", "disable", "delete"} :
                Change(r, u, o, NoKey, t)
  PROVE  Serial'
<1> SUFFICES ASSUME calm' PROVE Serial'
  BY DEF Serial
<1>1. /\ json' = json /\ pub' = pub /\ authKeys' = authKeys
      /\ pc[r] \in {"idle", "page"} /\ pc'[r] \in {"idle", "page"}
      /\ \A q \in Requests \ {r} : pc'[q] = pc[q] /\ req'[q] = req[q] /\ scan'[q] = scan[q]
  BY DEF Inv, Local, Typed, Page, View, Change, Respond, GoTo, files
<1>2. \A q \in Requests : pc'[q] = "scan" =>
        hist'[q].seen = hist[q].seen \cup EnabledIn(json)
        /\ hist'[q].kept = hist[q].kept \cap EnabledIn(json)
  BY <1>1 DEF Next, Arrive, Handle, Track
<1>3. \A q \in Requests : pc'[q] = "scan" => pc[q] = "scan" /\ hist'[q].seen = hist'[q].kept
  BY <1>1, <1>2, Calm DEF Inv, Serial, Collected
<1>4. QED
  BY <1>1, <1>3, Calm DEF Inv, Serial, Changing, InSync, PubsMatch, PubsMatchBut

(* A change begins in a registry that is in agreement.                     *)
LEMMA ChangeSerial ==
  ASSUME Inv, Next, NEW r \in Requests, NEW u \in Users,
         NEW o \in {"add", "enable", "disable", "delete"},
         NEW k \in Keys, NEW t \in Texts \cup {Absent},
         Change(r, u, o, k, t)
  PROVE  Serial'
<1> SUFFICES ASSUME calm' PROVE Serial'
  BY DEF Serial
<1>1. /\ json' = json /\ pub' = pub /\ authKeys' = authKeys
      /\ pc[r] = "idle" /\ pc'[r] \in {"json", "get"}
      /\ \A q \in Requests \ {r} : pc'[q] = pc[q]
  BY TextsAssumption DEF Inv, Local, Typed, Change, GoTo
<1>2. \A q \in Requests : ~Changing(q)
  BY <1>1, Calm DEF Changing
<1>3. InSync
  BY <1>2, Calm DEF Inv, Serial, Changing
<1>4. \A q \in Requests : pc'[q] \notin {"pub", "rmpub", "render", "scan"}
  BY <1>1, <1>2 DEF Changing
<1>5. QED
  BY <1>1, <1>3, <1>4, Calm DEF Serial, InSync, PubsMatch

(* The one change in progress takes its next step.                         *)
LEMMA StepSerial ==
  ASSUME Inv, Next, NEW r \in Requests,
         \/ GetKey(r) \/ WriteJson(r) \/ WritePub(r) \/ RemoveJson(r) \/ RemovePub(r)
         \/ ReadUsersDir(r) \/ Publish(r)
         \/ \E u \in Users : ListUser(r, u)
         \/ \E s \in Slots : ReadKey(r, s)
  PROVE  Serial'
<1> SUFFICES ASSUME calm' PROVE Serial'
  BY DEF Serial
<1> DEFINE s == req[r].slot
<1>1. /\ calm /\ faults' = faults /\ ~Fault
      /\ \A p, q \in Requests : Changing(p)' /\ Changing(q)' => p = q
  BY Calm DEF Fault, Inv, Local, Typed
<1>2. /\ Changing(r)
      /\ pc[r] \in {"get", "json", "pub", "rmjson", "rmpub"} => s \in Slots
      /\ \A q \in Requests \ {r} : pc'[q] = pc[q] /\ ~Changing(q)
  <2>1. Changing(r)
    BY DEF Changing, GetKey, WriteJson, WritePub, RemoveJson, RemovePub, ReadUsersDir,
           Publish, Scanned, ListUser, ReadKey
  <2>2. \A q \in Requests \ {r} : pc'[q] = pc[q]
    <3> USE DEF GoTo, Inv, Local, Typed
    <3>1. CASE GetKey(r) \/ WriteJson(r) \/ WritePub(r) \/ RemoveJson(r) \/ RemovePub(r)
      BY <3>1 DEF GetKey, WriteJson, WritePub, RemoveJson, RemovePub, ErrorPage, ToRender
    <3>2. CASE ReadUsersDir(r) \/ Publish(r)
      BY <3>2 DEF ReadUsersDir, Publish, Respond
    <3>3. CASE (\E u \in Users : ListUser(r, u)) \/ (\E z \in Slots : ReadKey(r, z))
      BY <3>3 DEF ListUser, ReadKey
    <3>4. QED
      BY <3>1, <3>2, <3>3
  <2>3. QED
    BY <1>1, <2>1, <2>2 DEF Inv, Serial, Prepared
<1>3. pc'[r] \notin {"pub", "rmpub", "render", "scan"} /\ InSync' => Serial'
  BY <1>1, <1>2 DEF Serial, Changing
<1>4. CASE GetKey(r)
  <2>1. InSync
    BY <1>1, <1>2, <1>4 DEF Inv, Serial, Changing, GetKey
  <2>2. pc'[r] \in {"json", "rmjson", "page"} /\ UNCHANGED files
    BY <1>4 DEF GetKey, GoTo, ErrorPage, Inv, Local, Typed
  <2>3. QED
    BY <1>3, <2>1, <2>2 DEF InSync, PubsMatch, files
<1>5. CASE WriteJson(r)
  <2>0. s \in Slots
    BY <1>2, <1>5 DEF WriteJson
  <2>1. InSync
    BY <1>1, <1>2, <1>5 DEF Inv, Serial, Changing, WriteJson
  <2>2. /\ pc'[r] = "pub" /\ pub' = pub /\ req' = req
        /\ json' = [json EXCEPT ![s] = [text |-> req[r].text, enabled |-> req[r].op # "disable"]]
    BY <1>1, <1>5 DEF WriteJson, GoTo, Inv, Local, Typed
  <2>3. req[r].text \in Texts
    BY <1>5 DEF Inv, Prepared, WriteJson
  <2>4. json'[s] # Absent /\ json'[s].text = req[r].text
    <3>1. [text |-> req[r].text, enabled |-> req[r].op # "disable"]
             \in [text : Texts, enabled : BOOLEAN]
      BY <2>3
    <3>2. json'[s] = [text |-> req[r].text, enabled |-> req[r].op # "disable"]
      BY <2>0, <2>2 DEF Inv, Local, Typed
    <3>3. [text |-> req[r].text, enabled |-> req[r].op # "disable"] # Absent
      BY <3>1, AbsentAssumption, Zenon
    <3>4. QED
      BY <3>2, <3>3
  <2>5. \A z \in Slots \ {s} : json'[z] = json[z]
    BY <2>2 DEF Inv, Local, Typed
  <2>6. QED
    BY <1>1, <1>2, <2>0, <2>1, <2>2, <2>4, <2>5
       DEF Serial, InSync, PubsMatch, PubsMatchBut, Changing, Has
<1>6. CASE WritePub(r)
  <2>0. s \in Slots
    BY <1>2, <1>6 DEF WritePub
  <2>1. /\ PubsMatchBut(s) /\ Has(json, s) /\ json[s].text = req[r].text
    BY <1>1, <1>6 DEF Inv, Serial, WritePub
  <2>2. /\ pc'[r] = "render" /\ json' = json /\ pub' = [pub EXCEPT ![s] = req[r].text]
    BY <1>1, <1>6 DEF WritePub, ToRender, GoTo, Inv, Local, Typed
  <2>3. PubsMatch'
    BY <2>0, <2>1, <2>2 DEF PubsMatch, PubsMatchBut, Has, Inv, Local, Typed
  <2>4. QED
    BY <1>1, <1>2, <2>0, <2>2, <2>3 DEF Serial, Changing
<1>7. CASE RemoveJson(r)
  <2>0. s \in Slots
    BY <1>2, <1>7 DEF RemoveJson
  <2>1. InSync
    BY <1>1, <1>2, <1>7 DEF Inv, Serial, Changing, RemoveJson
  <2>2. /\ pc'[r] = "rmpub" /\ pub' = pub /\ req' = req
        /\ json' = [json EXCEPT ![s] = Absent]
    BY <1>1, <1>7 DEF RemoveJson, GoTo, Inv, Local, Typed
  <2>3. json'[s] = Absent /\ \A z \in Slots \ {s} : json'[z] = json[z]
    BY <2>0, <2>2 DEF Inv, Local, Typed
  <2>4. QED
    BY <1>1, <1>2, <2>0, <2>1, <2>2, <2>3
       DEF Serial, InSync, PubsMatch, PubsMatchBut, Changing, Has
<1>8. CASE RemovePub(r)
  <2>0. s \in Slots
    BY <1>2, <1>8 DEF RemovePub
  <2>1. PubsMatchBut(s) /\ ~Has(json, s)
    BY <1>1, <1>8 DEF Inv, Serial, RemovePub
  <2>2. /\ pc'[r] = "render" /\ json' = json /\ pub' = [pub EXCEPT ![s] = Absent]
    BY <1>1, <1>8 DEF RemovePub, ToRender, GoTo, Inv, Local, Typed
  <2>3. PubsMatch'
    BY <2>0, <2>1, <2>2 DEF PubsMatch, PubsMatchBut, Has, Inv, Local, Typed
  <2>4. QED
    BY <1>1, <1>2, <2>0, <2>2, <2>3 DEF Serial, Changing
<1>9. CASE ReadUsersDir(r)
  <2>1. PubsMatch
    BY <1>1, <1>9 DEF Inv, Serial, ReadUsersDir
  <2>2. /\ pc[r] = "render" /\ pc'[r] = "scan" /\ UNCHANGED files
        /\ scan'[r] = [scan[r] EXCEPT !.dirs = userDirs]
    BY <1>1, <1>9 DEF ReadUsersDir, GoTo, Inv, Local, Typed
  <2>3. scan'[r].skipped = {}
    BY <2>2 DEF Inv, Prepared, NoScan
  <2>4. hist'[r].seen = hist'[r].kept
    BY <2>2 DEF Next, Arrive, Handle, Track
  <2>5. QED
    BY <1>1, <1>2, <2>1, <2>2, <2>3, <2>4 DEF Serial, Changing, PubsMatch, files
<1>10. CASE (\E u \in Users : ListUser(r, u)) \/ (\E z \in Slots : ReadKey(r, z))
  <2>1. /\ pc[r] = "scan" /\ pc'[r] = "scan" /\ UNCHANGED files
        /\ scan'[r].skipped = scan[r].skipped
    <3> USE DEF Inv, Local, Typed
    <3>1. ASSUME NEW u \in Users, ListUser(r, u)
          PROVE  /\ pc[r] = "scan" /\ pc'[r] = "scan" /\ UNCHANGED files
                 /\ scan'[r].skipped = scan[r].skipped
      BY <1>1, <3>1 DEF ListUser, Scan
    <3>2. ASSUME NEW z \in Slots, ReadKey(r, z)
          PROVE  /\ pc[r] = "scan" /\ pc'[r] = "scan" /\ UNCHANGED files
                 /\ scan'[r].skipped = scan[r].skipped
      BY <1>1, <3>2 DEF ReadKey, Scan
    <3>3. QED
      BY <1>10, <3>1, <3>2
  <2>2. /\ PubsMatch /\ scan[r].skipped = {} /\ hist[r].seen = hist[r].kept
    BY <1>1, <2>1 DEF Inv, Serial
  <2>3. hist'[r].seen = hist'[r].kept
    <3>1. /\ hist'[r].seen = hist[r].seen \cup EnabledIn(json)
          /\ hist'[r].kept = hist[r].kept \cap EnabledIn(json)
      BY <2>1 DEF Next, Arrive, Handle, Track, files
    <3>2. QED
      BY <2>1, <2>2, <3>1 DEF Inv, Collected
  <2>4. QED
    BY <1>1, <1>2, <2>1, <2>2, <2>3 DEF Serial, Changing, PubsMatch, files
<1>11. CASE Publish(r)
  <2>1. PubsMatch /\ scan[r].skipped = {} /\ hist[r].seen = hist[r].kept
    BY <1>1, <1>11 DEF Inv, Serial, Publish, Scanned
  <2>2. scan[r].out = EnabledIn(json)
    BY <1>11, <2>1 DEF Inv, Collected, Publish, Scanned
  <2>3. /\ pc'[r] = "idle" /\ json' = json /\ pub' = pub
        /\ authKeys' = TextsOf(scan[r].out)
    BY <1>1, <1>11 DEF Publish, Respond, GoTo, Inv, Local, Typed
  <2>4. QED
    BY <1>3, <2>1, <2>2, <2>3 DEF InSync, PubsMatch
<1>12. QED
  BY <1>4, <1>5, <1>6, <1>7, <1>8, <1>9, <1>10, <1>11

LEMMA KillSerial ==
  ASSUME Inv, Next, Kill
  PROVE  Serial'
<1> SUFFICES ASSUME calm' PROVE Serial'
  BY DEF Serial
<1>1. calm /\ \A r \in Requests : ~Changing(r)
  BY Calm DEF Kill, Inv, Local, Typed
<1>2. InSync
  BY <1>1 DEF Inv, Serial, Changing
<1>3. QED
  BY <1>1, <1>2 DEF Kill, Serial, Changing, InSync, PubsMatch, files

LEMMA SerialStep == Inv /\ [Next]_vars => Serial'
<1>1. Inv /\ UNCHANGED vars => Serial'
  BY DEF Inv, Serial, InSync, PubsMatch, PubsMatchBut, Changing, vars, files, history
<1>2. ASSUME Inv, Next, NEW r \in Requests, Arrive(r)
      PROVE  Serial'
  <2>1. PICK u \in Users :
          \/ View(r, u)
          \/ \E t \in Texts : Add(r, u, t)
          \/ \E o \in {"enable", "disable", "delete"}, k \in Keys \cup {NoKey} :
               Modify(r, u, o, k)
    BY <1>2 DEF Arrive
  <2>2. CASE View(r, u)
    BY <1>2, <2>2, BystanderSerial
  <2>3. ASSUME NEW t \in Texts, Add(r, u, t) PROVE Serial'
    <3>1. Change(r, u, "add", FirstKey[t], t) /\ FirstKey[t] \in Keys \cup {NoKey}
      BY <2>3, TextsAssumption DEF Add
    <3>2. QED
      BY <1>2, <3>1, BystanderSerial, ChangeSerial
  <2>4. ASSUME NEW o \in {"enable", "disable", "delete"}, NEW k \in Keys \cup {NoKey},
               Modify(r, u, o, k)
        PROVE  Serial'
    BY <1>2, <2>4, BystanderSerial, ChangeSerial DEF Modify
  <2>5. QED
    BY <2>1, <2>2, <2>3, <2>4
<1>3. ASSUME Inv, Next, NEW r \in Requests, Handle(r)
      PROVE  Serial'
  BY <1>3, StepSerial, BystanderSerial DEF Handle
<1>4. QED
  BY <1>1, <1>2, <1>3, KillSerial DEF Next

LEMMA Invariant == Spec => []Inv
<1>1. Init => Inv
  BY InitLocal DEF Init, Inv, Prepared, Collected, Serial, Changing, InSync, PubsMatch
<1>2. Inv /\ [Next]_vars => Inv'
  BY LocalStep, PreparedStep, CollectedStep, SerialStep DEF Inv
<1>3. QED
  BY <1>1, <1>2, PTL DEF Spec

(* The invariant that the runs check: what handlers have prepared, what    *)
(* renders have collected and where a lone change stands.                  *)
THEOREM Invariance == Spec => []IInv
<1>1. TypeOK /\ Inv => IInv
  BY DEF IInv, Inv, Local
<1>2. QED
  BY <1>1, TypeCorrect, Invariant, PTL

(* While no call fails, no change is killed and no two changes overlap,    *)
(* every completed request leaves the records, their .pub files and        *)
(* authorized_keys/jump in agreement, whichever way it ended.              *)
THEOREM SerialInSync == Spec => []SerialSync
<1>1. Inv => SerialSync
  BY DEF Inv, Serial, SerialSync, Changing
<1>2. QED
  BY <1>1, Invariant, PTL

-----------------------------------------------------------------------------
(* RequestsAdvance: the steps that are left to an answer.                  *)

\* How many records and directories a render can have before it.
LEMMA SizesOf ==
  ASSUME NEW D \in SUBSET Users, NEW R \in SUBSET Slots
  PROVE  /\ IsFiniteSet(D) /\ IsFiniteSet(R)
         /\ Cardinality(D) \in Nat /\ Cardinality(R) \in Nat
         /\ Cardinality(D) <= Cardinality(Users)
<1>1. IsFiniteSet(D) /\ Cardinality(D) <= Cardinality(Users)
  BY FiniteAssumption, FS_Subset
<1>2. IsFiniteSet(Slots)
  BY FiniteAssumption, FS_Product DEF Slots
<1>3. IsFiniteSet(R)
  BY <1>2, FS_Subset
<1> QED
  BY <1>1, <1>3, FS_CardinalityType

\* One user has a record for each key at most.
LEMMA OneDirectory ==
  ASSUME NEW u \in Users, NEW R \in SUBSET Slots, \A s \in R : s[1] = u
  PROVE  Cardinality(R) <= Cardinality(Keys)
<1>1. IsFiniteSet({u}) /\ Cardinality({u}) = 1
  BY FS_Singleton
<1>2. /\ IsFiniteSet({u} \X Keys)
      /\ Cardinality({u} \X Keys) = Cardinality({u}) * Cardinality(Keys)
  BY <1>1, FiniteAssumption, FS_Product
<1>3. Cardinality(Keys) \in Nat
  BY FiniteAssumption, FS_CardinalityType
<1>4. R \subseteq {u} \X Keys
  BY DEF Slots
<1>5. Cardinality(R) <= Cardinality({u} \X Keys)
  BY <1>2, <1>4, FS_Subset
<1> QED
  BY <1>1, <1>2, <1>3, <1>5

LEMMA Multiples ==
  ASSUME NEW m \in Nat, NEW n \in Nat, NEW k \in Nat, n <= k
  PROVE  /\ m * n \in Nat /\ m * n <= m * k
         /\ n > 0 => m * (n - 1) = m * n - m
OBVIOUS

\* What the places of a handler cost, one next to the other.
LEMMA Costs ==
  ASSUME NEW sc \in Scan
  PROVE  LET R == 2 + Listing * Cardinality(Users) IN
         /\ Listing \in Nat /\ R \in Nat /\ R >= 2
         /\ StepsFrom("idle", sc) = 0 /\ StepsFrom("page", sc) = 1
         /\ StepsFrom("scan", sc) = 1 + Cardinality(sc.todo) + Listing * Cardinality(sc.dirs)
         /\ StepsFrom("scan", sc) \in Nat /\ StepsFrom("scan", sc) >= 1
         /\ StepsFrom("render", sc) = R
         /\ \A p \in {"pub", "rmpub"} : StepsFrom(p, sc) = R + 1
         /\ \A p \in {"json", "rmjson"} : StepsFrom(p, sc) = R + 2
         /\ StepsFrom("get", sc) = R + 3
<1>1. /\ Cardinality(Users) \in Nat /\ Cardinality(Keys) \in Nat
      /\ Cardinality(sc.todo) \in Nat /\ Cardinality(sc.dirs) \in Nat
  BY FiniteAssumption, FS_CardinalityType, SizesOf DEF Scan
<1>2. Listing \in Nat
  BY <1>1 DEF Listing
<1>3. Listing * Cardinality(Users) \in Nat /\ Listing * Cardinality(sc.dirs) \in Nat
  BY <1>1, <1>2, Multiples
<1> QED
  BY <1>1, <1>2, <1>3 DEF StepsFrom

\* The directory or the record that a render takes next costs it one step.
LEMMA RenderLowers ==
  ASSUME Local, NEW r \in Requests,
         \/ \E u \in Users : ListUser(r, u)
         \/ \E s \in Slots : ReadKey(r, s)
  PROVE  Left(r)' < Left(r)
<1> DEFINE D == scan[r].dirs
           T == scan[r].todo
           D1 == scan'[r].dirs
           T1 == scan'[r].todo
<1>1. /\ pc[r] = "scan" /\ pc'[r] = "scan"
      /\ scan[r] \in Scan /\ scan'[r] \in Scan
  <2>1. pc[r] = "scan" /\ pc' = pc
    BY DEF ListUser, ReadKey
  <2>2. scan[r] \in Scan /\ scan'[r] \in Scan
    BY RenderLocal DEF Local, Typed
  <2> QED
    BY <2>1, <2>2
<1>2. /\ D \in SUBSET Users /\ D1 \in SUBSET Users
      /\ T \in SUBSET Slots /\ T1 \in SUBSET Slots
  BY <1>1 DEF Scan
<1>3. /\ IsFiniteSet(D) /\ IsFiniteSet(T)
      /\ Cardinality(D) \in Nat /\ Cardinality(T) \in Nat
      /\ Cardinality(D1) \in Nat /\ Cardinality(T1) \in Nat
      /\ Cardinality(Keys) \in Nat /\ Listing \in Nat
  BY <1>1, <1>2, SizesOf, Costs, FiniteAssumption, FS_CardinalityType
<1>4. /\ Left(r) = 1 + Cardinality(T) + Listing * Cardinality(D)
      /\ Left(r)' = 1 + Cardinality(T1) + Listing * Cardinality(D1)
  <2>1. Left(r)' = StepsFrom(pc'[r], scan'[r])
    BY DEF Left, StepsFrom
  <2> QED
    BY <1>1, <2>1, Costs DEF Left
<1>5. ASSUME NEW u \in Users, ListUser(r, u)
      PROVE  Left(r)' < Left(r)
  <2>1. T = {} /\ u \in D /\ D1 = D \ {u} /\ \A s \in T1 : s[1] = u
    BY <1>5, <1>1 DEF ListUser, Local, Typed, Scan
  <2>2. Cardinality(T) = 0
    BY <2>1, FS_EmptySet
  <2>3. Cardinality(D1) = Cardinality(D) - 1 /\ Cardinality(D) > 0
    <3>1. u \in D /\ D1 = D \ {u} /\ IsFiniteSet(D)
      BY <1>3, <2>1
    <3>2. Cardinality(D) \in Nat /\ Cardinality(D1) \in Nat
      BY <1>3
    <3> HIDE DEF D, D1
    <3>3. Cardinality(D \ {u}) = Cardinality(D) - 1
      BY <3>1, FS_RemoveElement
    <3> QED
      BY <3>1, <3>2, <3>3
  <2>4. Cardinality(T1) <= Cardinality(Keys)
    BY <1>2, <2>1, OneDirectory
  <2>5. /\ Listing * Cardinality(D1) = Listing * Cardinality(D) - Listing
        /\ Listing * Cardinality(D) \in Nat
    BY <1>3, <2>3, Multiples
  <2>6. Listing = 1 + Cardinality(Keys)
    BY DEF Listing
  <2> HIDE DEF D, T, D1, T1
  <2> QED
    BY <1>3, <1>4, <2>2, <2>4, <2>5, <2>6
<1>6. ASSUME NEW s \in Slots, ReadKey(r, s)
      PROVE  Left(r)' < Left(r)
  <2>1. s \in T /\ T1 = T \ {s} /\ D1 = D
    BY <1>6, <1>1 DEF ReadKey, Local, Typed, Scan
  <2>2. Cardinality(T1) = Cardinality(T) - 1
    BY <1>3, <2>1, FS_RemoveElement
  <2>3. Listing * Cardinality(D) \in Nat /\ Listing * Cardinality(D1) = Listing * Cardinality(D)
    BY <1>3, <2>1, Multiples
  <2> HIDE DEF D, T, D1, T1
  <2> QED
    BY <1>3, <1>4, <2>2, <2>3
<1> QED
  BY <1>5, <1>6

LEMMA HandleLowers ==
  ASSUME Local, NEW r \in Requests, Handle(r)
  PROVE  Left(r)' < Left(r)
<1>1. Local'
  BY LocalStep DEF Next
<1>2. /\ scan[r] \in Scan /\ scan'[r] \in Scan
      /\ Left(r) = StepsFrom(pc[r], scan[r]) /\ Left(r)' = StepsFrom(pc'[r], scan'[r])
  BY <1>1 DEF Local, Typed, Left, StepsFrom
<1>3. CASE GetKey(r)
  BY <1>2, <1>3, Costs DEF GetKey, ErrorPage, GoTo, Local, Typed
<1>4. CASE WriteJson(r)
  BY <1>2, <1>4, Costs DEF WriteJson, ErrorPage, GoTo, Local, Typed
<1>5. CASE WritePub(r)
  BY <1>2, <1>5, Costs DEF WritePub, ErrorPage, ToRender, GoTo, Local, Typed
<1>6. CASE RemoveJson(r)
  BY <1>2, <1>6, Costs DEF RemoveJson, ErrorPage, GoTo, Local, Typed
<1>7. CASE RemovePub(r)
  BY <1>2, <1>7, Costs DEF RemovePub, ErrorPage, ToRender, GoTo, Local, Typed
<1>8. CASE ReadUsersDir(r)
  <2>1. CASE pc'[r] = "idle"
    BY <1>2, <1>8, <2>1, Costs DEF ReadUsersDir, Local, Typed
  <2>2. CASE pc'[r] # "idle"
    <3>1. pc'[r] = "scan" /\ scan'[r].dirs = userDirs /\ scan'[r].todo = {}
      BY <1>8, <2>2 DEF ReadUsersDir, Respond, GoTo, Local, Typed, Ready, Scan, NoScan
    <3>2. Cardinality(scan'[r].todo) = 0
      BY <3>1, FS_EmptySet
    <3>3. /\ Cardinality(userDirs) \in Nat /\ Cardinality(Users) \in Nat
          /\ Cardinality(userDirs) <= Cardinality(Users)
      BY SizesOf, FiniteAssumption, FS_CardinalityType DEF Local, Typed
    <3>4. /\ Listing * Cardinality(userDirs) <= Listing * Cardinality(Users)
          /\ Listing * Cardinality(userDirs) \in Nat /\ Listing * Cardinality(Users) \in Nat
      BY <1>2, <3>3, Costs, Multiples
    <3>5. /\ Left(r) = 2 + Listing * Cardinality(Users)
          /\ Left(r)' = 1 + 0 + Listing * Cardinality(userDirs)
      <4>1. pc[r] = "render"
        BY <1>8 DEF ReadUsersDir
      <4> QED
        BY <1>2, <3>1, <3>2, <4>1, Costs
    <3> QED
      BY <3>4, <3>5
  <2> QED
    BY <2>1, <2>2
<1>9. CASE (\E u \in Users : ListUser(r, u)) \/ (\E s \in Slots : ReadKey(r, s))
  BY <1>9, RenderLowers
<1>10. CASE Publish(r) \/ Page(r)
  BY <1>2, <1>10, Costs DEF Publish, Scanned, Page, Respond, GoTo, Local, Typed
<1> QED
  BY <1>3, <1>4, <1>5, <1>6, <1>7, <1>8, <1>9, <1>10 DEF Handle

\* Another request, or a new one, leaves a handler where it is; a kill ends it.
LEMMA OthersKeepOut ==
  ASSUME Local, Next, NEW r \in Requests, pc[r] # "idle", ~Handle(r)
  PROVE  pc'[r] = "idle" \/ UNCHANGED <<pc[r], req[r], scan[r]>>
<1> USE DEF Local, Typed, GoTo
<1>1. ASSUME NEW q \in Requests, Arrive(q)
      PROVE  UNCHANGED <<pc[r], req[r], scan[r]>>
  BY <1>1 DEF Arrive, View, Add, Modify, Change
<1>2. ASSUME NEW q \in Requests \ {r}, Handle(q)
      PROVE  UNCHANGED <<pc[r], req[r], scan[r]>>
  <2>1. CASE GetKey(q) \/ WriteJson(q) \/ WritePub(q) \/ RemoveJson(q) \/ RemovePub(q)
    BY <2>1 DEF GetKey, WriteJson, WritePub, RemoveJson, RemovePub, ErrorPage, ToRender
  <2>2. CASE ReadUsersDir(q) \/ Publish(q) \/ Page(q)
    BY <2>2 DEF ReadUsersDir, Publish, Page, Respond
  <2>3. CASE (\E u \in Users : ListUser(q, u)) \/ (\E s \in Slots : ReadKey(q, s))
    BY <2>3 DEF ListUser, ReadKey
  <2> QED
    BY <1>2, <2>1, <2>2, <2>3 DEF Handle
<1>3. Kill => pc'[r] = "idle"
  BY DEF Kill
<1> QED
  BY <1>1, <1>2, <1>3 DEF Next

(* Every step of a handler brings its answer nearer, whatever others add   *)
(* to the directories it walks and whichever call fails: no handler waits  *)
(* or starts over, so EveryRequestAnswered needs nothing but that the      *)
(* runtime lets it run.                                                    *)
THEOREM HandlersAdvance == Spec => RequestsAdvance
<1> DEFINE Advances(r) ==
      pc[r] # "idle" =>
        IF Handle(r) THEN Left(r)' < Left(r)
        ELSE pc'[r] = "idle" \/ UNCHANGED <<pc[r], req[r], scan[r]>>
<1>1. ASSUME Local, Next, NEW r \in Requests
      PROVE  Advances(r)
  BY <1>1, HandleLowers, OthersKeepOut
<1>2. Local /\ [Next]_vars => [\A r \in Requests : Advances(r)]_vars
  BY <1>1
<1>3. Spec => []Local
  BY InitLocal, LocalStep, PTL DEF Spec
<1> QED
  BY <1>2, <1>3, PTL DEF Spec, RequestsAdvance

-----------------------------------------------------------------------------
(* The fingerprint a record is filed under.                                *)

\* The name of a record, and of one that a handler is about to write, is the
\* fingerprint of the first key in its text.
Filed ==
  /\ \A s \in Slots : Has(json, s) => FirstKey[json[s].text] = s[2]
  /\ \A r \in Requests : pc[r] \in {"json", "pub"} => FirstKey[req[r].text] = req[r].slot[2]

LEMMA FiledArrives ==
  ASSUME Local, Filed, NEW r \in Requests, Arrive(r)
  PROVE  Filed'
<1> USE DEF Local, Typed, Filed, Has, GoTo
<1>1. ASSUME NEW u \in Users, View(r, u)
      PROVE  Filed'
  BY <1>1 DEF View, files
<1>2. ASSUME NEW u \in Users, NEW t \in Texts, Add(r, u, t)
      PROVE  Filed'
  BY <1>2 DEF Add, Change
<1>3. ASSUME NEW u \in Users, NEW o \in {"enable", "disable", "delete"},
             NEW k \in Keys \cup {NoKey}, Modify(r, u, o, k)
      PROVE  Filed'
  BY <1>3 DEF Modify, Change
<1> QED
  BY <1>1, <1>2, <1>3 DEF Arrive

LEMMA FiledHandled ==
  ASSUME Local, Filed, NEW r \in Requests, Handle(r)
  PROVE  Filed'
<1> USE DEF Local, Typed, Filed, Has, GoTo
<1>1. CASE GetKey(r)
  <2>1. CASE pc'[r] = "json"
    <3>1. /\ Has(json, req[r].slot) /\ req[r].slot \in Slots /\ json' = json
          /\ req' = [req EXCEPT ![r].text = json[req[r].slot].text]
          /\ pc' = [pc EXCEPT ![r] = "json"]
      BY <1>1, <2>1 DEF GetKey, ErrorPage, Ready, files
    <3>2. req[r] \in Request
      BY <1>1 DEF GetKey
    <3>3. req'[r].text = json[req[r].slot].text /\ req'[r].slot = req[r].slot
      BY <3>1, <3>2 DEF Request
    <3> QED
      BY <3>1, <3>3
  <2>2. CASE pc'[r] # "json"
    BY <1>1, <2>2 DEF GetKey, ErrorPage, files
  <2> QED
    BY <2>1, <2>2
<1>2. CASE WriteJson(r)
  <2>1. CASE json' = json
    BY <1>2, <2>1 DEF WriteJson, ErrorPage
  <2>2. CASE json' # json
    <3>1. /\ json' = [json EXCEPT ![req[r].slot] =
                       [text |-> req[r].text, enabled |-> req[r].op # "disable"]]
          /\ FirstKey[req[r].text] = req[r].slot[2] /\ req' = req
          /\ pc' = [pc EXCEPT ![r] = "pub"]
          /\ pc[r] = "json"
      BY <1>2, <2>2 DEF WriteJson
    <3> QED
      BY <3>1
  <2> QED
    BY <2>1, <2>2
<1>3. CASE WritePub(r)
  BY <1>3 DEF WritePub, ErrorPage, ToRender
<1>4. CASE RemoveJson(r) \/ RemovePub(r)
  BY <1>4 DEF RemoveJson, RemovePub, ErrorPage, ToRender
<1>5. CASE ReadUsersDir(r) \/ Publish(r) \/ Page(r)
  BY <1>5 DEF ReadUsersDir, Publish, Page, Respond, files
<1>6. CASE (\E u \in Users : ListUser(r, u)) \/ (\E s \in Slots : ReadKey(r, s))
  BY <1>6 DEF ListUser, ReadKey, files
<1> QED
  BY <1>1, <1>2, <1>3, <1>4, <1>5, <1>6 DEF Handle

(* However the requests of a user interleave, a record stays under the     *)
(* fingerprint of the first key in its text, the primary key of            *)
(* design-overview.md: an enable that read the record before a delete and  *)
(* writes it after brings back that key and no other.                      *)
THEOREM RecordsStayFiled == Spec => []Filed
<1>1. Init => Filed
  BY DEF Init, Filed
<1>2. Local /\ Filed /\ [Next]_vars => Filed'
  <2>1. Filed /\ UNCHANGED vars => Filed'
    BY DEF Filed, Has, vars, files
  <2>2. Filed /\ Kill => Filed'
    BY DEF Filed, Has, Kill, files
  <2> QED
    BY <2>1, <2>2, FiledArrives, FiledHandled DEF Next
<1>3. Spec => []Local
  BY InitLocal, LocalStep, PTL DEF Spec
<1> QED
  BY <1>1, <1>2, <1>3, PTL DEF Spec

\* No text has a key besides the one that names its record.
SingleKeys == \A t \in Texts : KeysIn[t] \subseteq {FirstKey[t]}

(* Where no text has a second key, and as long as the registry is calm,    *)
(* every key that sshd accepts has an enabled record under its own         *)
(* fingerprint.  AddKey asks for no more than a first key, and renders the *)
(* whole text.                                                             *)
THEOREM AcceptedAreFiled ==
  ASSUME SingleKeys
  PROVE  Spec => [](calm => AcceptedHaveRecords)
<1>1. ASSUME Inv, Filed, calm,
             \A r \in Requests : pc[r] = "idle",
             NEW t \in authKeys, NEW k \in Keys, k \in KeysIn[t]
      PROVE  \E e \in EnabledIn(json) : e[1][2] = k
  <2>1. authKeys = TextsOf(EnabledIn(json))
    BY <1>1 DEF Inv, Serial, InSync
  <2>2. PICK e \in EnabledIn(json) : e[2] = t
    BY <1>1, <2>1 DEF TextsOf
  <2>3. /\ e[1] \in Slots /\ e[2] \in Texts /\ Has(json, e[1])
        /\ json[e[1]] = [text |-> e[2], enabled |-> TRUE]
    BY EntriesOf DEF EnabledIn
  <2>4. FirstKey[t] = e[1][2]
    BY <1>1, <2>2, <2>3 DEF Filed
  <2> QED
    BY <1>1, <2>2, <2>3, <2>4 DEF SingleKeys
<1>2. Inv /\ Filed => (calm => AcceptedHaveRecords)
  BY <1>1 DEF AcceptedHaveRecords
<1> QED
  BY <1>2, Invariant, RecordsStayFiled, PTL
=============================================================================
