----------------------------- MODULE KeyRegistry -----------------------------
(***************************************************************************)
(* The SSH key pages of the web server and the key registry behind them.   *)
(* net/http runs every request in a goroutine of its own, and the handlers *)
(* share nothing but the data directory: they take no lock.                *)
(*                                                                         *)
(* A key is two files, <fingerprint>.json (the record) and .pub.  A        *)
(* handler that changed them renders authorized_keys/jump, the file that   *)
(* sshd reads, from all the records it can read.  One step here is one     *)
(* call of the file system; that AtomicWrite is one step is what           *)
(* Storage.tla shows.  Any call may fail and the process may be killed     *)
(* between two of them; Serve starts it again without rendering.           *)
(*                                                                         *)
(* Abstracted: a text that a user pastes is a value, of which only the     *)
(* keys in it matter; profile.json always has the same content; a          *)
(* directory may be listed in any order.                                   *)
(***************************************************************************)
EXTENDS Naturals, FiniteSets

CONSTANTS
  Requests,   \* requests the server handles at the same time
  Users,      \* user directory ids
  Keys,       \* fingerprints
  Texts,      \* what may be pasted as a public key
  FirstKey,   \* FirstKey[t]: the key that ssh.ParseAuthorizedKey finds in t
  KeysIn,     \* KeysIn[t]: the keys that sshd accepts once t is a part of its file
  NoKey,      \* no parsable key
  Absent,     \* no such file
  MaxFaults,  \* bound: file system calls that fail
  MaxKills    \* bound: kills of the process

ASSUME TextsAssumption ==
  /\ FirstKey \in [Texts -> Keys \cup {NoKey}]
  /\ KeysIn \in [Texts -> SUBSET Keys]
  /\ \A t \in Texts : FirstKey[t] # NoKey => FirstKey[t] \in KeysIn[t]
  /\ NoKey \notin Keys

ASSUME AbsentAssumption == Absent \notin Texts /\ Absent \notin [text : Texts, enabled : BOOLEAN]

ASSUME BoundsAssumption == MaxFaults \in Nat /\ MaxKills \in Nat

ASSUME FiniteAssumption == IsFiniteSet(Users) /\ IsFiniteSet(Keys)

VARIABLES
  \* The data directory.
  json,       \* json[s]: the record of the key s[2] of the user s[1]
  pub,        \* pub[s]: its .pub file
  userDirs,   \* the directories under users/
  profiles,   \* the users with a profile.json
  authKeys,   \* the texts in authorized_keys/jump
  \* The handlers.
  pc,         \* pc[r]: what the handler of r does next
  req,        \* req[r]: the request
  scan,       \* scan[r]: how far its render has come
  \* Budgets.
  faults, kills,
  \* History, which no action reads.
  hist,       \* hist[r]: entries enabled at some time, and all the time, in its render
  calm        \* no fault, no kill of a change, no two changes at a time so far

files   == <<json, pub, userDirs, profiles, authKeys>>
budget  == <<faults, kills>>
history == <<hist, calm>>
vars    == <<files, pc, req, scan, budget, history>>

Slots == Users \X Keys

Record == [text : Texts, enabled : BOOLEAN]

\* A line of authorized_keys and the record it comes from.
Entries == Slots \X Texts

Request ==
  [op : {"view", "add", "enable", "disable", "delete"},
   slot : Users \X (Keys \cup {NoKey}),
   text : Texts \cup {Absent}]            \* the key text in the handler's memory

NoRequest == [op |-> "none", slot |-> <<>>, text |-> Absent]

Scan ==
  [dirs : SUBSET Users,        \* user directories the render has yet to list
   todo : SUBSET Slots,        \* records it has yet to read
   out : SUBSET Entries,       \* enabled records it has read
   skipped : SUBSET Slots]     \* records it failed to read

NoScan == [dirs |-> {}, todo |-> {}, out |-> {}, skipped |-> {}]

NoHist == [seen |-> {}, kept |-> {}]

TypeOK ==
  /\ json \in [Slots -> Record \cup {Absent}]
  /\ pub \in [Slots -> Texts \cup {Absent}]
  /\ userDirs \subseteq Users /\ profiles \subseteq userDirs
  /\ authKeys \subseteq Texts
  /\ pc \in [Requests -> {"idle", "get", "json", "pub", "rmjson", "rmpub",
                          "render", "scan", "page"}]
  /\ req \in [Requests -> Request \cup {NoRequest}]
  /\ \A r \in Requests : pc[r] \notin {"idle", "render", "scan"} => req[r] \in Request
  /\ scan \in [Requests -> Scan]
  /\ faults \in Nat /\ kills \in Nat
  /\ hist \in [Requests -> [seen : SUBSET Entries, kept : SUBSET Entries]]
  /\ calm \in BOOLEAN

-----------------------------------------------------------------------------

Has(records, s) == records[s] # Absent

\* The entries of the enabled records.
EnabledIn(records) ==
  {e \in Entries : records[e[1]] = [text |-> e[2], enabled |-> TRUE]}

TextsOf(entries) == {e[2] : e \in entries}

PubsMatch ==
  \A s \in Slots : pub[s] = IF Has(json, s) THEN json[s].text ELSE Absent

InSync == PubsMatch /\ authKeys = TextsOf(EnabledIn(json))

\* The handler of r may still change a file that matters here.
Changing(r) == pc[r] \notin {"idle", "page"}

\* Any registry that requests handled one at a time leave behind.
Init ==
  /\ json \in [Slots -> Record \cup {Absent}]
  /\ \A s \in Slots : Has(json, s) => FirstKey[json[s].text] = s[2]
  /\ pub = [s \in Slots |-> IF Has(json, s) THEN json[s].text ELSE Absent]
  /\ authKeys = TextsOf(EnabledIn(json))
  /\ userDirs \in SUBSET Users
  /\ \A s \in Slots : Has(json, s) => s[1] \in userDirs
  /\ profiles = userDirs
  /\ pc = [r \in Requests |-> "idle"]
  /\ req = [r \in Requests |-> NoRequest]
  /\ scan = [r \in Requests |-> NoScan]
  /\ faults = 0 /\ kills = 0
  /\ hist = [r \in Requests |-> NoHist]
  /\ calm = TRUE

-----------------------------------------------------------------------------
(* Helpers of the actions.                                                 *)

GoTo(r, place) == pc' = [pc EXCEPT ![r] = place]

\* The response is sent; the memory of the goroutine goes.
Respond(r) ==
  /\ GoTo(r, "idle")
  /\ req' = [req EXCEPT ![r] = NoRequest]
  /\ scan' = [scan EXCEPT ![r] = NoScan]

\* All that renderKeysPage needs to know: whose page it is.
PageOf(u) == [op |-> "view", slot |-> <<u, NoKey>>, text |-> Absent]

\* renderKeysPage with an error status; which one is left out.
ErrorPage(r) == GoTo(r, "page") /\ req' = [req EXCEPT ![r] = PageOf(@.slot[1])]

\* RenderAuthorizedKeys depends on nothing in the request.
ToRender(r) == GoTo(r, "render") /\ req' = [req EXCEPT ![r] = NoRequest]

NoFault == UNCHANGED budget

\* The call at hand fails.
Fault == faults < MaxFaults /\ faults' = faults + 1 /\ kills' = kills

\* The history, in every step.
Track ==
  /\ hist' = [r \in Requests |->
                IF pc'[r] # "scan" THEN NoHist
                ELSE IF pc[r] # "scan"
                     THEN [seen |-> EnabledIn(json'), kept |-> EnabledIn(json')]
                     ELSE [seen |-> hist[r].seen \cup EnabledIn(json'),
                           kept |-> hist[r].kept \cap EnabledIn(json')]]
  /\ calm' = /\ calm
             /\ faults' = faults
             /\ kills' # kills => \A r \in Requests : ~Changing(r)
             /\ \A q, r \in Requests : Changing(q)' /\ Changing(r)' => q = r

\* ensureUserProfile, whose error is dropped.
EnsureUserProfile(u) ==
  \/ /\ userDirs' = userDirs \cup {u}
     /\ profiles' = profiles \cup {u}
     /\ NoFault
  \/ /\ userDirs' \in {userDirs, userDirs \cup {u}}
     /\ UNCHANGED profiles
     /\ Fault

-----------------------------------------------------------------------------
(* The handlers.                                                           *)

\* handleKeysPage: the page is all there is.
View(r, u) ==
  /\ pc[r] = "idle"
  /\ GoTo(r, "page")
  /\ req' = [req EXCEPT ![r] = PageOf(u)]
  /\ UNCHANGED <<files, scan, budget>>

\* A request to change a key, up to its first call of the registry.  A form or
\* a path that cannot be decoded, and a text with no key, end in an error page.
Change(r, u, o, k, t) ==
  /\ pc[r] = "idle"
  /\ GoTo(r, IF k = NoKey THEN "page" ELSE IF o = "add" THEN "json" ELSE "get")
  /\ req' = [req EXCEPT ![r] = IF k = NoKey THEN PageOf(u)
                               ELSE [op |-> o, slot |-> <<u, k>>, text |-> t]]
  /\ EnsureUserProfile(u)
  /\ UNCHANGED <<json, pub, authKeys, scan>>

\* handleAddKey, with AddKey up to saveKey.
Add(r, u, t) == Change(r, u, "add", FirstKey[t], t)

\* handleEnableKey, handleDisableKey, handleDeleteKey.
Modify(r, u, o, k) == Change(r, u, o, k, Absent)

\* getKey, for UpdateKeyStatus and for DeleteKey.
GetKey(r) ==
  /\ pc[r] = "get"
  /\ LET s == req[r].slot
     IN  \/ /\ Has(json, s) /\ req[r].op = "delete"
            /\ GoTo(r, "rmjson")
            /\ NoFault
            /\ UNCHANGED req
         \/ /\ Has(json, s) /\ req[r].op # "delete"
            /\ GoTo(r, "json")
            /\ req' = [req EXCEPT ![r].text = json[s].text]
            /\ NoFault
         \/ ~Has(json, s) /\ ErrorPage(r) /\ NoFault
         \/ ErrorPage(r) /\ Fault
  /\ UNCHANGED <<files, scan>>

\* saveKey: the record first ...
WriteJson(r) ==
  /\ pc[r] = "json"
  /\ LET s == req[r].slot
     IN  \/ /\ json' = [json EXCEPT ![s] =
                          [text |-> req[r].text, enabled |-> req[r].op # "disable"]]
            /\ userDirs' = userDirs \cup {s[1]}
            /\ GoTo(r, "pub")
            /\ NoFault
            /\ UNCHANGED req
         \/ /\ ErrorPage(r) /\ Fault
            /\ userDirs' \in {userDirs, userDirs \cup {s[1]}}
            /\ UNCHANGED json
  /\ UNCHANGED <<pub, profiles, authKeys, scan>>

WritePubNoRender(r) ==                  \* mutant: redirects without a render
  /\ pc[r] = "pub"
  /\ pub' = [pub EXCEPT ![req[r].slot] = req[r].text]
  /\ Respond(r)
  /\ NoFault
  /\ UNCHANGED <<json, userDirs, profiles, authKeys>>

\* ... then the .pub file.
WritePub(r) ==
  /\ pc[r] = "pub"
  /\ \/ /\ pub' = [pub EXCEPT ![req[r].slot] = req[r].text]
        /\ ToRender(r)
        /\ NoFault
     \/ ErrorPage(r) /\ Fault /\ UNCHANGED pub
  /\ UNCHANGED <<json, userDirs, profiles, authKeys, scan>>

\* DeleteKey after getKey: a file that is gone by now is no error.
RemoveJson(r) ==
  /\ pc[r] = "rmjson"
  /\ \/ /\ json' = [json EXCEPT ![req[r].slot] = Absent]
        /\ GoTo(r, "rmpub")
        /\ NoFault
        /\ UNCHANGED req
     \/ ErrorPage(r) /\ Fault /\ UNCHANGED json
  /\ UNCHANGED <<pub, userDirs, profiles, authKeys, scan>>

RemovePub(r) ==
  /\ pc[r] = "rmpub"
  /\ \/ /\ pub' = [pub EXCEPT ![req[r].slot] = Absent]
        /\ ToRender(r)
        /\ NoFault
     \/ ErrorPage(r) /\ Fault /\ UNCHANGED pub
  /\ UNCHANGED <<json, userDirs, profiles, authKeys, scan>>

-----------------------------------------------------------------------------
(* RenderAuthorizedKeys.  The handler only logs its error, and redirects.  *)

ReadUsersDir(r) ==
  /\ pc[r] = "render"
  /\ \/ /\ GoTo(r, "scan")
        /\ scan' = [scan EXCEPT ![r].dirs = userDirs]
        /\ NoFault
        /\ UNCHANGED req
     \/ Respond(r) /\ Fault
  /\ UNCHANGED files

\* ListKeys: the names in the directory of one user now; the render skips a
\* user whose directory cannot be read.
ListUser(r, u) ==
  /\ pc[r] = "scan" /\ scan[r].todo = {} /\ u \in scan[r].dirs
  /\ \/ /\ scan' = [scan EXCEPT ![r].dirs = @ \ {u},
                                ![r].todo = {s \in Slots : s[1] = u /\ Has(json, s)}]
        /\ NoFault
     \/ /\ scan' = [scan EXCEPT ![r].dirs = @ \ {u},
                                ![r].skipped = @ \cup {s \in Slots : s[1] = u}]
        /\ Fault
  /\ UNCHANGED <<files, pc, req>>

ReadKeyAborts(r, s) ==                  \* mutant: a record that has gone ends the list
  /\ pc[r] = "scan" /\ s \in scan[r].todo
  /\ scan' = [scan EXCEPT ![r].todo = IF Has(json, s) THEN @ \ {s} ELSE {},
                          ![r].out = @ \cup {e \in EnabledIn(json) : e[1] = s}]
  /\ NoFault
  /\ UNCHANGED <<files, pc, req>>

ReadKeyWaits(r, s) ==                   \* mutant: a record that has gone is waited for
  /\ pc[r] = "scan" /\ s \in scan[r].todo /\ Has(json, s)
  /\ scan' = [scan EXCEPT ![r].todo = @ \ {s},
                          ![r].out = @ \cup {e \in EnabledIn(json) : e[1] = s}]
  /\ NoFault
  /\ UNCHANGED <<files, pc, req>>

\* One record, as it is when its turn comes; one that cannot be read or that
\* has gone since is skipped.
ReadKey(r, s) ==
  /\ pc[r] = "scan" /\ s \in scan[r].todo
  /\ \/ /\ scan' = [scan EXCEPT ![r].todo = @ \ {s},
                                ![r].out = @ \cup {e \in EnabledIn(json) : e[1] = s}]
        /\ NoFault
     \/ /\ scan' = [scan EXCEPT ![r].todo = @ \ {s}, ![r].skipped = @ \cup {s}]
        /\ Fault
  /\ UNCHANGED <<files, pc, req>>

\* The render has read all it is going to read.
Scanned(r) == pc[r] = "scan" /\ scan[r].dirs = {} /\ scan[r].todo = {}

PublishAppends(r) ==                    \* mutant: the old lines stay
  /\ Scanned(r)
  /\ Respond(r)
  /\ \/ authKeys' = authKeys \cup TextsOf(scan[r].out) /\ NoFault
     \/ UNCHANGED authKeys /\ Fault
  /\ UNCHANGED <<json, pub, userDirs, profiles>>

PublishRetries(r) ==                    \* mutant: the render starts again
  /\ Scanned(r)
  /\ \/ authKeys' = TextsOf(scan[r].out) /\ Respond(r) /\ NoFault
     \/ ToRender(r) /\ scan' = [scan EXCEPT ![r] = NoScan] /\ UNCHANGED authKeys /\ Fault
  /\ UNCHANGED <<json, pub, userDirs, profiles>>

Publish(r) ==
  /\ Scanned(r)
  /\ Respond(r)
  /\ \/ authKeys' = TextsOf(scan[r].out) /\ NoFault
     \/ UNCHANGED authKeys /\ Fault
  /\ UNCHANGED <<json, pub, userDirs, profiles>>

-----------------------------------------------------------------------------

\* renderKeysPage: the profile again, then the user's own list, whose failure
\* spoils a page that had no error so far; nothing depends on the list.
Page(r) ==
  /\ pc[r] = "page"
  /\ Respond(r)
  /\ EnsureUserProfile(req[r].slot[1])
  /\ UNCHANGED <<json, pub, authKeys>>

\* The process dies with the requests in flight, and is started again.
Kill ==
  /\ kills < MaxKills
  /\ kills' = kills + 1
  /\ pc' = [r \in Requests |-> "idle"]
  /\ req' = [r \in Requests |-> NoRequest]
  /\ scan' = [r \in Requests |-> NoScan]
  /\ UNCHANGED <<files, faults>>

-----------------------------------------------------------------------------

Arrive(r) ==
  /\ \E u \in Users :
       \/ View(r, u)
       \/ \E t \in Texts : Add(r, u, t)
       \/ \E o \in {"enable", "disable", "delete"}, k \in Keys \cup {NoKey} :
            Modify(r, u, o, k)
  /\ Track

Handle(r) ==
  /\ \/ GetKey(r) \/ WriteJson(r) \/ WritePub(r) \/ RemoveJson(r) \/ RemovePub(r)
     \/ ReadUsersDir(r)
     \/ \E u \in Users : ListUser(r, u)
     \/ \E s \in Slots : ReadKey(r, s)
     \/ Publish(r)
     \/ Page(r)
  /\ Track

Next ==
  \/ \E r \in Requests : Arrive(r) \/ Handle(r)
  \/ Kill /\ Track

Spec == Init /\ [][Next]_vars

\* The runtime schedules every goroutine and the system calls return.
FairSpec == Spec /\ \A r \in Requests : WF_vars(Handle(r))

-----------------------------------------------------------------------------
(* Properties.                                                             *)

\* RenderAuthorizedKeys reads the records one by one while other handlers
\* change them.  What it collects has every key that was enabled all the time
\* and that it could read, and no key that was not enabled at any time.
RenderRegular ==
  \A r \in Requests : Scanned(r) =>
    /\ \A e \in hist[r].kept : e \in scan[r].out \/ e[1] \in scan[r].skipped
    /\ scan[r].out \subseteq hist[r].seen

\* A render during which no record changed and no read failed leaves exactly
\* the enabled keys in authorized_keys/jump, whatever was there before: the
\* next undisturbed change heals every earlier disturbance.
UndisturbedRender ==
  [][\A r \in Requests :
       /\ Scanned(r) /\ scan[r].skipped = {} /\ hist[r].seen = hist[r].kept
       /\ pc'[r] = "idle" /\ faults' = faults /\ kills' = kills
       => authKeys' = TextsOf(EnabledIn(json'))]_vars

\* As long as no call failed, no change was killed and no two changes
\* overlapped, every completed request leaves the files of the registry and
\* the file sshd reads in agreement, whichever way it ended.
SerialSync == calm /\ (\A r \in Requests : ~Changing(r)) => InSync

\* The most steps that a handler can still take from a place on, with a render
\* that has come as far as sc.
Listing == 1 + Cardinality(Keys)      \* one directory and the records in it

StepsFrom(place, sc) ==
  LET rendering == 2 + Listing * Cardinality(Users) IN
  CASE place = "idle" -> 0
    [] place = "page" -> 1
    [] place = "scan" -> 1 + Cardinality(sc.todo) + Listing * Cardinality(sc.dirs)
    [] place = "render" -> rendering
    [] place \in {"pub", "rmpub"} -> rendering + 1
    [] place \in {"json", "rmjson"} -> rendering + 2
    [] OTHER -> rendering + 3

Left(r) == StepsFrom(pc[r], scan[r])

\* Every step of a handler brings its answer nearer, for all the directories and
\* records that others add meanwhile; and no other request reaches into it.
RequestsAdvance ==
  [][\A r \in Requests : pc[r] # "idle" =>
       IF Handle(r) THEN Left(r)' < Left(r)
       ELSE pc'[r] = "idle" \/ UNCHANGED <<pc[r], req[r], scan[r]>>]_vars

\* Every request is answered, whatever the others do to the records it reads.
EveryRequestAnswered == \A r \in Requests : pc[r] # "idle" ~> pc[r] = "idle"

-----------------------------------------------------------------------------
(* The inductive invariant behind RenderRegular and SerialSync.            *)

\* What a handler has prepared for its next call.
Prepared ==
  \A r \in Requests :
    /\ pc[r] \in {"get", "json", "pub", "rmjson", "rmpub"} => req[r].slot \in Slots
    /\ pc[r] \in {"json", "pub"} => req[r].text \in Texts
    /\ pc[r] # "scan" => scan[r] = NoScan /\ hist[r] = NoHist

DirsKnown == \A s \in Slots : Has(json, s) => s[1] \in userDirs

\* A render has collected what it should of the part it has been through.
Collected ==
  \A r \in Requests : pc[r] = "scan" =>
    /\ hist[r].kept \subseteq EnabledIn(json)
    /\ EnabledIn(json) \subseteq hist[r].seen
    /\ scan[r].out \subseteq hist[r].seen
    /\ \A e \in hist[r].kept :
         \/ e[1][1] \in scan[r].dirs
         \/ e[1] \in scan[r].todo \cup scan[r].skipped
         \/ e \in scan[r].out

PubsMatchBut(s) ==
  \A z \in Slots \ {s} : pub[z] = IF Has(json, z) THEN json[z].text ELSE Absent

\* Where the one change of a calm registry stands.
Serial ==
  calm =>
    /\ \A q, r \in Requests : Changing(q) /\ Changing(r) => q = r
    /\ (\A r \in Requests : pc[r] \notin {"pub", "rmpub", "render", "scan"}) => InSync
    /\ \A r \in Requests :
         /\ pc[r] = "pub" => /\ PubsMatchBut(req[r].slot)
                             /\ Has(json, req[r].slot)
                             /\ json[req[r].slot].text = req[r].text
         /\ pc[r] = "rmpub" => PubsMatchBut(req[r].slot) /\ ~Has(json, req[r].slot)
         /\ pc[r] \in {"render", "scan"} => PubsMatch
         /\ pc[r] = "scan" => scan[r].skipped = {} /\ hist[r].seen = hist[r].kept

IInv == TypeOK /\ Prepared /\ DirsKnown /\ Collected /\ Serial

-----------------------------------------------------------------------------
(* What the documents say, and the code does not keep.                     *)

\* "a single authorized_keys file ... containing all enabled keys"
\* (design-overview.md): when no request is in flight, it holds them and no
\* others.
AllEnabledRendered ==
  (\A r \in Requests : pc[r] = "idle") => authKeys = TextsOf(EnabledIn(json))

\* "The key registry uses a stable fingerprint as the primary key"
\* (design-overview.md): a key that sshd accepts has an enabled record under
\* its own fingerprint.  The code keeps it only of texts that have no second
\* key (KeyRegistryProofs).
AcceptedHaveRecords ==
  (\A r \in Requests : pc[r] = "idle") =>
    \A t \in authKeys, k \in Keys :
      k \in KeysIn[t] => \E e \in EnabledIn(json) : e[1][2] = k
=============================================================================
