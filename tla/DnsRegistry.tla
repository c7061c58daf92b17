----------------------------- MODULE DnsRegistry -----------------------------
(***************************************************************************)
(* dns/aliases.json and the admin page that changes it.  As in             *)
(* ForwardingRegistry, a handler loads the whole file, changes its copy    *)
(* and writes the whole file back, with no lock in between.  A step is one *)
(* access to the file: os.ReadFile, or AtomicWrite (Storage.tla).          *)
(*                                                                         *)
(* A name is one that validateDNS1123Subdomain accepts, hence in small     *)
(* letters; a request with any other is answered before the file is read,  *)
(* and is no step.  The list is a set: its order would only tell apart two *)
(* aliases of one source.  No file, null and [] are the empty set.         *)
(***************************************************************************)
EXTENDS Naturals

CONSTANTS
  Requests,   \* admin requests the server handles at the same time
  Names,      \* host names
  MaxFaults   \* bound: reads of the file, and writes, that fail

ASSUME FaultsAssumption == MaxFaults \in Nat

VARIABLES
  aliases,    \* what aliases.json holds
  pc,         \* pc[r]: what the handler of r does next
  req,        \* req[r]: the change it was asked for
  copy,       \* copy[r]: its copy of the list
  faults,
  stale       \* history: stale[r], the file was written since r loaded it

registry == <<aliases, pc, req, copy, faults, stale>>

Alias == [source : Names, destination : Names]

Change ==
  [op : {"add"}, alias : Alias] \cup [op : {"delete"}, source : Names]

Idle == [op |-> "none"]

RegistryTypeOK ==
  /\ aliases \subseteq Alias
  /\ pc \in [Requests -> {"idle", "load", "save"}]
  /\ req \in [Requests -> Change \cup {Idle}]
  /\ \A r \in Requests : pc[r] = "idle" <=> req[r] = Idle
  /\ copy \in [Requests -> SUBSET Alias]
  /\ faults \in 0..MaxFaults
  /\ stale \in [Requests -> BOOLEAN]

Of(list, source) == {a \in list : a.source = source}

Unique(list) == \A a, b \in list : a.source = b.source => a = b

RegistryInit ==
  /\ aliases \in {list \in SUBSET Alias : Unique(list)}
  /\ pc = [r \in Requests |-> "idle"]
  /\ req = [r \in Requests |-> Idle]
  /\ copy = [r \in Requests |-> {}]
  /\ faults = 0
  /\ stale = [r \in Requests |-> FALSE]

-----------------------------------------------------------------------------

Fault == faults < MaxFaults /\ faults' = faults + 1

NoFault == UNCHANGED faults

\* Mutant of Refused: a source may be added a second time.
RefusedDeletesOnly(c, list) == c.op = "delete" /\ Of(list, c.source) = {}

\* AddAlias refuses a source that is there, DeleteAlias one that is not.
Refused(c, list) ==
  \/ c.op = "add" /\ Of(list, c.alias.source) # {}
  \/ c.op = "delete" /\ Of(list, c.source) = {}

Applied(c, list) ==
  IF c.op = "add" THEN list \cup {c.alias} ELSE list \ Of(list, c.source)

AnsweredKeepsRequest(r) ==              \* mutant: the request outlives its handler
  /\ pc' = [pc EXCEPT ![r] = "idle"]
  /\ copy' = [copy EXCEPT ![r] = {}]
  /\ UNCHANGED req

Answered(r) ==
  /\ pc' = [pc EXCEPT ![r] = "idle"]
  /\ req' = [req EXCEPT ![r] = Idle]
  /\ copy' = [copy EXCEPT ![r] = {}]

\* handleAddAlias and handleDeleteAlias, up to ListAliases.
Arrive(r) ==
  /\ pc[r] = "idle"
  /\ \E c \in Change : req' = [req EXCEPT ![r] = c]
  /\ pc' = [pc EXCEPT ![r] = "load"]
  /\ UNCHANGED <<aliases, copy, faults, stale>>

\* ListAliases, and the change in memory; the page that a refusal or an error
\* is answered with lists the aliases again, which changes nothing.
Load(r) ==
  /\ pc[r] = "load"
  /\ \/ /\ ~Refused(req[r], aliases)
        /\ copy' = [copy EXCEPT ![r] = Applied(req[r], aliases)]
        /\ pc' = [pc EXCEPT ![r] = "save"]
        /\ UNCHANGED req /\ NoFault
     \/ Refused(req[r], aliases) /\ Answered(r) /\ NoFault
     \/ Answered(r) /\ Fault
  /\ stale' = [stale EXCEPT ![r] = FALSE]
  /\ UNCHANGED aliases

Written(r) ==
  /\ aliases' = copy[r]
  /\ stale' = [q \in Requests |-> q # r /\ pc[q] = "save"]
  /\ NoFault

SaveUnchecked(r) ==                     \* mutant: an error of the write is dropped
  /\ pc[r] = "save"
  /\ Answered(r)
  /\ Written(r) \/ (UNCHANGED <<aliases, stale>> /\ NoFault)

\* saveAliases; a redirect follows where it succeeds.
Save(r) ==
  /\ pc[r] = "save"
  /\ Answered(r)
  /\ Written(r) \/ (UNCHANGED <<aliases, stale>> /\ Fault)

RegistryNext == \E r \in Requests : Arrive(r) \/ Load(r) \/ Save(r)

-----------------------------------------------------------------------------

\* One source never has two destinations, though AddAlias looks for the source
\* in a copy that other handlers may have made stale: the name the proxy
\* resolves never depends on the order of the list.
UniqueSources == Unique(aliases)

Accepted(r) == pc[r] = "save" /\ pc'[r] = "idle" /\ faults' = faults

\* new is old with the change c, which was possible, and nothing else.
MadeExactly(c, old, new) ==
  /\ c.op = "add" => Of(old, c.alias.source) = {} /\ new = old \cup {c.alias}
  /\ c.op = "delete" =>
       Of(old, c.source) # {} /\ new \subseteq old /\ old \ new = Of(old, c.source)

\* A change that is acknowledged is made, and alone, if no other was saved
\* since the handler loaded the list.  Only then: a stale save takes back what
\* others did in between, for want of a lock.
FreshSaveIsAtomic ==
  [][\A r \in Requests :
       Accepted(r) /\ ~stale[r] => MadeExactly(req[r], aliases, aliases')]_registry
=============================================================================
