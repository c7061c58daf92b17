-------------------------- MODULE ForwardingRegistry --------------------------
(***************************************************************************)
(* ssh/forwarding.json: the forwarding mode, the target rules and the      *)
(* restart generation.  The admin pages change it, each request in a       *)
(* goroutine of its own: a handler loads the whole file, changes its copy  *)
(* and writes the whole file back, with no lock in between.  An operator   *)
(* changes the same file by hand; nothing else raises restartGeneration.   *)
(*                                                                         *)
(* A rule is a value that ValidateRule has passed.  The list of targets is *)
(* a set: its order would only tell apart two targets of one rule, which   *)
(* never come about.  One step is one access to the file: os.ReadFile, or  *)
(* AtomicWrite (Storage.tla).                                              *)
(* A kill of the process only ends handlers, which may happen here at any  *)
(* time anyway: no fairness makes one go on.                               *)
(***************************************************************************)
EXTENDS Naturals

CONSTANTS
  Requests,   \* requests the server handles at the same time
  Rules,      \* rules that ValidateRule accepts
  Absent,     \* no forwarding.json
  Broken,     \* one that cannot be read or decoded, or with an invalid mode
  MaxEdits,   \* bound: changes by the operator
  MaxFaults   \* bound: reads and writes that fail

ASSUME NoFileAssumption ==
  {Absent, Broken} \cap [mode : {"any", "none", "custom", "", "Custom"},
                         targets : SUBSET [rule : Rules, enabled : BOOLEAN],
                         gen : Nat] = {}

ASSUME BoundsAssumption == MaxEdits \in Nat /\ MaxFaults \in Nat

VARIABLES
  file,       \* what forwarding.json holds
  pc,         \* pc[r]: what the handler of r does next
  req,        \* req[r]: the change it was asked for
  copy,       \* copy[r]: its copy of the file
  edits, faults,
  stale       \* history: stale[r], the file was written since r loaded it

vars == <<file, pc, req, copy, edits, faults, stale>>

Modes == {"any", "none", "custom"}

\* What an operator may write where ParseMode, which lowers and trims, is
\* content; the page offers Modes.
FileModes == Modes \cup {"", "Custom"}

Target == [rule : Rules, enabled : BOOLEAN]

Config == [mode : FileModes, targets : SUBSET Target, gen : Nat]

DefaultConfig == [mode |-> "any", targets |-> {}, gen |-> 0]

Change ==
  [op : {"mode"}, mode : Modes] \cup
  [op : {"add", "enable", "disable", "delete"}, rule : Rules]

Idle == [op |-> "none"]

Of(cfg, rule) == {t \in cfg.targets : t.rule = rule}

HasRule(cfg, rule) == Of(cfg, rule) # {}

Unique(cfg) == \A s, t \in cfg.targets : s.rule = t.rule => s = t

TypeOK ==
  /\ file \in Config \cup {Absent, Broken}
  /\ pc \in [Requests -> {"idle", "load", "save"}]
  /\ req \in [Requests -> Change \cup {Idle}]
  /\ \A r \in Requests : pc[r] = "idle" <=> req[r] = Idle
  /\ copy \in [Requests -> Config]
  /\ edits \in 0..MaxEdits /\ faults \in 0..MaxFaults
  /\ stale \in [Requests -> BOOLEAN]

Init ==
  /\ file \in {Absent} \cup {f \in [mode : Modes, targets : SUBSET Target, gen : {0}] : Unique(f)}
  /\ pc = [r \in Requests |-> "idle"]
  /\ req = [r \in Requests |-> Idle]
  /\ copy = [r \in Requests |-> DefaultConfig]
  /\ edits = 0 /\ faults = 0
  /\ stale = [r \in Requests |-> FALSE]

-----------------------------------------------------------------------------
(* The functions of the package.                                           *)

\* Mutant of Loaded: an empty mode is left as it is.
LoadedAsWritten(f) == IF f = Absent THEN DefaultConfig ELSE f

Loaded(f) ==
  IF f = Absent THEN DefaultConfig
  ELSE IF f.mode = "" THEN [f EXCEPT !.mode = "any"] ELSE f

\* Mutant of Refused: AddTarget does not look for the rule.
AddNeverRefused(c, cfg) ==
  c.op \in {"enable", "disable", "delete"} /\ ~HasRule(cfg, c.rule)

\* AddTarget refuses what is there, the others what is not.
Refused(c, cfg) ==
  \/ c.op = "add" /\ HasRule(cfg, c.rule)
  \/ c.op \in {"enable", "disable", "delete"} /\ ~HasRule(cfg, c.rule)

\* What UpdateTargetStatus changes: the target it finds first.
Found(cfg, rule) == CHOOSE t \in cfg.targets : t.rule = rule

Added(rule, enabled) == {[rule |-> rule, enabled |-> enabled]}

\* Mutant of Applied: the status is set in the copy that range makes.
AppliedToCopy(c, cfg) ==
  [mode |-> IF c.op = "mode" THEN c.mode ELSE cfg.mode,
   targets |->
     CASE c.op = "add" -> cfg.targets \cup Added(c.rule, TRUE)
       [] c.op = "delete" -> cfg.targets \ Of(cfg, c.rule)
       [] OTHER -> cfg.targets,
   gen |-> cfg.gen]

\* The change c, made to cfg.
Applied(c, cfg) ==
  [mode |-> IF c.op = "mode" THEN c.mode ELSE cfg.mode,
   targets |->
     CASE c.op = "add" -> cfg.targets \cup Added(c.rule, TRUE)
       [] c.op = "delete" -> cfg.targets \ Of(cfg, c.rule)
       [] c.op \in {"enable", "disable"} ->
            (cfg.targets \ {Found(cfg, c.rule)}) \cup Added(c.rule, c.op = "enable")
       [] OTHER -> cfg.targets,
   gen |-> cfg.gen]

-----------------------------------------------------------------------------
(* The handlers.                                                           *)

Fault == faults < MaxFaults /\ faults' = faults + 1

Answered(r) ==
  /\ pc' = [pc EXCEPT ![r] = "idle"]
  /\ req' = [req EXCEPT ![r] = Idle]
  /\ copy' = [copy EXCEPT ![r] = DefaultConfig]

\* handleSetTargetsMode, handleAddTarget, handleEnableTarget,
\* handleDisableTarget, handleDeleteTarget, up to Load.  An invalid mode or
\* rule is answered before that and is no step.
Arrive(r) ==
  /\ pc[r] = "idle"
  /\ \E c \in Change : req' = [req EXCEPT ![r] = c]
  /\ pc' = [pc EXCEPT ![r] = "load"]
  /\ UNCHANGED <<file, copy, edits, faults, stale>>

\* Mutant of Load: a file that cannot be decoded counts as none.
LoadDefaults(r) ==
  /\ pc[r] = "load"
  /\ LET f == IF file = Broken THEN Absent ELSE file
     IN  \/ /\ ~Refused(req[r], Loaded(f))
            /\ copy' = [copy EXCEPT ![r] = Applied(req[r], Loaded(f))]
            /\ pc' = [pc EXCEPT ![r] = "save"]
            /\ UNCHANGED <<req, faults>>
         \/ /\ Refused(req[r], Loaded(f))
            /\ Answered(r)
            /\ UNCHANGED faults
         \/ Fault /\ Answered(r)
  /\ stale' = [stale EXCEPT ![r] = FALSE]
  /\ UNCHANGED <<file, edits>>

\* Load, and the change in memory; a refusal or an error is answered.
Load(r) ==
  /\ pc[r] = "load"
  /\ \/ /\ file # Broken /\ ~Refused(req[r], Loaded(file))
        /\ copy' = [copy EXCEPT ![r] = Applied(req[r], Loaded(file))]
        /\ pc' = [pc EXCEPT ![r] = "save"]
        /\ UNCHANGED <<req, faults>>
     \/ /\ file # Broken /\ Refused(req[r], Loaded(file))
        /\ Answered(r)
        /\ UNCHANGED faults
     \/ /\ file = Broken
        /\ Answered(r)
        /\ UNCHANGED faults
     \/ Fault /\ Answered(r)
  /\ stale' = [stale EXCEPT ![r] = FALSE]
  /\ UNCHANGED <<file, edits>>

\* Save: the answer is a redirect that says the change was made.
Save(r) ==
  /\ pc[r] = "save"
  /\ Answered(r)
  /\ \/ /\ file' = copy[r]
        /\ stale' = [q \in Requests |-> q # r /\ pc[q] = "save"]
        /\ UNCHANGED faults
     \/ /\ Fault
        /\ UNCHANGED <<file, stale>>
  /\ UNCHANGED edits

\* The operator saves the file as it was read, with another mode or a higher
\* generation, or leaves it in a state that Load rejects, to be mended later.
OperatorEdit ==
  /\ edits < MaxEdits
  /\ edits' = edits + 1
  /\ \/ /\ file # Broken
        /\ \E m \in FileModes, up \in 0..1 :
             file' = [(IF file = Absent THEN DefaultConfig ELSE file)
                        EXCEPT !.mode = m, !.gen = @ + up]
     \/ file' = Broken
     \/ file = Broken /\ file' = DefaultConfig
  /\ stale' = [q \in Requests |-> pc[q] = "save"]
  /\ UNCHANGED <<pc, req, copy, faults>>

Next ==
  \/ \E r \in Requests : Arrive(r) \/ Load(r) \/ Save(r)
  \/ OperatorEdit

Spec == Init /\ [][Next]_vars

-----------------------------------------------------------------------------
(* Properties.                                                             *)

Accepted(r) == pc[r] = "save" /\ pc'[r] = "idle" /\ faults' = faults

\* The change c is made in cfg.
MadeIn(c, cfg) ==
  /\ c.op = "mode" => cfg.mode = c.mode
  /\ c.op = "delete" => ~HasRule(cfg, c.rule)
  /\ c.op \in {"add", "enable", "disable"} =>
       [rule |-> c.rule, enabled |-> c.op # "disable"] \in cfg.targets

\* No rule is ever listed twice, though AddTarget looks for it in a copy that
\* other handlers may have made stale.
UniqueRules == file \notin {Absent, Broken} => Unique(file)

\* A change that is acknowledged has been made: its own effect is in the file
\* at that moment, even where it undoes what others did.
OwnChangeLands ==
  [][\A r \in Requests : Accepted(r) => MadeIn(req[r], file')]_vars

\* Where the file was not written since it was loaded, a handler is as good
\* as an atomic change: it was not to be refused, and nothing else changes.
FreshSaveIsAtomic ==
  [][\A r \in Requests : Accepted(r) /\ ~stale[r] =>
       /\ file # Broken /\ ~Refused(req[r], Loaded(file))
       /\ file' = Applied(req[r], Loaded(file))]_vars

-----------------------------------------------------------------------------
(* The inductive invariant behind the three of them.                       *)

\* What a handler is going to write.
CopyReady(r) ==
  pc[r] = "save" =>
    /\ MadeIn(req[r], copy[r])
    /\ ~stale[r] => /\ file # Broken /\ ~Refused(req[r], Loaded(file))
                    /\ copy[r] = Applied(req[r], Loaded(file))

IInv ==
  /\ TypeOK
  /\ UniqueRules
  /\ \A r \in Requests : Unique(copy[r]) /\ CopyReady(r)

-----------------------------------------------------------------------------
(* What the documents say, and the code does not keep.                     *)

\* "ssh/forwarding.json is the source of truth for SSH forwarding
\* restrictions" (design-overview.md): a change of the targets that was
\* acknowledged is undone by no change to another target.
AcceptedChangesStay ==
  [][\A r \in Requests : Accepted(r) /\ req[r].op # "mode" /\ file # Absent =>
       \A rule \in Rules \ {req[r].rule} : HasRule(file, rule) => HasRule(file', rule)]_vars
=============================================================================
