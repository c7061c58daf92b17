----------------------- MODULE ForwardingRegistryProofs -----------------------
(***************************************************************************)
(* Proofs about ForwardingRegistry, for any requests, rules and bounds.    *)
(*                                                                         *)
(* Everything rests on AppliedIsGood: a change that is not refused keeps a *)
(* configuration without duplicates and is made in the result.  A copy was *)
(* made that way and is not touched again, so it can be saved at any later *)
(* time; only where nothing was written in between (~stale) does it still  *)
(* say what the change makes of the file.                                  *)
(***************************************************************************)
EXTENDS ForwardingRegistry, TLAPS

LEMMA IdleIsNoChange == Idle \notin Change
BY DEF Idle, Change

LEMMA FileIsConfig ==
  ASSUME TypeOK, file # Broken
  PROVE  Loaded(file) \in Config
BY DEF TypeOK, Loaded, Config, FileModes, Modes, DefaultConfig, Target

LEMMA NoFileIsNoConfig == Absent \notin Config /\ Broken \notin Config
BY NoFileAssumption DEF Config, FileModes, Modes, Target

LEMMA LoadedKeepsTargets ==
  ASSUME TypeOK, UniqueRules, file # Broken
  PROVE  Unique(Loaded(file))
BY DEF TypeOK, UniqueRules, Unique, Loaded, Config, DefaultConfig

\* The target that UpdateTargetStatus finds is there.
LEMMA FoundIsThere ==
  ASSUME NEW cfg \in Config, NEW rule, HasRule(cfg, rule)
  PROVE  Found(cfg, rule) \in cfg.targets /\ Found(cfg, rule).rule = rule
<1>1. \E t \in cfg.targets : t.rule = rule
  BY DEF HasRule, Of
<1> QED
  BY <1>1 DEF Found

LEMMA AddedIsOne ==
  ASSUME NEW rule, NEW enabled
  PROVE  \A s, t \in Added(rule, enabled) : s = t /\ s.rule = rule
BY DEF Added

LEMMA UniqueUnion ==
  ASSUME NEW rule, NEW old, NEW added, NEW cfg,
         \A s, t \in old : s.rule = t.rule => s = t,
         \A t \in old : t.rule # rule,
         \A s, t \in added : s = t /\ s.rule = rule,
         cfg.targets = old \cup added
  PROVE  Unique(cfg)
BY DEF Unique

\* Applied touches the mode and the targets only.
LEMMA AppliedParts ==
  ASSUME NEW cfg \in Config, NEW c
  PROVE  Applied(c, cfg) = [mode |-> IF c.op = "mode" THEN c.mode ELSE cfg.mode,
                            targets |-> Applied(c, cfg).targets,
                            gen |-> cfg.gen]
BY DEF Applied

LEMMA TargetsAfter ==
  ASSUME NEW cfg \in Config, NEW c
  PROVE  /\ c.op = "mode" => Applied(c, cfg).targets = cfg.targets
         /\ c.op = "add" =>
              Applied(c, cfg).targets = cfg.targets \cup Added(c.rule, TRUE)
         /\ c.op = "delete" =>
              Applied(c, cfg).targets = cfg.targets \ Of(cfg, c.rule)
         /\ c.op \in {"enable", "disable"} =>
              Applied(c, cfg).targets =
                (cfg.targets \ {Found(cfg, c.rule)}) \cup Added(c.rule, c.op = "enable")
BY DEF Applied

LEMMA AppliedIsConfig ==
  ASSUME NEW cfg \in Config, NEW c \in Change, ~Refused(c, cfg)
  PROVE  Applied(c, cfg) \in Config
<1> DEFINE after == Applied(c, cfg).targets
<1>1. CASE c.op = "mode"
  <2>1. c.mode \in FileModes /\ after = cfg.targets
    BY <1>1, TargetsAfter DEF Change, FileModes
  <2> HIDE DEF after
  <2>2. Applied(c, cfg) = [mode |-> c.mode, targets |-> after, gen |-> cfg.gen]
    BY <1>1, AppliedParts DEF after
  <2> QED
    BY <2>1, <2>2 DEF Config
<1>2. CASE c.op # "mode"
  <2>1. c.rule \in Rules /\ c.op \in {"add", "enable", "disable", "delete"}
    BY <1>2 DEF Change
  <2>2. Added(c.rule, TRUE) \subseteq Target
    BY <2>1 DEF Added, Target
  <2>3. Added(c.rule, c.op = "enable") \subseteq Target
    BY <2>1 DEF Added, Target
  <2>4. cfg.targets \subseteq Target
    BY DEF Config
  <2>5. after \subseteq Target
    <3>1. CASE c.op = "add"
      BY <2>2, <2>4, <3>1, TargetsAfter
    <3>2. CASE c.op = "delete"
      BY <2>4, <3>2, TargetsAfter
    <3>3. CASE c.op \in {"enable", "disable"}
      BY <2>3, <2>4, <3>3, TargetsAfter
    <3> QED
      BY <2>1, <3>1, <3>2, <3>3
  <2> HIDE DEF after
  <2>6. Applied(c, cfg) = [mode |-> cfg.mode, targets |-> after, gen |-> cfg.gen]
    BY <1>2, AppliedParts DEF after
  <2> QED
    BY <2>5, <2>6 DEF Config
<1> QED
  BY <1>1, <1>2

LEMMA AppliedIsUnique ==
  ASSUME NEW cfg \in Config, NEW c \in Change, ~Refused(c, cfg), Unique(cfg)
  PROVE  Unique(Applied(c, cfg))
<1>1. CASE c.op = "mode"
  BY <1>1, TargetsAfter DEF Unique
<1>2. CASE c.op = "add"
  <2>1. \A t \in cfg.targets : t.rule # c.rule
    BY <1>2 DEF Refused, HasRule, Of
  <2>2. Applied(c, cfg).targets = cfg.targets \cup Added(c.rule, TRUE)
    BY <1>2, TargetsAfter
  <2>3. \A t, u \in Added(c.rule, TRUE) : t = u /\ t.rule = c.rule
    BY AddedIsOne
  <2>4. \A t, u \in cfg.targets : t.rule = u.rule => t = u
    BY DEF Unique
  <2> QED
    BY <2>1, <2>2, <2>3, <2>4, UniqueUnion
<1>3. CASE c.op = "delete"
  <2>1. Applied(c, cfg).targets = cfg.targets \ Of(cfg, c.rule)
    BY <1>3, TargetsAfter
  <2> QED
    BY <2>1 DEF Unique
<1>4. CASE c.op \in {"enable", "disable"}
  <2> DEFINE old == Found(cfg, c.rule)
  <2>1. old \in cfg.targets /\ old.rule = c.rule
    BY <1>4, FoundIsThere DEF Refused
  <2>2. Applied(c, cfg).targets = (cfg.targets \ {old}) \cup Added(c.rule, c.op = "enable")
    BY <1>4, TargetsAfter
  <2>3. \A t \in cfg.targets \ {old} : t.rule # c.rule
    BY <2>1 DEF Unique
  <2> QED
    BY <2>2, <2>3, AddedIsOne, UniqueUnion DEF Unique
<1> QED
  BY <1>1, <1>2, <1>3, <1>4 DEF Change

LEMMA AppliedIsMade ==
  ASSUME NEW cfg \in Config, NEW c \in Change, ~Refused(c, cfg)
  PROVE  MadeIn(c, Applied(c, cfg))
<1>1. CASE c.op = "mode"
  BY <1>1, AppliedParts DEF MadeIn
<1>2. CASE c.op = "add"
  <2>1. Applied(c, cfg).targets = cfg.targets \cup Added(c.rule, TRUE)
    BY <1>2, TargetsAfter
  <2> QED
    BY <1>2, <2>1 DEF MadeIn, Added
<1>3. CASE c.op = "delete"
  <2>1. Applied(c, cfg).targets = cfg.targets \ Of(cfg, c.rule)
    BY <1>3, TargetsAfter
  <2> QED
    BY <1>3, <2>1 DEF MadeIn, HasRule, Of
<1>4. CASE c.op \in {"enable", "disable"}
  <2>1. Applied(c, cfg).targets =
          (cfg.targets \ {Found(cfg, c.rule)}) \cup Added(c.rule, c.op = "enable")
    BY <1>4, TargetsAfter
  <2>2. (c.op = "enable") = (c.op # "disable")
    BY <1>4
  <2> QED
    BY <1>4, <2>1, <2>2 DEF MadeIn, Added
<1> QED
  BY <1>1, <1>2, <1>3, <1>4 DEF Change

-----------------------------------------------------------------------------

LEMMA Initially == Init => IInv
<1> SUFFICES ASSUME Init PROVE IInv
  OBVIOUS
<1>1. TypeOK
  <2>1. file \in Config \cup {Absent, Broken}
    <3>1. ASSUME NEW f \in [mode : Modes, targets : SUBSET Target, gen : {0}]
          PROVE  f \in Config
      <4>1. f \in [mode : Modes, targets : SUBSET Target, gen : Nat]
        OBVIOUS
      <4> QED
        BY <4>1 DEF Config, FileModes
    <3> QED
      BY <3>1 DEF Init
  <2>2. DefaultConfig \in Config
    BY DEF DefaultConfig, Config, FileModes, Modes, Target
  <2>3. edits \in 0..MaxEdits /\ faults \in 0..MaxFaults
    BY BoundsAssumption DEF Init
  <2> QED
    BY <2>1, <2>2, <2>3 DEF Init, TypeOK
<1>2. UniqueRules
  BY DEF Init, UniqueRules
<1>3. \A r \in Requests : Unique(copy[r]) /\ CopyReady(r)
  BY DEF Init, Unique, CopyReady, DefaultConfig
<1> QED
  BY <1>1, <1>2, <1>3 DEF IInv

LEMMA ArriveKeeps ==
  ASSUME IInv, NEW r \in Requests, Arrive(r)
  PROVE  IInv'
<1> USE DEF IInv
<1>1. TypeOK'
  BY IdleIsNoChange DEF TypeOK, Arrive
<1>2. UniqueRules'
  BY DEF UniqueRules, Arrive
<1>3. \A q \in Requests : (Unique(copy[q]) /\ CopyReady(q))'
  BY DEF CopyReady, Arrive, TypeOK
<1> QED
  BY <1>1, <1>2, <1>3

LEMMA AnsweredKeepsType ==
  ASSUME TypeOK, NEW r \in Requests, Answered(r)
  PROVE  /\ pc' \in [Requests -> {"idle", "load", "save"}]
         /\ req' \in [Requests -> Change \cup {Idle}]
         /\ \A q \in Requests : pc'[q] = "idle" <=> req'[q] = Idle
         /\ copy' \in [Requests -> Config]
<1>1. DefaultConfig \in Config
  BY DEF DefaultConfig, Config, FileModes, Modes, Target
<1> QED
  BY <1>1 DEF TypeOK, Answered

LEMMA LoadKeeps ==
  ASSUME IInv, NEW r \in Requests, Load(r)
  PROVE  IInv'
<1> USE DEF IInv
<1>1. req[r] \in Change
  BY DEF TypeOK, Load
<1>2. UniqueRules'
  BY DEF UniqueRules, Load
<1>3. CASE /\ file # Broken /\ ~Refused(req[r], Loaded(file))
           /\ copy' = [copy EXCEPT ![r] = Applied(req[r], Loaded(file))]
           /\ pc' = [pc EXCEPT ![r] = "save"]
           /\ UNCHANGED <<req, faults>>
  <2> DEFINE new == Applied(req[r], Loaded(file))
  <2>1. new \in Config /\ Unique(new) /\ MadeIn(req[r], new)
    BY <1>1, <1>3, FileIsConfig, LoadedKeepsTargets, AppliedIsConfig, AppliedIsUnique, AppliedIsMade
  <2> HIDE DEF new
  <2>a. copy' = [copy EXCEPT ![r] = new]
    BY <1>3 DEF new
  <2>2. TypeOK'
    BY <1>3, <2>1, <2>a, IdleIsNoChange DEF TypeOK, Load
  <2>3. Unique(copy[r])' /\ CopyReady(r)'
    BY <1>3, <2>1, <2>a DEF TypeOK, CopyReady, Load, new
  <2>4. ASSUME NEW q \in Requests, q # r
        PROVE  (Unique(copy[q]) /\ CopyReady(q))'
    BY <1>3, <2>a, <2>4 DEF TypeOK, CopyReady, Load
  <2> QED
    BY <1>2, <2>2, <2>3, <2>4
<1>4. CASE Answered(r)
  <2>1. faults' \in 0..MaxFaults /\ stale' \in [Requests -> BOOLEAN]
    BY BoundsAssumption DEF TypeOK, Load, Fault
  <2>2. TypeOK'
    BY <1>4, <2>1, AnsweredKeepsType DEF TypeOK, Load
  <2>3. \A q \in Requests : Unique(copy[q])'
    BY <1>4 DEF TypeOK, Answered, Unique, DefaultConfig
  <2>4. \A q \in Requests : CopyReady(q)'
    BY <1>4 DEF TypeOK, Answered, CopyReady, Load
  <2> QED
    BY <1>2, <2>2, <2>3, <2>4
<1> QED
  BY <1>3, <1>4 DEF Load

LEMMA SaveKeeps ==
  ASSUME IInv, NEW r \in Requests, Save(r)
  PROVE  IInv'
<1> USE DEF IInv
<1>1. faults' \in 0..MaxFaults /\ stale' \in [Requests -> BOOLEAN]
  <2>1. faults' \in 0..MaxFaults
    BY BoundsAssumption DEF TypeOK, Save, Fault
  <2>2. stale' \in [Requests -> BOOLEAN]
    BY Zenon DEF TypeOK, Save
  <2> QED
    BY <2>1, <2>2
<1>2. file' = file \/ file' = copy[r]
  BY DEF Save
<1>3. file' \in Config \cup {Absent, Broken}
  BY <1>2 DEF TypeOK
<1>4. TypeOK'
  BY <1>1, <1>3, AnsweredKeepsType DEF TypeOK, Save
<1>5. UniqueRules'
  BY <1>2 DEF UniqueRules
<1>6. \A q \in Requests : Unique(copy[q])'
  BY DEF TypeOK, Save, Answered, Unique, DefaultConfig
<1>7. ASSUME NEW q \in Requests
      PROVE  CopyReady(q)'
  <2>1. CASE q = r
    BY <2>1 DEF TypeOK, Save, Answered, CopyReady
  <2>2. CASE q # r /\ file' = copy[r] /\ stale' = [p \in Requests |-> p # r /\ pc[p] = "save"]
    BY <2>2 DEF TypeOK, Save, Answered, CopyReady
  <2>3. CASE q # r /\ UNCHANGED <<file, stale>>
    BY <2>3 DEF TypeOK, Save, Answered, CopyReady
  <2> QED
    BY <2>1, <2>2, <2>3 DEF Save
<1> QED
  BY <1>4, <1>5, <1>6, <1>7

LEMMA OperatorEditKeeps ==
  ASSUME IInv, OperatorEdit
  PROVE  IInv'
<1> USE DEF IInv
<1>1. /\ file' \in Config \cup {Absent, Broken}
      /\ UniqueRules'
  <2>1. CASE /\ file # Broken
             /\ \E m \in FileModes, up \in 0..1 :
                  file' = [(IF file = Absent THEN DefaultConfig ELSE file)
                             EXCEPT !.mode = m, !.gen = @ + up]
    <3> DEFINE old == IF file = Absent THEN DefaultConfig ELSE file
    <3>1. old \in Config /\ Unique(old)
      BY <2>1 DEF TypeOK, UniqueRules, Unique, DefaultConfig, Config, FileModes, Modes, Target
    <3>2. PICK m \in FileModes, up \in 0..1 : file' = [old EXCEPT !.mode = m, !.gen = @ + up]
      BY <2>1
    <3> HIDE DEF old
    <3>3. old.gen + up \in Nat
      BY <3>1 DEF Config
    <3>4. file' \in Config /\ file'.targets = old.targets
      BY <3>1, <3>2, <3>3 DEF Config
    <3> QED
      BY <3>1, <3>4 DEF UniqueRules, Unique
  <2>2. CASE file' = Broken
    BY <2>2 DEF UniqueRules
  <2>3. CASE file' = DefaultConfig
    BY <2>3 DEF UniqueRules, Unique, DefaultConfig, Config, FileModes, Modes, Target
  <2> QED
    BY <2>1, <2>2, <2>3 DEF OperatorEdit
<1>2. edits' \in 0..MaxEdits /\ stale' \in [Requests -> BOOLEAN]
  <2>1. edits < MaxEdits /\ edits' = edits + 1
    BY Zenon DEF OperatorEdit
  <2>2. stale' \in [Requests -> BOOLEAN]
    BY Zenon DEF OperatorEdit
  <2> QED
    BY <2>1, <2>2, BoundsAssumption DEF TypeOK
<1>3. TypeOK'
  BY <1>1, <1>2 DEF TypeOK, OperatorEdit
<1>4. \A q \in Requests : (Unique(copy[q]) /\ CopyReady(q))'
  BY DEF CopyReady, OperatorEdit
<1> QED
  BY <1>1, <1>3, <1>4

\* No step disturbs the invariant.
LEMMA Inductive ==
  ASSUME IInv, [Next]_vars
  PROVE  IInv'
<1>1. ASSUME NEW r \in Requests, Arrive(r) PROVE IInv'
  BY <1>1, ArriveKeeps
<1>2. ASSUME NEW r \in Requests, Load(r) PROVE IInv'
  BY <1>2, LoadKeeps
<1>3. ASSUME NEW r \in Requests, Save(r) PROVE IInv'
  BY <1>3, SaveKeeps
<1>4. CASE OperatorEdit
  BY <1>4, OperatorEditKeeps
<1>5. CASE UNCHANGED vars
  BY <1>5 DEF vars, IInv, TypeOK, UniqueRules, CopyReady
<1> QED
  BY <1>1, <1>2, <1>3, <1>4, <1>5 DEF Next

-----------------------------------------------------------------------------

\* The invariant of the handlers of /admin/targets: every copy that waits to
\* be written lists no rule twice and has the change in it, and is what the
\* change makes of the file where the file was not written meanwhile.
THEOREM Invariance == Spec => []IInv
<1>1. Init => IInv
  BY Initially
<1>2. IInv /\ [Next]_vars => IInv'
  BY Inductive
<1> QED
  BY <1>1, <1>2, PTL DEF Spec

\* The file, the copies and the requests keep their types.
THEOREM TypeCorrect == Spec => []TypeOK
<1>1. IInv => TypeOK
  BY DEF IInv
<1> QED
  BY <1>1, Invariance, PTL

\* AddTarget never lists a rule twice, for any number of overlapping handlers.
THEOREM RulesUnique == Spec => []UniqueRules
<1>1. IInv => UniqueRules
  BY DEF IInv
<1> QED
  BY <1>1, Invariance, PTL

LEMMA AcceptedSaves ==
  ASSUME IInv, [Next]_vars, NEW r \in Requests, Accepted(r)
  PROVE  Save(r) /\ file' = copy[r]
<1>1. pc[r] = "save" /\ pc'[r] = "idle" /\ faults' = faults
  BY DEF Accepted
<1>2. ASSUME NEW q \in Requests, Arrive(q) \/ Load(q) PROVE FALSE
  BY <1>1, <1>2 DEF Arrive, Load, Answered, IInv, TypeOK
<1>3. ASSUME NEW q \in Requests, Save(q) PROVE q = r
  BY <1>1, <1>3 DEF Save, Answered, IInv, TypeOK
<1>4. CASE OperatorEdit \/ UNCHANGED vars
  BY <1>1, <1>4 DEF OperatorEdit, vars
<1>5. Save(r)
  BY <1>2, <1>3, <1>4 DEF Next
<1>6. ~Fault
  BY <1>1, BoundsAssumption DEF Fault, IInv, TypeOK
<1> QED
  BY <1>5, <1>6 DEF Save

\* A change that a handler acknowledges is in the file at that moment, whatever
\* the other handlers and the operator have written.
THEOREM OwnChangesLand == Spec => OwnChangeLands
<1>1. ASSUME IInv, [Next]_vars, NEW r \in Requests, Accepted(r)
      PROVE  MadeIn(req[r], file')
  BY <1>1, AcceptedSaves DEF IInv, CopyReady, Accepted
<1>2. IInv /\ [Next]_vars =>
        [\A r \in Requests : Accepted(r) => MadeIn(req[r], file')]_vars
  BY <1>1
<1> QED
  BY <1>2, Invariance, PTL DEF Spec, OwnChangeLands

\* Where nothing was written between its load and its save, a handler changes
\* the file as one atomic step would.
THEOREM FreshSavesAreAtomic == Spec => FreshSaveIsAtomic
<1>1. ASSUME IInv, [Next]_vars, NEW r \in Requests, Accepted(r), ~stale[r]
      PROVE  /\ file # Broken /\ ~Refused(req[r], Loaded(file))
             /\ file' = Applied(req[r], Loaded(file))
  BY <1>1, AcceptedSaves DEF IInv, CopyReady, Accepted
<1>2. IInv /\ [Next]_vars =>
        [\A r \in Requests : Accepted(r) /\ ~stale[r] =>
           /\ file # Broken /\ ~Refused(req[r], Loaded(file))
           /\ file' = Applied(req[r], Loaded(file))]_vars
  BY <1>1
<1> QED
  BY <1>2, Invariance, PTL DEF Spec, FreshSaveIsAtomic

-----------------------------------------------------------------------------
(* What a fresh save leaves alone: the other side of the lost updates.     *)

\* Only what the change c is about differs between the two.
Untouched(c, before, after) ==
  /\ after.gen = before.gen
  /\ c.op # "mode" => after.mode = before.mode
  /\ \A rule \in Rules : c.op = "mode" \/ rule # c.rule => Of(after, rule) = Of(before, rule)

LEMMA AppliedTouchesOne ==
  ASSUME NEW cfg \in Config, NEW c \in Change, ~Refused(c, cfg)
  PROVE  Untouched(c, cfg, Applied(c, cfg))
<1> DEFINE after == Applied(c, cfg)
<1>1. after.gen = cfg.gen /\ (c.op # "mode" => after.mode = cfg.mode)
  BY AppliedParts
<1>2. ASSUME NEW rule \in Rules, c.op = "mode" \/ rule # c.rule
      PROVE  Of(after, rule) = Of(cfg, rule)
  <2>1. CASE c.op = "mode"
    BY <2>1, TargetsAfter DEF Of
  <2>2. CASE c.op = "add"
    <3>1. after.targets = cfg.targets \cup Added(c.rule, TRUE)
      BY <2>2, TargetsAfter
    <3> QED
      BY <1>2, <2>2, <3>1, AddedIsOne DEF Of
  <2>3. CASE c.op = "delete"
    <3>1. after.targets = cfg.targets \ Of(cfg, c.rule)
      BY <2>3, TargetsAfter
    <3> QED
      BY <1>2, <2>3, <3>1 DEF Of
  <2>4. CASE c.op \in {"enable", "disable"}
    <3>1. after.targets =
            (cfg.targets \ {Found(cfg, c.rule)}) \cup Added(c.rule, c.op = "enable")
      BY <2>4, TargetsAfter
    <3>2. Found(cfg, c.rule).rule = c.rule
      BY <2>4, FoundIsThere DEF Refused
    <3>3. \A t \in Added(c.rule, c.op = "enable") : t.rule = c.rule
      BY AddedIsOne
    <3>4. rule # c.rule
      BY <1>2, <2>4
    <3> HIDE DEF after
    <3> QED
      BY <3>1, <3>2, <3>3, <3>4 DEF Of
  <2> QED
    BY <2>1, <2>2, <2>3, <2>4 DEF Change
<1> QED
  BY <1>1, <1>2 DEF Untouched

\* Only a stale save undoes what others did: any other leaves every target but
\* its own, the generation, and a mode it was not asked for, as it found them.
THEOREM FreshSavesUndoNothing ==
  Spec => [][\A r \in Requests : Accepted(r) /\ ~stale[r] =>
               Untouched(req[r], Loaded(file), file')]_vars
<1>1. ASSUME IInv, [Next]_vars, NEW r \in Requests, Accepted(r), ~stale[r]
      PROVE  Untouched(req[r], Loaded(file), file')
  <2>1. /\ file # Broken /\ ~Refused(req[r], Loaded(file))
        /\ file' = Applied(req[r], Loaded(file))
    BY <1>1, AcceptedSaves DEF IInv, CopyReady, Accepted
  <2>2. req[r] \in Change /\ Loaded(file) \in Config
    BY <1>1, <2>1, FileIsConfig DEF IInv, TypeOK, Accepted
  <2> QED
    BY <2>1, <2>2, AppliedTouchesOne
<1>2. IInv /\ [Next]_vars =>
        [\A r \in Requests : Accepted(r) /\ ~stale[r] =>
           Untouched(req[r], Loaded(file), file')]_vars
  BY <1>1
<1> QED
  BY <1>2, Invariance, PTL DEF Spec
=============================================================================
