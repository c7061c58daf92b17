----------------------------- MODULE BastionProofs -----------------------------
(***************************************************************************)
(* The admin pages, the operator and the sshd container over one file, for *)
(* any number of handlers, changes and failures: the container's own       *)
(* theorems hold in this composition, and it ends sessions no more often   *)
(* than the operator raised the generation.                                *)
(***************************************************************************)
EXTENDS Bastion, ForwardingRegistryProofs

\* The theorems of the container, about the file that the handlers write.
Proved ==
  INSTANCE SshdEntrypointProofs WITH file <- View, pc <- cmd, faults <- misreads,
                                     MaxFaults <- MaxMisreads

\* Every step of the composition is one of the handlers and of the operator, or
\* none of theirs.
LEMMA HandlersStep == [BastionNext]_all => [Next]_vars
BY DEF BastionNext, Request, Handle, Operate, RunContainer, Run, Next, all, Box!Observe

LEMMA HandlersInvariant == BastionSpec => []IInv
<1>1. BastionInit => Init
  BY DEF BastionInit
<1> QED
  BY <1>1, HandlersStep, Initially, Inductive, PTL DEF BastionSpec

-----------------------------------------------------------------------------
(* ContainerIsOpen: what the handlers and the operator write is a file that*)
(* the container knows.                                                    *)

\* Each generation, in the file or in a copy, has been raised by an edit.
GensBounded ==
  /\ file \notin {Absent, Broken} => file.gen <= edits
  /\ \A r \in Requests : copy[r].gen <= edits

LEMMA NoFileIsConfig == Absent \notin Config /\ Broken \notin Config
BY NoFileAssumption DEF Config, FileModes, Modes, Target

LEMMA DefaultFacts == DefaultConfig \in Config /\ DefaultConfig.gen = 0
BY DEF DefaultConfig, Config, FileModes, Modes

\* Neither the reading nor the changing of a file touches its generation.
LEMMA GenKept ==
  ASSUME NEW cfg \in Config
  PROVE  /\ cfg.gen \in Nat
         /\ Loaded(cfg) \in Config /\ Loaded(cfg).gen = cfg.gen
         /\ Loaded(cfg).mode \in {"any", "none", "custom", "Custom"}
         /\ \A c : Applied(c, cfg).gen = cfg.gen
<1>1. cfg.gen \in Nat
  BY DEF Config
<1>2. /\ Loaded(cfg) \in Config /\ Loaded(cfg).gen = cfg.gen
      /\ Loaded(cfg).mode \in {"any", "none", "custom", "Custom"}
  BY NoFileIsConfig DEF Loaded, Config, FileModes, Modes
<1>3. \A c : Applied(c, cfg).gen = cfg.gen
  BY DEF Applied
<1> QED
  BY <1>1, <1>2, <1>3

LEMMA GensBoundedKept ==
  ASSUME IInv, GensBounded, [Next]_vars
  PROVE  GensBounded'
<1>0. /\ file \in Config \cup {Absent, Broken} /\ copy \in [Requests -> Config]
      /\ req \in [Requests -> Change \cup {Idle}] /\ edits \in Nat
      /\ \A r \in Requests : copy[r].gen \in Nat
  <2>1. copy \in [Requests -> Config]
    BY DEF IInv, TypeOK
  <2>2. edits \in Nat
    BY BoundsAssumption DEF IInv, TypeOK
  <2> QED
    BY <2>1, <2>2, GenKept DEF IInv, TypeOK
<1>1. ASSUME NEW r \in Requests, Arrive(r) PROVE GensBounded'
  BY <1>1 DEF Arrive, GensBounded
<1>2. ASSUME NEW r \in Requests, Load(r) PROVE GensBounded'
  <2>1. UNCHANGED <<file, edits>>
    BY <1>2 DEF Load
  <2>2. Loaded(Absent) = DefaultConfig
    BY DEF Loaded
  <2>4. ASSUME file # Broken
        PROVE  Applied(req[r], Loaded(file)).gen <= edits
    <3>1. file # Absent => Loaded(file) \in Config /\ Loaded(file).gen <= edits
      BY <1>0, <2>4, GenKept DEF GensBounded
    <3>2. file = Absent => Loaded(file) \in Config /\ Loaded(file).gen <= edits
      BY <1>0, <2>2, DefaultFacts
    <3> QED
      BY <3>1, <3>2, GenKept
  <2>5. \A q \in Requests : copy'[q].gen <= edits
    <3>1. \/ copy' = [copy EXCEPT ![r] = Applied(req[r], Loaded(file))] /\ file # Broken
          \/ copy' = [copy EXCEPT ![r] = DefaultConfig]
      BY <1>2 DEF Load, Answered
    <3> QED
      BY <1>0, <2>4, <3>1, DefaultFacts DEF GensBounded
  <2> QED
    BY <2>1, <2>5 DEF GensBounded
<1>3. ASSUME NEW r \in Requests, Save(r) PROVE GensBounded'
  <2>1. edits' = edits /\ (file' = copy[r] \/ file' = file)
    BY <1>3 DEF Save
  <2>2. \A q \in Requests : copy'[q].gen <= edits
    <3>1. copy' = [copy EXCEPT ![r] = DefaultConfig]
      BY <1>3 DEF Save, Answered
    <3> QED
      BY <1>0, <3>1, DefaultFacts DEF GensBounded
  <2> QED
    BY <1>0, <2>1, <2>2 DEF GensBounded
<1>4. CASE OperatorEdit
  <2>1. edits' = edits + 1 /\ copy' = copy
    BY <1>4 DEF OperatorEdit
  <2>2. file' \notin {Absent, Broken} => file'.gen <= edits + 1
    <3>1. CASE file # Broken /\ \E m \in FileModes, up \in 0..1 :
                 file' = [(IF file = Absent THEN DefaultConfig ELSE file)
                            EXCEPT !.mode = m, !.gen = @ + up]
      <4> DEFINE base == IF file = Absent THEN DefaultConfig ELSE file
      <4>1. base \in Config /\ base.gen <= edits
        BY <1>0, <3>1, DefaultFacts DEF GensBounded
      <4> HIDE DEF base
      <4>2. PICK m \in FileModes, up \in 0..1 :
              file' = [base EXCEPT !.mode = m, !.gen = @ + up]
        BY <3>1 DEF base
      <4>3. file'.gen = base.gen + up
        BY <4>1, <4>2 DEF Config
      <4> QED
        BY <1>0, <4>1, <4>3, GenKept
    <3>2. CASE file' = Broken
      BY <3>2
    <3>3. CASE file' = DefaultConfig
      BY <1>0, <3>3, DefaultFacts
    <3> QED
      BY <1>4, <3>1, <3>2, <3>3 DEF OperatorEdit
  <2> QED
    BY <1>0, <2>1, <2>2 DEF GensBounded
<1>5. CASE UNCHANGED vars
  BY <1>5 DEF vars, GensBounded
<1> QED
  BY <1>1, <1>2, <1>3, <1>4, <1>5 DEF Next

LEMMA HandlersBounded == BastionSpec => [](IInv /\ GensBounded)
<1>1. BastionInit => GensBounded
  <2> SUFFICES ASSUME Init PROVE GensBounded
    BY DEF BastionInit
  <2>1. file = Absent \/ file.gen = 0
    BY DEF Init
  <2>2. \A r \in Requests : copy[r].gen = 0
    BY DefaultFacts DEF Init
  <2> QED
    BY <2>1, <2>2 DEF Init, GensBounded
<1>2. IInv /\ GensBounded /\ [BastionNext]_all => GensBounded'
  BY HandlersStep, GensBoundedKept
<1> QED
  BY <1>1, <1>2, HandlersInvariant, PTL DEF BastionSpec

\* The file reads as one that the container allows for.
LEMMA ViewIsFile ==
  ASSUME TypeOK, GensBounded
  PROVE  View \in Box!File
<1>1. CASE file = Broken
  BY <1>1 DEF View, Box!File, Box!Unreadable
<1>2. CASE file # Broken
  <2>1. Loaded(file) \in Config /\ Loaded(file).gen <= edits
        /\ Loaded(file).mode \in {"any", "none", "custom", "Custom"}
    <3>1. CASE file = Absent
      <4>1. Loaded(file) = DefaultConfig
        BY <3>1 DEF Loaded
      <4> QED
        BY <4>1, DefaultFacts, BoundsAssumption DEF TypeOK, DefaultConfig
    <3>2. CASE file # Absent
      <4>1. file \in Config /\ file.gen <= edits
        BY <1>2, <3>2 DEF TypeOK, GensBounded
      <4> QED
        BY <4>1, GenKept
    <3> QED
      BY <3>1, <3>2
  <2>2. Loaded(file).gen \in 0..MaxGeneration
    <3>1. Loaded(file).gen \in Nat /\ edits \in Nat /\ edits <= MaxEdits
      BY <2>1, GenKept, BoundsAssumption DEF TypeOK
    <3> QED
      BY <2>1, <3>1, BoundsAssumption, GenerationsAssumption
  <2>3. Enabled(Loaded(file)) \in SUBSET Rules
    BY DEF Enabled
  <2> QED
    BY <1>2, <2>1, <2>2, <2>3 DEF View, Box!File, Box!Readable, Box!FileModes, Box!Modes
<1> QED
  BY <1>1, <1>2

LEMMA ViewStaysFile == (TypeOK /\ GensBounded => View \in Box!File)'
<1>1. TypeOK /\ GensBounded => View \in Box!File
  BY ViewIsFile
<1> QED
  BY <1>1, PTL

\* Every step of the composition is one of the container, a change of its file,
\* or nothing to it.
LEMMA ContainerStep ==
  ASSUME IInv, GensBounded, IInv', GensBounded', [BastionNext]_all
  PROVE  [Box!OpenNext]_(Box!vars)
<1> USE DEF Box!vars, Box!script, Box!daemon, Box!budget, Box!history, container, observed
<1>1. edits' \in Nat /\ View' \in Box!File
  <2>1. View' \in Box!File
    BY ViewStaysFile DEF IInv
  <2> QED
    BY <2>1, BoundsAssumption DEF IInv, TypeOK
<1>2. ASSUME NEW r \in Requests, Request(r) PROVE UNCHANGED Box!vars
  BY <1>2 DEF Request, Arrive, View
<1>3. ASSUME NEW r \in Requests, Handle(r) PROVE Box!Rewrite
  BY <1>1, <1>3 DEF Handle, Box!Rewrite
<1>4. ASSUME Operate PROVE Box!Rewrite
  BY <1>1, <1>4 DEF Operate, Box!Rewrite
<1>5. ASSUME RunContainer PROVE Box!Container
  BY <1>5 DEF RunContainer, Run
<1>6. CASE UNCHANGED all
  BY <1>6 DEF all, vars, View
<1> QED
  BY <1>2, <1>3, <1>4, <1>5, <1>6 DEF BastionNext, Box!OpenNext

\* Whatever the handlers of /admin/targets and the operator write, and in which
\* order, docker/ssh-entrypoint.sh lives with it as SshdEntrypoint says.
THEOREM ContainerOpen == BastionSpec => ContainerIsOpen
<1>1. BastionInit => Box!Init
  BY DEF BastionInit
<1>2. (IInv /\ GensBounded) /\ (IInv /\ GensBounded)' /\ [BastionNext]_all
        => [Box!OpenNext]_(Box!vars)
  BY ContainerStep
<1> QED
  BY <1>1, <1>2, HandlersBounded, PTL DEF BastionSpec, ContainerIsOpen, Box!OpenSpec

\* What is proved of the container alone therefore holds here.
LEMMA ContainerProved == BastionSpec => Proved!OpenSpec
<1>1. Box!Init <=> Proved!Init
  BY DEF Box!Init, Proved!Init, Box!Readable, Proved!Readable, Box!FileModes, Proved!FileModes,
         Box!Modes, Proved!Modes, Box!NoConf, Proved!NoConf, Box!PolicyOf, Proved!PolicyOf,
         Box!Any, Proved!Any, Box!None, Proved!None
<1>2. [Box!OpenNext]_(Box!vars) <=> [Proved!OpenNext]_(Proved!vars)
  BY DEF Box!LoadMode, Proved!LoadMode, Box!LoadRules, Proved!LoadRules, Box!Generated,
         Proved!Generated, Box!GenerationFails, Proved!GenerationFails, Box!Fault,
         Proved!Fault, Box!Test, Proved!Test, Box!Accepts, Proved!Accepts, Box!Start,
         Proved!Start, Box!ReadFirst, Proved!ReadFirst, Box!GenerationRead,
         Proved!GenerationRead, Box!Alive, Proved!Alive, Box!Poll, Proved!Poll,
         Box!Swap, Proved!Swap, Box!Hup, Proved!Hup, Box!Sleep, Proved!Sleep,
         Box!SshdGone, Proved!SshdGone, Box!SshdReady, Proved!SshdReady, Box!SshdReload,
         Proved!SshdReload, Box!SshdDies, Proved!SshdDies, Box!Stop, Proved!Stop,
         Box!Restart, Proved!Restart, Box!Rewrite, Proved!Rewrite, Box!Observe,
         Proved!Observe, Box!Lowest, Proved!Lowest, Box!Script, Proved!Script,
         Box!Container, Proved!Container, Box!OpenNext, Proved!OpenNext, Box!vars,
         Proved!vars, Box!script, Proved!script, Box!daemon, Proved!daemon, Box!budget,
         Proved!budget, Box!history, Proved!history, Box!PolicyOf, Proved!PolicyOf,
         Box!Any, Proved!Any, Box!None, Proved!None, Box!NoConf, Proved!NoConf,
         Box!Modes, Proved!Modes, Box!FileModes, Proved!FileModes, Box!File,
         Proved!File, Box!Readable, Proved!Readable, Box!Unreadable, Proved!Unreadable
<1> QED
  BY <1>1, <1>2, ContainerOpen, PTL DEF ContainerIsOpen, Box!OpenSpec, Proved!OpenSpec

-----------------------------------------------------------------------------
(* What is shown of the pages alone, and of the container alone.           *)

\* The container and its history leave the pages what they are: every behaviour
\* of the composition is one of ForwardingRegistry.
THEOREM PagesImplemented == BastionSpec => Spec
<1>1. BastionInit => Init
  BY DEF BastionInit
<1> QED
  BY <1>1, HandlersStep, PTL DEF BastionSpec, Spec

\* Next to the container, too, an acknowledged change has landed, a save without
\* another in between is atomic, and no rule is listed twice.
THEOREM PagesKeep == BastionSpec => []UniqueRules /\ OwnChangeLands /\ FreshSaveIsAtomic
BY PagesImplemented, RulesUnique, OwnChangesLand, FreshSavesAreAtomic, PTL

-----------------------------------------------------------------------------
(* BastionTypeOK, Validated.                                               *)

LEMMA Assumed == Proved!RulesAssumption /\ Proved!BoundsAssumption
BY ContainerAssumption, GenerationsAssumption, BoundsAssumption
   DEF Proved!RulesAssumption, Proved!BoundsAssumption

LEMMA ContainerInvariant == BastionSpec => [](Box!TypeOK /\ (cmd = "gen" => launched))
<1>1. Proved!IInv => Box!TypeOK /\ (cmd = "gen" => launched)
  BY DEF Proved!IInv, Proved!Ordered, Proved!TypeOK, Box!TypeOK, Box!File, Proved!File,
         Box!Readable, Proved!Readable, Box!Unreadable, Proved!Unreadable, Box!FileModes,
         Proved!FileModes, Box!Modes, Proved!Modes, Box!Commands, Proved!Commands, Box!Policy,
         Proved!Policy, Box!NoConf, Proved!NoConf
<1> QED
  BY <1>1, ContainerProved, Proved!OpenInductive, Assumed, PTL

\* A rule that an admin page accepted and sshd -t does not can neither take down
\* nor change an sshd that runs.
THEOREM OnlyTestedIsRun == BastionSpec => []Box!Validated
<1>1. Proved!IInv => Box!Validated
  BY DEF Proved!IInv, Proved!Tested, Proved!Usable, Proved!Accepts, Proved!NoConf,
         Box!Validated, Box!Accepts, Box!NoConf
<1> QED
  BY <1>1, ContainerProved, Proved!OpenInductive, Assumed, PTL

LEMMA ContainerTriggered == BastionSpec => Box!RestartOnlyOnTrigger
<1>1. [Proved!Restarting /\ ~misread' => View.gen > low]_(Proved!vars)
        => [Box!Restarting /\ ~misread' => View.gen > low]_(Box!vars)
  BY DEF Box!Restarting, Proved!Restarting, Box!vars, Proved!vars, Box!script, Proved!script,
         Box!daemon, Proved!daemon, Box!budget, Proved!budget, Box!history, Proved!history
<1> QED
  BY <1>1, ContainerProved, Proved!OpenTriggered, Assumed, PTL
     DEF Box!RestartOnlyOnTrigger, Proved!RestartOnlyOnTrigger

LEMMA ContainerQuiet == BastionSpec => Box!SettledStays
<1> DEFINE Outside == View' # View \/ misreads' # misreads \/ deaths' # deaths
<1>1. [Proved!Settled => Proved!Settled' \/ Outside]_(Proved!vars)
        => [Box!Settled => Box!Settled' \/ Outside]_(Box!vars)
  BY DEF Box!Settled, Proved!Settled, Box!Modes, Proved!Modes, Box!PolicyOf, Proved!PolicyOf,
         Box!Any, Proved!Any, Box!None, Proved!None, Box!vars, Proved!vars, Box!script,
         Proved!script, Box!daemon, Proved!daemon, Box!budget, Proved!budget, Box!history,
         Proved!history
<1> QED
  BY <1>1, ContainerProved, Proved!OpenQuiet, Assumed, PTL
     DEF Box!SettledStays, Proved!SettledStays

LEMMA ContainerClosed == BastionSpec => Box!FailsClosed
<1>1. [\A rule \in Rules :
         Proved!Closed(rule) /\ ~Proved!Lists(View, rule) => Proved!Closed(rule)']_(Proved!vars)
        => [\A rule \in Rules :
             Box!Closed(rule) /\ ~Box!Lists(View, rule) => Box!Closed(rule)']_(Box!vars)
  BY DEF Box!Closed, Proved!Closed, Box!Lists, Proved!Lists, Box!Permits, Proved!Permits,
         Box!vars, Proved!vars, Box!script, Proved!script, Box!daemon, Proved!daemon,
         Box!budget, Proved!budget, Box!history, Proved!history
<1> QED
  BY <1>1, ContainerProved, Proved!OpenCloses, Assumed, PTL
     DEF Box!FailsClosed, Proved!FailsClosed

\* Under the admin pages and the operator, the container keeps what is shown of
\* it alone: where sshd's policy comes from, what may end the sessions, that it
\* stays quiet over a quiet file, and that no failure opens a destination.
THEOREM ContainerKeeps ==
  BastionSpec => /\ []Box!PolicyWasAsked
                 /\ Box!RestartOnlyOnTrigger
                 /\ Box!SettledStays
                 /\ Box!FailsClosed
<1>1. Proved!PolicyWasAsked <=> Box!PolicyWasAsked
  BY DEF Proved!PolicyWasAsked, Box!PolicyWasAsked
<1> QED
  BY <1>1, ContainerProved, Proved!OpenAsked, Assumed, ContainerTriggered, ContainerQuiet,
     ContainerClosed, PTL

\* Handlers, file and container keep their types together.
THEOREM BastionTypeCorrect == BastionSpec => []BastionTypeOK
<1> DEFINE Counters == /\ arrivals \in 0..MaxArrivals
                       /\ raises \in Nat /\ restarts \in Nat /\ excused \in BOOLEAN
<1>1. BastionInit => Counters
  <2> SUFFICES ASSUME BastionInit PROVE Counters
    OBVIOUS
  <2>1. arrivals = 0 /\ raises = 0 /\ restarts = 0
    BY DEF BastionInit
  <2>2. excused \in BOOLEAN
    BY DEF BastionInit
  <2> QED
    BY <2>1, <2>2, ArrivalsAssumption
<1>2. ASSUME Counters, Box!TypeOK, [BastionNext]_all PROVE Counters'
  <2>1. CASE RunContainer
    BY <1>2, <2>1 DEF RunContainer, Run
  <2>2. ASSUME NEW r \in Requests, Request(r) PROVE Counters'
    BY <1>2, <2>2, ArrivalsAssumption DEF Request, counts
  <2>3. ASSUME NEW r \in Requests, Handle(r) PROVE Counters'
    BY <1>2, <2>3 DEF Handle
  <2>4. CASE Operate
    BY <1>2, <2>4 DEF Operate
  <2>5. CASE UNCHANGED all
    BY <1>2, <2>5 DEF all, counts
  <2> QED
    BY <1>2, <2>1, <2>2, <2>3, <2>4, <2>5 DEF BastionNext
<1>3. IInv /\ Box!TypeOK /\ Counters => BastionTypeOK
  BY DEF IInv, BastionTypeOK
<1> QED
  BY <1>1, <1>2, <1>3, HandlersInvariant, ContainerInvariant, PTL DEF BastionSpec

-----------------------------------------------------------------------------
(* OneRestartPerRaise.                                                     *)

\* A generation that the script will obey has been raised, and not yet been
\* paid for with a restart.
Due == launched /\ cmd \notin {"last", "exited"} /\ View.gen > last

Counted == ~excused => restarts + (IF Due THEN 1 ELSE 0) <= raises

LEMMA ViewGen ==
  /\ file \in {Absent, Broken} => View.gen = 0
  /\ file \in Config => View.gen = file.gen
<1>1. CASE file = Broken
  BY <1>1, NoFileIsConfig DEF View
<1>2. CASE file # Broken
  <2>1. View.gen = Loaded(file).gen
    BY <1>2 DEF View
  <2>2. file = Absent => Loaded(file) = DefaultConfig
    BY DEF Loaded
  <2> QED
    BY <1>2, <2>1, <2>2, DefaultFacts, GenKept
<1> QED
  BY <1>1, <1>2

LEMMA ViewGenNext ==
  ( /\ file \in {Absent, Broken} => View.gen = 0
    /\ file \in Config => View.gen = file.gen )'
BY ViewGen, PTL

\* A handler changes the generation only with a stale save.
LEMMA HandlersKeepGen ==
  ASSUME IInv, NEW r \in Requests, Handle(r), ~excused'
  PROVE  View'.gen = View.gen
<1>1. CASE file' = file
  BY <1>1 DEF View
<1>2. CASE file' # file
  <2>1. Save(r) /\ file' = copy[r] /\ pc[r] = "save"
    BY <1>2 DEF Handle, Load, Save
  <2>2. ~stale[r]
    BY <2>1 DEF Handle
  <2>3. /\ copy[r] \in Config /\ file # Broken
        /\ copy[r] = Applied(req[r], Loaded(file))
    BY <2>1, <2>2 DEF IInv, TypeOK, CopyReady
  <2>4. Loaded(file) \in Config /\ Loaded(file).gen = View.gen
    <3>1. CASE file = Absent
      BY <3>1, ViewGen, DefaultFacts DEF Loaded
    <3>2. CASE file # Absent
      BY <2>3, <3>2, ViewGen, GenKept DEF IInv, TypeOK
    <3> QED
      BY <3>1, <3>2
  <2>5. View'.gen = file'.gen
    BY <2>1, <2>3, ViewGenNext
  <2> QED
    BY <2>1, <2>3, <2>4, <2>5, GenKept
<1> QED
  BY <1>1, <1>2

LEMMA ContainerNumbers ==
  Box!TypeOK => View.gen \in Nat /\ last \in Nat /\ deaths \in Nat
<1>1. ASSUME NEW f \in Box!File PROVE f.gen \in 0..MaxGeneration
  <2>1. CASE f \in Box!Readable
    BY <2>1 DEF Box!Readable
  <2>2. CASE f = Box!Unreadable
    BY <2>2, GenerationsAssumption DEF Box!Unreadable
  <2> QED
    BY <2>1, <2>2 DEF Box!File
<1>2. Box!TypeOK => View \in Box!File /\ last \in 0..MaxGeneration /\ deaths \in Nat
  BY DEF Box!TypeOK
<1>3. 0..MaxGeneration \subseteq Nat
  BY GenerationsAssumption
<1> QED
  BY <1>1, <1>2, <1>3

LEMMA GenerationNext == (Box!TypeOK => View.gen \in Nat)'
<1>1. Box!TypeOK => View.gen \in Nat
  BY ContainerNumbers
<1> QED
  BY <1>1, PTL

\* A step of the container pays for at most what is due.
LEMMA ContainerCounts ==
  ASSUME Box!TypeOK, cmd = "gen" => launched, Counted, RunContainer,
         restarts \in Nat, raises \in Nat
  PROVE  Counted'
<1> USE DEF Box!script, Box!daemon, Box!budget, Box!history
<1>1. /\ View' = View /\ raises' = raises /\ UNCHANGED vars
      /\ Box!Container
      /\ restarts' = restarts + (IF Box!Restarting THEN 1 ELSE 0)
      /\ excused' = (excused \/ misread')
  BY DEF RunContainer, Run, vars, View
<1>2. View.gen \in Nat /\ last \in Nat /\ deaths \in Nat
  BY ContainerNumbers
<1> SUFFICES ASSUME ~excused'
             PROVE  restarts' + (IF Due' THEN 1 ELSE 0) <= raises'
  BY DEF Counted
<1>3. ~excused /\ ~misread' /\ restarts + (IF Due THEN 1 ELSE 0) <= raises
  BY <1>1 DEF Counted
<1>4. ASSUME ~Box!Restarting, Due' => Due PROVE Counted'
  BY <1>1, <1>3, <1>4 DEF Counted
<1>5. ASSUME NEW g \in {0, View.gen}, Box!GenerationRead(g) PROVE g = View.gen
  BY <1>3, <1>5 DEF Box!GenerationRead
<1>6. ASSUME Box!LoadMode \/ Box!LoadRules \/ Box!Test \/ Box!Alive \/ Box!Swap
             \/ Box!Hup \/ Box!Sleep
      PROVE  ~Box!Restarting /\ (Due' => Due)
  BY <1>1, <1>6 DEF Box!Restarting, Due, Box!LoadMode, Box!LoadRules, Box!Test, Box!Alive,
     Box!Swap, Box!Hup, Box!Sleep, Box!Generated, Box!GenerationFails, Box!SshdGone
<1>7. ASSUME Box!Start \/ Box!ReadFirst PROVE ~Box!Restarting /\ ~Due'
  <2>1. ASSUME Box!ReadFirst PROVE last' = View.gen /\ cmd # "gen"
    BY <1>5, <2>1 DEF Box!ReadFirst
  <2> QED
    BY <1>1, <1>2, <1>7, <2>1 DEF Box!Start, Box!Restarting, Due
<1>8. ASSUME Box!Poll PROVE Counted'
  <2>1. PICK g \in {0, View.gen} :
          /\ Box!GenerationRead(g)
          /\ IF g > last THEN cmd' = "exited"
             ELSE cmd' = "mode" /\ last' = g
    BY <1>8 DEF Box!Poll
  <2>2. g = View.gen
    BY <1>5, <2>1
  <2>3. CASE g > last
    <3>1. Due /\ ~Due' /\ restarts' <= restarts + 1
      BY <1>1, <1>8, <2>1, <2>2, <2>3 DEF Due, Box!Poll
    <3> QED
      BY <1>1, <1>3, <3>1 DEF Counted
  <2>4. CASE ~(g > last)
    <3>1. ~Box!Restarting /\ ~Due'
      BY <1>1, <1>2, <2>1, <2>2, <2>4 DEF Due, Box!Restarting
    <3> QED
      BY <1>4, <3>1
  <2> QED
    BY <2>3, <2>4
<1>9. ASSUME Box!SshdReady \/ Box!SshdReload \/ Box!SshdDies
      PROVE  ~Box!Restarting /\ (Due' => Due)
  BY <1>1, <1>9 DEF Box!Restarting, Due, Box!SshdReady, Box!SshdReload, Box!SshdDies
<1>10. ASSUME Box!Stop \/ Box!Restart PROVE ~Box!Restarting /\ ~Due'
  BY <1>2, <1>10 DEF Box!Restarting, Due, Box!Stop, Box!Restart
<1> QED
  BY <1>1, <1>4, <1>6, <1>7, <1>8, <1>9, <1>10 DEF Box!Container, Box!Script, Counted

\* restartGeneration does what it is for, and the admin pages do not get in its
\* way: no raise ends the sessions twice, for any number of handlers.
THEOREM RestartsAreRaised == BastionSpec => []OneRestartPerRaise
<1>1. BastionInit => Counted
  <2> SUFFICES ASSUME BastionInit PROVE Counted
    OBVIOUS
  <2>1. restarts = 0 /\ raises = 0 /\ launched = FALSE
    BY DEF BastionInit, Box!Init
  <2> QED
    BY <2>1 DEF Counted, Due
<1>2. ASSUME IInv, Box!TypeOK, cmd = "gen" => launched, BastionTypeOK, Box!TypeOK',
             Counted, [BastionNext]_all
      PROVE  Counted'
  <2>1. /\ restarts \in Nat /\ raises \in Nat
        /\ View.gen \in Nat /\ View'.gen \in Nat /\ last \in Nat
    BY <1>2, ContainerNumbers, GenerationNext DEF BastionTypeOK
  <2>2. CASE RunContainer
    BY <1>2, <2>1, <2>2, ContainerCounts
  <2>3. ASSUME NEW r \in Requests, Request(r) PROVE Counted'
    BY <1>2, <2>3 DEF Request, Arrive, View, container, counts, Counted, Due
  <2>4. ASSUME NEW r \in Requests, Handle(r) PROVE Counted'
    <3>1. ~excused' => View'.gen = View.gen
      BY <1>2, <2>4, HandlersKeepGen
    <3>2. /\ UNCHANGED <<container, raises, restarts>>
          /\ excused => excused'
      BY <2>4 DEF Handle
    <3> QED
      BY <1>2, <3>1, <3>2 DEF container, Counted, Due
  <2>5. ASSUME Operate PROVE Counted'
    <3>1. /\ UNCHANGED <<container, restarts, excused>>
          /\ raises' = raises + (IF View'.gen > View.gen THEN 1 ELSE 0)
      BY <2>5 DEF Operate
    <3>2. CASE View'.gen > View.gen
      BY <1>2, <2>1, <3>1, <3>2 DEF container, Counted, Due
    <3>3. CASE ~(View'.gen > View.gen)
      <4>1. Due' => Due
        BY <2>1, <3>1, <3>3 DEF container, Due
      <4> QED
        BY <1>2, <2>1, <3>1, <3>3, <4>1 DEF Counted
    <3> QED
      BY <3>2, <3>3
  <2>6. CASE UNCHANGED all
    BY <1>2, <2>6 DEF all, vars, View, container, counts, Counted, Due
  <2> QED
    BY <1>2, <2>2, <2>3, <2>4, <2>5, <2>6 DEF BastionNext
<1>3. Counted /\ BastionTypeOK => OneRestartPerRaise
  BY DEF Counted, BastionTypeOK, OneRestartPerRaise
<1> QED
  BY <1>1, <1>2, <1>3, HandlersInvariant, ContainerInvariant, BastionTypeCorrect, PTL
     DEF BastionSpec

-----------------------------------------------------------------------------
(* OpensOnRequest.                                                         *)

LEMMA OpensLoaded ==
  ASSUME NEW cfg \in Config, NEW rule
  PROVE  Opens(Loaded(cfg), rule) <=> Opens(cfg, rule)
BY NoFileIsConfig DEF Opens, Loaded, Config

\* A change that does not ask for it opens nothing.
LEMMA OpensApplied ==
  ASSUME NEW cfg \in Config, NEW c \in Change, NEW rule, ~Refused(c, cfg), ~Opens(cfg, rule),
         IF c.op = "mode" THEN c.mode # "any" ELSE c.op \in {"add", "enable"} => c.rule # rule
  PROVE  ~Opens(Applied(c, cfg), rule)
<1>1. CASE c.op = "mode"
  <2>1. Applied(c, cfg).mode = c.mode /\ c.mode \in Modes
    BY <1>1, AppliedParts DEF Change
  <2>2. Applied(c, cfg).targets = cfg.targets
    BY <1>1, TargetsAfter
  <2> QED
    BY <1>1, <2>1, <2>2 DEF Opens, Modes
<1>2. CASE c.op # "mode"
  <2>1. Applied(c, cfg).mode = cfg.mode
    BY <1>2, AppliedParts
  <2>2. [rule |-> rule, enabled |-> TRUE] \notin cfg.targets
    BY DEF Opens
  <2>3. c.op \in {"add", "enable", "disable", "delete"}
    BY <1>2 DEF Change
  <2>4. [rule |-> rule, enabled |-> TRUE] \notin Applied(c, cfg).targets
    <3>1. CASE c.op = "add"
      BY <1>2, <2>2, <3>1, TargetsAfter DEF Added
    <3>2. CASE c.op = "delete"
      BY <2>2, <3>2, TargetsAfter
    <3>3. CASE c.op \in {"enable", "disable"}
      <4>1. ASSUME NEW t \in Added(c.rule, c.op = "enable")
            PROVE  t # [rule |-> rule, enabled |-> TRUE]
        <5>1. t.rule = c.rule /\ t.enabled = (c.op = "enable")
          BY <4>1 DEF Added
        <5>2. c.rule # rule \/ ~t.enabled
          BY <1>2, <3>3, <5>1
        <5> QED
          BY <5>1, <5>2
      <4>2. Applied(c, cfg).targets =
              (cfg.targets \ {Found(cfg, c.rule)}) \cup Added(c.rule, c.op = "enable")
        BY <3>3, TargetsAfter
      <4> QED
        BY <2>2, <4>1, <4>2, Zenon
    <3> QED
      BY <2>3, <3>1, <3>2, <3>3
  <2> QED
    BY <2>1, <2>4 DEF Opens
<1> QED
  BY <1>1, <1>2

LEMMA HandlersShut ==
  ASSUME IInv, NEW rule \in Rules, NEW r \in Requests, Handle(r), Shut(rule), ~AskedFor(rule)
  PROVE  Shut(rule)'
<1>1. Box!Closed(rule)'
  BY DEF Handle, container, Shut, Box!Closed, Box!Permits
<1>2. CASE Load(r)
  <2>1. file' = file
    BY <1>2 DEF Load
  <2>2. ASSUME NEW q \in Requests, pc'[q] = "save" PROVE ~Opens(copy'[q], rule)
    <3>1. CASE q # r
      BY <1>2, <2>2, <3>1 DEF Load, Answered, Shut, IInv, TypeOK
    <3>2. CASE q = r
      <4>1. /\ file # Broken /\ ~Refused(req[r], Loaded(file))
            /\ copy'[r] = Applied(req[r], Loaded(file)) /\ pc[r] = "load"
        BY <1>2, <2>2, <3>2 DEF Load, Answered, IInv, TypeOK
      <4>2. req[r] \in Change
        BY <4>1 DEF IInv, TypeOK
      <4>3. Loaded(file) \in Config /\ ~Opens(Loaded(file), rule)
        BY <4>1, FileIsConfig DEF IInv, Shut
      <4>4. IF req[r].op = "mode" THEN req[r].mode # "any"
            ELSE req[r].op \in {"add", "enable"} => req[r].rule # rule
        BY <2>2, <3>2, <4>1 DEF AskedFor
      <4> QED
        BY <3>2, <4>1, <4>2, <4>3, <4>4, OpensApplied
    <3> QED
      BY <3>1, <3>2
  <2> QED
    BY <1>1, <2>1, <2>2 DEF Shut
<1>3. CASE Save(r)
  <2>1. pc[r] = "save" /\ (file' = file \/ file' = copy[r])
    BY <1>3 DEF Save
  <2>2. copy[r] \in Config
    BY DEF IInv, TypeOK
  <2>3. file' # Broken => ~Opens(Loaded(file'), rule)
    BY <2>1, <2>2, OpensLoaded DEF Shut
  <2>4. \A q \in Requests : pc'[q] = "save" => ~Opens(copy'[q], rule)
    BY <1>3 DEF Save, Answered, Shut, IInv, TypeOK
  <2> QED
    BY <1>1, <2>3, <2>4 DEF Shut
<1> QED
  BY <1>2, <1>3 DEF Handle

LEMMA ViewNext == (file # Broken => View.ok /\ View.mode = Loaded(file).mode)'
<1>1. file # Broken => View.ok /\ View.mode = Loaded(file).mode
  BY DEF View
<1> QED
  BY <1>1, PTL

LEMMA OperatorShut ==
  ASSUME IInv, IInv', NEW rule \in Rules, Operate, Shut(rule), ~AskedFor(rule)
  PROVE  Shut(rule)'
<1>1. Box!Closed(rule)'
  BY DEF Operate, container, Shut, Box!Closed, Box!Permits
<1>2. OperatorEdit /\ edits' # edits
  <2>1. OperatorEdit /\ edits \in Nat
    BY BoundsAssumption DEF Operate, IInv, TypeOK
  <2>2. edits' = edits + 1
    BY <2>1, Zenon DEF OperatorEdit
  <2> QED
    BY <2>1, <2>2
<1>3. \A q \in Requests : pc'[q] = "save" => ~Opens(copy'[q], rule)
  BY <1>2 DEF OperatorEdit, Shut
<1>4. ASSUME file' # Broken PROVE ~Opens(Loaded(file'), rule)
  <2>1. Loaded(file').mode # "any"
    BY <1>2, <1>4, ViewNext DEF AskedFor
  <2>2. file' # DefaultConfig
    <3>1. DefaultConfig.mode = "any" /\ DefaultConfig # Absent
      BY DefaultFacts, NoFileIsConfig DEF DefaultConfig
    <3>2. Loaded(DefaultConfig) = DefaultConfig
      BY <3>1, Zenon DEF Loaded
    <3> QED
      BY <2>1, <3>1, <3>2
  <2>3. file # Broken /\ file # Absent
    <3>1. file # Broken
      BY <1>2, <1>4, <2>2, Zenon DEF OperatorEdit
    <3>2. Loaded(Absent) = DefaultConfig
      BY DEF Loaded
    <3>3. Opens(DefaultConfig, rule)
      BY DEF Opens, DefaultConfig
    <3> QED
      BY <3>1, <3>2, <3>3 DEF Shut
  <2>4. PICK m \in FileModes, up \in 0..1 :
          file # Broken /\ file' = [file EXCEPT !.mode = m, !.gen = @ + up]
    BY <1>2, <1>4, <2>2, <2>3 DEF OperatorEdit
  <2>5. file \in Config /\ file' \in Config
    <3>1. file \in Config /\ file.gen + up \in Nat
      BY <2>3, <2>4 DEF IInv, TypeOK, Config
    <3> QED
      BY <2>4, <3>1 DEF Config
  <2>6. Loaded(file').targets = file.targets /\ Loaded(file).targets = file.targets
    BY <2>4, <2>5, NoFileIsConfig DEF Loaded, Config
  <2>7. Loaded(file').mode \notin {"any", ""}
    BY <2>1, <2>5, GenKept
  <2> QED
    BY <2>4, <2>6, <2>7 DEF Shut, Opens
<1> QED
  BY <1>1, <1>3, <1>4 DEF Shut

\* From the admin's form to the sshd that is told: a destination that is shut
\* opens only when somebody asks for it, for any number of handlers, changes and
\* failures.
THEOREM OpenedOnRequest == BastionSpec => OpensOnRequest
<1> DEFINE Failed == \A rule \in Rules :
                       Box!Closed(rule) /\ ~Box!Lists(View, rule) => Box!Closed(rule)'
<1>1. ASSUME IInv, IInv', [BastionNext]_all, [Failed]_(Box!vars),
             NEW rule \in Rules, Shut(rule), ~AskedFor(rule)
      PROVE  Shut(rule)'
  <2>1. CASE RunContainer
    <3>1. UNCHANGED <<file, pc, copy>>
      BY <2>1 DEF RunContainer, Run, vars
    <3>2. ~Box!Lists(View, rule)
      BY <1>1 DEF Shut, Opens, View, Enabled, Box!Lists
    <3>3. Box!Closed(rule)'
      BY <1>1, <3>2 DEF Shut, Box!Closed, Box!Permits, Box!vars, Box!script, Box!daemon
    <3> QED
      BY <1>1, <3>1, <3>3 DEF Shut, Loaded, Opens
  <2>2. ASSUME NEW r \in Requests, Request(r) PROVE Shut(rule)'
    <3>1. UNCHANGED <<file, copy, conf, new, running>> /\ pc' = [pc EXCEPT ![r] = "load"]
      BY <2>2 DEF Request, Arrive, container
    <3> QED
      BY <1>1, <3>1 DEF Shut, Opens, Loaded, Box!Closed, Box!Permits, IInv, TypeOK
  <2>3. ASSUME NEW r \in Requests, Handle(r) PROVE Shut(rule)'
    BY <1>1, <2>3, HandlersShut
  <2>4. CASE Operate
    BY <1>1, <2>4, OperatorShut
  <2>5. CASE UNCHANGED all
    BY <1>1, <2>5 DEF all, vars, container, Shut, Opens, Loaded, Box!Closed, Box!Permits
  <2> QED
    BY <1>1, <2>1, <2>2, <2>3, <2>4, <2>5 DEF BastionNext
<1>2. IInv /\ IInv' /\ [BastionNext]_all /\ [Failed]_(Box!vars)
        => [\A rule \in Rules : Shut(rule) => Shut(rule)' \/ AskedFor(rule)]_all
  BY <1>1
<1> QED
  BY <1>2, HandlersInvariant, ContainerKeeps, PTL DEF BastionSpec, OpensOnRequest, Box!FailsClosed
=============================================================================
