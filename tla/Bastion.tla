-------------------------------- MODULE Bastion --------------------------------
(***************************************************************************)
(* The two halves of the bastion that share forwarding.json: the admin     *)
(* pages and the operator, who change it (ForwardingRegistry), and the     *)
(* sshd container, which polls it (SshdEntrypoint).  They run in different *)
(* containers over one volume and have nothing else in common.             *)
(*                                                                         *)
(* SshdEntrypoint lets its file become anything.  Here the file changes as *)
(* the program changes it, so that what a container makes of it can be     *)
(* held against what the admins and the operator asked for.                *)
(***************************************************************************)
EXTENDS ForwardingRegistry

CONSTANTS
  Bad,            \* rules that sshd -t rejects, though ValidateRule accepts them
  MaxGeneration,  \* bound: restartGeneration
  MaxDeaths,      \* bound: ends of sshd or of the container from outside
  MaxMisreads,    \* bound: reads of the file in the container that fail
  MaxArrivals,    \* bound: requests that change the file
  Wanted,         \* bound: the changes that they ask for
  Existing        \* bound: what the file is at first

ASSUME ContainerAssumption ==
  Bad \subseteq Rules /\ MaxDeaths \in Nat /\ MaxMisreads \in Nat

ASSUME GenerationsAssumption == MaxGeneration \in Nat /\ MaxEdits <= MaxGeneration

ASSUME ArrivalsAssumption == MaxArrivals \in Nat /\ Wanted \subseteq Change

VARIABLES
  cmd, conf, new, last, launched,   \* the script
  sshd, running, hup,               \* sshd
  misreads, deaths,
  low, misread, asked, torn,        \* the history that SshdEntrypoint keeps
  arrivals,
  \* History, which no action reads.
  raises,     \* generations that the operator has raised
  restarts,   \* sessions that the script has ended for a generation
  excused     \* a save was stale, or a read of the generation failed

container == <<cmd, conf, new, last, launched, sshd, running, hup, misreads, deaths>>
observed  == <<low, misread, asked, torn>>
counts    == <<raises, restarts, excused>>
all       == <<vars, container, observed, arrivals, counts>>

Enabled(cfg) == {rule \in Rules : [rule |-> rule, enabled |-> TRUE] \in cfg.targets}

\* forwarding.json as Load and EnabledRules return it to the two subcommands.
View ==
  IF file = Broken THEN [ok |-> FALSE, mode |-> "any", rules |-> {}, gen |-> 0]
  ELSE LET cfg == Loaded(file)
       IN  [ok |-> TRUE, mode |-> cfg.mode, rules |-> Enabled(cfg), gen |-> cfg.gen]

Box ==
  INSTANCE SshdEntrypoint WITH file <- View, pc <- cmd, faults <- misreads,
                               MaxFaults <- MaxMisreads

BastionTypeOK ==
  /\ TypeOK
  /\ Box!TypeOK
  /\ arrivals \in 0..MaxArrivals
  /\ raises \in Nat /\ restarts \in Nat /\ excused \in BOOLEAN

BastionInit ==
  /\ Init
  /\ file \in Existing
  /\ Box!Init
  /\ arrivals = 0
  /\ raises = 0 /\ restarts = 0 /\ excused = FALSE

-----------------------------------------------------------------------------

\* A request to change the file comes, and its handler goes on.
Request(r) ==
  /\ arrivals < MaxArrivals
  /\ arrivals' = arrivals + 1
  /\ Arrive(r)
  /\ req'[r] \in Wanted
  /\ UNCHANGED <<container, observed, counts>>

Handle(r) ==
  /\ Load(r) \/ Save(r)
  /\ Box!Observe
  /\ excused' = (excused \/ (pc[r] = "save" /\ stale[r]))
  /\ UNCHANGED <<container, arrivals, raises, restarts>>

\* An operator's change; only he raises the generation on purpose.
Operate ==
  /\ OperatorEdit
  /\ Box!Observe
  /\ raises' = raises + (IF View'.gen > View.gen THEN 1 ELSE 0)
  /\ UNCHANGED <<container, arrivals, restarts, excused>>

\* A command of the script, and what it sets off in its surroundings.
Run(A) ==
  /\ UNCHANGED <<vars, arrivals>>
  /\ A
  /\ restarts' = restarts + (IF Box!Restarting THEN 1 ELSE 0)
  /\ excused' = (excused \/ misread')
  /\ UNCHANGED raises

RunContainer == Run(Box!Container)

BastionNext ==
  \/ \E r \in Requests : Request(r) \/ Handle(r)
  \/ Operate
  \/ RunContainer

BastionSpec == BastionInit /\ [][BastionNext]_all

\* The container is scheduled as in SshdEntrypoint.  Nothing makes a handler go
\* on, and nothing has to: the properties are about what is in the file.
FairBastionSpec ==
  /\ BastionSpec
  /\ WF_all(Run(Box!Script))
  /\ WF_all(Run(Box!SshdReady)) /\ WF_all(Run(Box!SshdReload))
  /\ WF_all(Run(Box!Restart))

-----------------------------------------------------------------------------
(* Properties.                                                             *)

\* What SshdEntrypoint supposes of the file is so: the admin pages and the
\* operator are among the writers it allows for, and what is shown of the
\* container there holds here.
ContainerIsOpen == Box!OpenSpec

\* The file, which sshd -t has nothing against, does not allow the target: it is
\* disabled or not listed, or the mode is none.
Revoked(rule) ==
  /\ Box!Sane
  /\ View.mode = "none" \/ (View.mode = "custom" /\ rule \notin View.rules)

Permitted(rule) ==
  running.open = "any" \/ (running.open = "list" /\ rule \in running.rules)

\* A target that an admin has disabled, deleted or shut out with the mode is
\* no longer reachable after a while, on an sshd that is up, unless it is
\* allowed again; whatever else was asked of the file in the same moment.
RevocationTakesEffect ==
  \A rule \in Rules :
    Revoked(rule) ~> (~Revoked(rule) \/ (sshd = "up" /\ ~Permitted(rule)))

Opens(cfg, rule) ==
  cfg.mode \in {"any", ""} \/ [rule |-> rule, enabled |-> TRUE] \in cfg.targets

\* No file, no copy that a handler will save, and no configuration of the
\* container opens the destination.
Shut(rule) ==
  /\ file # Broken => ~Opens(Loaded(file), rule)
  /\ \A r \in Requests : pc[r] = "save" => ~Opens(copy[r], rule)
  /\ Box!Closed(rule)

AskedFor(rule) ==
  \/ edits' # edits /\ View'.ok /\ View'.mode = "any"
  \/ \E r \in Requests :
       /\ pc[r] = "load" /\ pc'[r] = "save"
       /\ IF req[r].op = "mode" THEN req[r].mode = "any"
          ELSE req[r].op \in {"add", "enable"} /\ req[r].rule = rule

\* Nothing but a request for it opens a destination: the operator or an admin
\* who opens everything, or one who adds or enables just this target.  No
\* failure, no broken file, no stale save and no restart does.
OpensOnRequest ==
  [][\A rule \in Rules : Shut(rule) => Shut(rule)' \/ AskedFor(rule)]_all

\* The sessions are ended at most once for every time that the operator raised
\* the generation, as long as no handler wrote back a generation that it had
\* loaded before, and every generation could be read.
OneRestartPerRaise == ~excused => restarts <= raises

\* And a generation raised over the one the script knows does end them, whatever
\* the admin pages save in the meantime: only a stale save takes it back, or an
\* operator who breaks the file.
RaiseEndsSessions ==
  (cmd = "alive" /\ View.gen > last /\ ~excused) ~> (cmd = "exited" \/ excused \/ file = Broken)
=============================================================================
