---------------------------- MODULE SshdEntrypoint ----------------------------
(***************************************************************************)
(* The sshd container: docker/ssh-entrypoint.sh, the two subcommands that  *)
(* it runs (sshd-config and forwarding-restart-generation), sshd and the   *)
(* orchestrator that starts the container again after it ends.             *)
(*                                                                         *)
(* The script generates sshd_config from ssh/forwarding.json, starts sshd  *)
(* and polls the file: a raised restartGeneration ends the container, a    *)
(* new configuration that sshd -t accepts replaces the old one, with a     *)
(* SIGHUP.  Meanwhile the admin pages and an operator change the file      *)
(* (ForwardingRegistry.tla).                                               *)
(*                                                                         *)
(* Of sshd_config only PermitOpen matters here: a policy.  sshd itself,    *)
(* its signals and its configuration test are external.                    *)
(***************************************************************************)
EXTENDS Naturals, FiniteSets

CONSTANTS
  Rules,      \* target rules
  Bad,        \* those among them that sshd -t rejects
  MaxGeneration, \* bound: restartGeneration
  MaxEdits,   \* bound: changes of forwarding.json
  MaxFaults,  \* bound: reads of forwarding.json that fail
  MaxDeaths   \* bound: ends of sshd or of the container from outside

ASSUME RulesAssumption == Bad \subseteq Rules

ASSUME BoundsAssumption ==
  /\ MaxGeneration \in Nat
  /\ MaxEdits \in Nat /\ MaxFaults \in Nat /\ MaxDeaths \in Nat

VARIABLES
  file,       \* forwarding.json
  pc,         \* the next command of the script
  conf,       \* the policy in /tmp/sshd_config
  new,        \* the policy in /tmp/sshd_config.new
  last,       \* last_restart_generation
  launched,   \* the script has started sshd
  sshd,       \* the sshd master process
  running,    \* the policy that it applies to new connections
  hup,        \* a SIGHUP is pending
  edits, faults, deaths,
  \* History, which no action reads.
  low,        \* the lowest generation in a readable file since the container
              \* started, MaxGeneration without one
  misread,    \* a read of the generation has failed since then
  asked,      \* the policies that the file has called for
  torn        \* the file changed between the two reads of a sshd-config

script  == <<pc, conf, new, last, launched>>
daemon  == <<sshd, running, hup>>
budget  == <<edits, faults, deaths>>
history == <<low, misread, asked, torn>>
vars    == <<file, script, daemon, budget, history>>

Modes == {"any", "none", "custom"}

\* "Custom" stands for what ParseMode lowers or trims to one of Modes.
FileModes == Modes \cup {"Custom"}

\* ok: the file can be read and decoded.  rules: the enabled ones.
Readable ==
  [ok : {TRUE}, mode : FileModes, rules : SUBSET Rules, gen : 0..MaxGeneration]

\* A file that cannot be read or decoded says nothing.
Unreadable == [ok |-> FALSE, mode |-> "any", rules |-> {}, gen |-> 0]

File == Readable \cup {Unreadable}

Any == [open |-> "any", rules |-> {}]
None == [open |-> "none", rules |-> {}]
NoConf == [open |-> "no", rules |-> {}]

Policy == [open : {"any", "none", "list"}, rules : SUBSET Rules]

PolicyOf(m, rules) ==
  IF m = "any" THEN Any
  ELSE IF m = "none" \/ rules = {} THEN None
  ELSE [open |-> "list", rules |-> rules]

\* sshd -t
Accepts(p) == p.rules \cap Bad = {}

Commands == {"mode", "rules", "test", "start", "last", "alive", "gen", "swap",
             "hup", "sleep", "exited"}

TypeOK ==
  /\ file \in File
  /\ pc \in Commands
  /\ conf \in Policy \cup {NoConf}
  /\ new \in Policy \cup {NoConf}
  /\ running \in Policy \cup {NoConf}
  /\ last \in 0..MaxGeneration /\ low \in 0..MaxGeneration
  /\ sshd \in {"down", "starting", "up"}
  /\ launched \in BOOLEAN /\ hup \in BOOLEAN
  /\ misread \in BOOLEAN /\ torn \in BOOLEAN
  /\ edits \in Nat /\ faults \in Nat /\ deaths \in Nat
  /\ asked \subseteq Policy

Init ==
  /\ file \in {f \in Readable : f.mode \in Modes}
  /\ pc = "mode"
  /\ conf = NoConf /\ new = NoConf /\ running = NoConf
  /\ last = 0 /\ low = file.gen
  /\ launched = FALSE
  /\ sshd = "down" /\ hup = FALSE
  /\ edits = 0 /\ faults = 0 /\ deaths = 0
  /\ misread = FALSE
  /\ asked = {PolicyOf(file.mode, file.rules)}
  /\ torn = FALSE

-----------------------------------------------------------------------------
(* sshd-config: runSSHDConfig loads the file for the mode, and EnabledRules*)
(* loads it again for the rules.                                           *)

\* The subcommand fails: set -e ends a script that is still booting, the loop
\* keeps the previous configuration and removes sshd_config.new.
GenerationFails ==
  /\ pc' = (IF launched THEN "sleep" ELSE "exited")
  /\ UNCHANGED <<conf, new>>

\* Mutant of Generated: the loop does not compare with what is in force.
GeneratedUncompared(p) ==
  \/ ~launched /\ pc' = "test" /\ conf' = p /\ UNCHANGED new
  \/ launched /\ pc' = "test" /\ new' = p /\ UNCHANGED conf

\* Standard output goes to sshd_config at boot, and to sshd_config.new in the
\* loop, which cmp and rm drop where the policy is in force already.
Generated(p) ==
  \/ ~launched /\ pc' = "test" /\ conf' = p /\ UNCHANGED new
  \/ launched /\ p # conf /\ pc' = "test" /\ new' = p /\ UNCHANGED conf
  \/ launched /\ p = conf /\ pc' = "sleep" /\ UNCHANGED <<conf, new>>

Fault == faults < MaxFaults /\ faults' = faults + 1 /\ UNCHANGED <<edits, deaths>>

\* Mutant of LoadMode: a file that cannot be loaded opens everything.
LoadModeFailsOpen ==
  /\ pc = "mode"
  /\ \/ /\ file.ok /\ file.mode \in {"any", "none"}
        /\ Generated(PolicyOf(file.mode, {}))
        /\ UNCHANGED budget
     \/ file.ok /\ file.mode = "custom" /\ pc' = "rules" /\ UNCHANGED <<conf, new, budget>>
     \/ (~file.ok \/ file.mode \notin Modes) /\ Generated(Any) /\ UNCHANGED budget
     \/ Fault /\ Generated(Any)
  /\ UNCHANGED <<file, last, launched, daemon, history>>

LoadMode ==
  /\ pc = "mode"
  /\ \/ /\ file.ok /\ file.mode \in {"any", "none"}
        /\ Generated(PolicyOf(file.mode, {}))
        /\ UNCHANGED budget
     \/ file.ok /\ file.mode = "custom" /\ pc' = "rules" /\ UNCHANGED <<conf, new, budget>>
     \/ (~file.ok \/ file.mode \notin Modes) /\ GenerationFails /\ UNCHANGED budget
     \/ Fault /\ GenerationFails
  /\ UNCHANGED <<file, last, launched, daemon, history>>

LoadRules ==
  /\ pc = "rules"
  /\ \/ file.ok /\ Generated(PolicyOf("custom", file.rules)) /\ UNCHANGED budget
     \/ ~file.ok /\ GenerationFails /\ UNCHANGED budget
     \/ Fault /\ GenerationFails
  /\ UNCHANGED <<file, last, launched, daemon, history>>

-----------------------------------------------------------------------------
(* The script.                                                             *)

\* The sshd process ends.
SshdGone == sshd' = "down" /\ hup' = FALSE /\ running' = NoConf

\* Mutant of Test: the loop does not ask sshd -t.
TestAtBootOnly ==
  /\ pc = "test"
  /\ pc' = IF launched THEN "swap" ELSE IF Accepts(conf) THEN "start" ELSE "exited"
  /\ UNCHANGED <<file, conf, new, last, launched, daemon, budget, history>>

\* sshd -t, on the file that was just written; the loop removes a bad one.
Test ==
  /\ pc = "test"
  /\ \/ ~launched /\ pc' = (IF Accepts(conf) THEN "start" ELSE "exited") /\ UNCHANGED new
     \/ launched /\ Accepts(new) /\ pc' = "swap" /\ UNCHANGED new
     \/ launched /\ ~Accepts(new) /\ pc' = "sleep" /\ new' = NoConf
  /\ UNCHANGED <<file, conf, last, launched, daemon, budget, history>>

Start ==
  /\ pc = "start"
  /\ pc' = "last"
  /\ launched' = TRUE
  /\ sshd' = "starting"
  /\ UNCHANGED <<file, conf, new, last, running, hup, budget, history>>

\* forwarding-restart-generation, with "|| echo 0".
GenerationRead(g) ==
  \/ file.ok /\ g = file.gen /\ UNCHANGED <<budget, misread>>
  \/ ~file.ok /\ g = 0 /\ misread' = TRUE /\ UNCHANGED budget
  \/ Fault /\ g = 0 /\ misread' = TRUE

\* Mutant of ReadFirst: polling starts from 0.
ReadFirstZero ==
  /\ pc = "last"
  /\ pc' = "alive"
  /\ UNCHANGED <<file, conf, new, last, launched, daemon, budget, history>>

ReadFirst ==
  /\ pc = "last"
  /\ pc' = "alive"
  /\ \E g \in {0, file.gen} : GenerationRead(g) /\ last' = g
  /\ UNCHANGED <<file, conf, new, launched, daemon, low, asked, torn>>

Alive ==
  /\ pc = "alive"
  /\ pc' = IF sshd = "down" THEN "exited" ELSE "gen"
  /\ UNCHANGED <<file, conf, new, last, launched, daemon, budget, history>>

\* Mutant of Poll: the last generation is set before it is compared.
PollSetsLastFirst ==
  /\ pc = "gen"
  /\ \E g \in {0, file.gen} : GenerationRead(g) /\ last' = g
  /\ pc' = "mode"
  /\ UNCHANGED <<file, conf, new, launched, daemon, low, asked, torn>>

\* A generation above the last one ends sshd and the container; any other
\* becomes the last one.
Poll ==
  /\ pc = "gen"
  /\ \E g \in {0, file.gen} :
       /\ GenerationRead(g)
       /\ IF g > last
          THEN /\ pc' = "exited" /\ SshdGone
               /\ UNCHANGED last
          ELSE /\ pc' = "mode" /\ last' = g
               /\ UNCHANGED daemon
  /\ UNCHANGED <<file, conf, new, launched, low, asked, torn>>

\* mv
Swap ==
  /\ pc = "swap"
  /\ pc' = "hup"
  /\ conf' = new /\ new' = NoConf
  /\ UNCHANGED <<file, last, launched, daemon, budget, history>>

\* Mutant of Hup: sshd is not told.
HupForgotten ==
  /\ pc = "hup"
  /\ pc' = "sleep"
  /\ UNCHANGED <<file, conf, new, last, launched, daemon, budget, history>>

\* SIGHUP: it reloads an sshd that is up, and ends one that has not installed
\* its handler yet.
Hup ==
  /\ pc = "hup"
  /\ pc' = "sleep"
  /\ \/ sshd = "starting" /\ SshdGone
     \/ sshd = "up" /\ hup' = TRUE /\ UNCHANGED <<sshd, running>>
     \/ sshd = "down" /\ UNCHANGED daemon
  /\ UNCHANGED <<file, conf, new, last, launched, budget, history>>

Sleep ==
  /\ pc = "sleep"
  /\ pc' = "alive"
  /\ UNCHANGED <<file, conf, new, last, launched, daemon, budget, history>>

-----------------------------------------------------------------------------
(* The surroundings.                                                       *)

Lowest(f) == IF f.ok THEN f.gen ELSE MaxGeneration

\* What the history keeps of a change of the file.
Observe ==
  /\ low' = (IF Lowest(file') < low THEN Lowest(file') ELSE low)
  /\ asked' = (IF file'.ok /\ file'.mode \in Modes
                THEN asked \cup {PolicyOf(file'.mode, file'.rules)} ELSE asked)
  /\ torn' = (torn \/ (pc = "rules" /\ file' # file))
  /\ UNCHANGED misread

SshdReady ==
  /\ sshd = "starting"
  /\ sshd' = "up"
  /\ running' = conf
  /\ UNCHANGED <<file, script, hup, budget, history>>

SshdReload ==
  /\ sshd = "up" /\ hup
  /\ hup' = FALSE
  /\ running' = conf
  /\ UNCHANGED <<file, script, sshd, budget, history>>

SshdDies ==
  /\ deaths < MaxDeaths
  /\ deaths' = deaths + 1
  /\ sshd # "down"
  /\ SshdGone
  /\ UNCHANGED <<file, script, edits, faults, history>>

\* SIGTERM to the container (terminate), or its end by force.
Stop ==
  /\ deaths < MaxDeaths
  /\ deaths' = deaths + 1
  /\ pc # "exited"
  /\ pc' = "exited"
  /\ SshdGone
  /\ UNCHANGED <<file, conf, new, last, launched, edits, faults, history>>

\* The orchestrator starts a container that has ended, with an empty /tmp.
Restart ==
  /\ pc = "exited"
  /\ pc' = "mode"
  /\ conf' = NoConf /\ new' = NoConf
  /\ last' = 0
  /\ launched' = FALSE
  /\ SshdGone
  /\ low' = Lowest(file) /\ misread' = FALSE
  /\ UNCHANGED <<file, budget, asked, torn>>

\* forwarding.json becomes anything: an operator writes what he likes, and an
\* admin page that saves a copy from before may lower the generation.
Rewrite ==
  /\ file' \in File
  /\ edits' \in Nat
  /\ Observe
  /\ UNCHANGED <<script, daemon, faults, deaths>>

Edit == edits < MaxEdits /\ edits' = edits + 1 /\ Rewrite

Script ==
  \/ LoadMode \/ LoadRules \/ Test \/ Start \/ ReadFirst \/ Alive \/ Poll
  \/ Swap \/ Hup \/ Sleep

Container ==
  \/ Script \/ SshdReady \/ SshdReload \/ SshdDies \/ Stop \/ Restart

Next == Container \/ Edit

Spec == Init /\ [][Next]_vars

\* The container next to anything that writes the file, as often as it likes.
OpenNext == Container \/ Rewrite

OpenSpec == Init /\ [][OpenNext]_vars

\* Commands end, sshd starts and handles its signals, and the orchestrator
\* restarts what has ended.
FairSpec ==
  /\ Spec
  /\ WF_vars(Script)
  /\ WF_vars(SshdReady) /\ WF_vars(SshdReload)
  /\ WF_vars(Restart)

-----------------------------------------------------------------------------
(* Properties.                                                             *)

\* sshd only ever reads a configuration that sshd -t accepted: a bad rule in
\* forwarding.json cannot take down or change an sshd that runs.
Validated ==
  /\ launched => Accepts(conf)
  /\ sshd = "up" => Accepts(running) /\ running # NoConf
  /\ pc = "swap" => Accepts(new)

\* Apart from a file that changed between the two loads of one sshd-config,
\* sshd never applies a policy that the file did not call for.
PolicyWasAsked == sshd = "up" /\ ~torn => running \in asked

Restarting == pc = "gen" /\ pc' = "exited" /\ deaths' = deaths

\* The script ends every session only for a generation above one that the file
\* had before while the container ran, unless a read of it failed.
RestartOnlyOnTrigger ==
  [][Restarting /\ ~misread' => file.gen > low]_vars

\* A generation that is raised while the script polls, and stays, is obeyed.
TriggerObeyed ==
  \A g \in 1..MaxGeneration :
    (pc = "alive" /\ file.gen = g /\ g > last) ~> (pc = "exited" \/ file.gen # g)

\* What the file calls for, if every part of the container can use it.
Sane == file.ok /\ file.mode \in Modes /\ Accepts([open |-> "list", rules |-> file.rules])

\* Once the file no longer changes and is sane, sshd is up and applies it,
\* whatever failed before.
Converges ==
  <>[](Sane => sshd = "up" /\ running = PolicyOf(file.mode, file.rules))

\* sshd applies what the file calls for, and the script has seen its generation.
Settled ==
  /\ sshd = "up" /\ ~hup /\ running = conf
  /\ pc \in {"alive", "gen", "mode", "rules", "sleep"}
  /\ file.ok /\ file.mode \in Modes /\ file.gen <= last
  /\ conf = PolicyOf(file.mode, file.rules)
  /\ pc = "rules" => file.mode = "custom"

\* As long as the file stays as it is, and nothing fails from outside, a settled
\* container stays settled: no reload, and no session ends.
SettledStays ==
  [][Settled => Settled' \/ file' # file \/ faults' # faults \/ deaths' # deaths]_vars

Permits(p, rule) == p.open = "any" \/ (p.open = "list" /\ rule \in p.rules)

Lists(f, rule) == f.ok /\ (f.mode = "any" \/ rule \in f.rules)

Closed(rule) == \A p \in {conf, new, running} : ~Permits(p, rule)

\* Nothing that fails opens a destination: one that no configuration permits
\* stays closed while the file does not list it, even if the file cannot be
\* read, or changes between the two loads of a sshd-config.
FailsClosed ==
  [][\A rule \in Rules : Closed(rule) /\ ~Lists(file, rule) => Closed(rule)']_vars

-----------------------------------------------------------------------------
(* The inductive invariant behind Validated, PolicyWasAsked and            *)
(* RestartOnlyOnTrigger.                                                   *)

Usable(p) == p # NoConf /\ Accepts(p)

\* What has been tested by the time that it matters.
Tested ==
  /\ launched => Usable(conf)
  /\ pc = "start" => ~launched /\ Usable(conf)
  /\ pc = "test" => (IF launched THEN new ELSE conf) # NoConf
  /\ pc = "swap" => Usable(new)
  /\ pc \in {"swap", "hup"} => launched
  /\ sshd # "down" => launched
  /\ sshd = "up" => Usable(running)

\* Where every policy comes from.
Sourced ==
  /\ file.ok /\ file.mode \in Modes => PolicyOf(file.mode, file.rules) \in asked
  /\ ~torn => {conf, new, running} \subseteq asked \cup {NoConf}
  /\ pc = "rules" /\ ~torn /\ file.ok => file.mode = "custom"

\* How the generations are ordered.
Ordered ==
  /\ low <= Lowest(file)
  /\ launched /\ pc \notin {"last", "exited"} /\ ~misread => low <= last
  /\ pc \in {"last", "alive", "gen", "sleep"} => launched

IInv == TypeOK /\ Tested /\ Sourced /\ Ordered

-----------------------------------------------------------------------------
(* What the documents say, and the code does not keep.                     *)

\* "Trigger mechanism: increment restartGeneration"
\* (design-ssh-forwarding.md): nothing else makes the script restart.
OnlyTheTriggerRestarts == [][Restarting => file.gen > low]_vars
=============================================================================
