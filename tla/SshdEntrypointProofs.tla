------------------------- MODULE SshdEntrypointProofs -------------------------
(***************************************************************************)
(* The sshd container for any set of rules and any number of changes,      *)
(* failures and restarts: sshd only applies what sshd -t accepted and what *)
(* the file called for, and the script restarts it only for a generation   *)
(* that was raised.                                                        *)
(***************************************************************************)
EXTENDS SshdEntrypoint, TLAPS

\* Which policies there are, and that sshd accepts a configuration without
\* rules.
LEMMA PolicyFacts ==
  /\ Any \in Policy /\ None \in Policy /\ NoConf \notin Policy
  /\ Accepts(Any) /\ Accepts(None) /\ Accepts(NoConf)
  /\ \A m \in Modes, rules \in SUBSET Rules :
       PolicyOf(m, rules) \in Policy /\ PolicyOf(m, rules) # NoConf
  /\ \A m \in {"any", "none"}, rules \in SUBSET Rules :
       PolicyOf(m, {}) = PolicyOf(m, rules)
  BY DEF Any, None, NoConf, Policy, Accepts, PolicyOf, Modes

LEMMA FileFacts ==
  ASSUME NEW f \in File
  PROVE  /\ f.rules \in SUBSET Rules /\ f.mode \in FileModes
         /\ f.gen \in 0..MaxGeneration
         /\ Lowest(f) \in 0..MaxGeneration
         /\ f.ok => Lowest(f) = f.gen
         /\ f.ok \in BOOLEAN /\ (~f.ok => f.gen = 0 /\ f.mode = "any")
<1>1. CASE f \in Readable
  BY <1>1, BoundsAssumption DEF Readable, Lowest
<1>2. CASE f = Unreadable
  BY <1>2, BoundsAssumption DEF Unreadable, Lowest, FileModes, Modes
<1>. QED
  BY <1>1, <1>2 DEF File

\* What a change leaves in the file and in the history.
LEMMA RewriteWrites ==
  ASSUME TypeOK, Rewrite
  PROVE  /\ file' \in File
         /\ low' \in 0..MaxGeneration /\ low' <= low /\ low' <= Lowest(file')
         /\ asked \subseteq asked'
         /\ asked \subseteq Policy => asked' \subseteq Policy
         /\ file'.ok /\ file'.mode \in Modes => PolicyOf(file'.mode, file'.rules) \in asked'
         /\ torn' \in BOOLEAN /\ (torn => torn') /\ (pc = "rules" /\ file' # file => torn')
<1>1. file' \in File /\ Observe
  BY DEF Rewrite
<1>2. low \in 0..MaxGeneration /\ Lowest(file') \in 0..MaxGeneration
      /\ file'.rules \in SUBSET Rules
  BY <1>1, FileFacts DEF TypeOK
<1>3. low' \in 0..MaxGeneration /\ low' <= low /\ low' <= Lowest(file')
  BY <1>1, <1>2, BoundsAssumption DEF Observe
<1>4. file'.mode \in Modes => PolicyOf(file'.mode, file'.rules) \in Policy
  BY <1>2, PolicyFacts
<1>5. torn' \in BOOLEAN /\ (torn => torn') /\ (pc = "rules" /\ file' # file => torn')
  BY <1>1 DEF Observe, TypeOK
<1>. QED
  BY <1>1, <1>3, <1>4, <1>5 DEF Observe

\* The invariant holds when the container starts for the first time.
LEMMA InitIInv == Init => IInv
<1> SUFFICES ASSUME Init PROVE IInv
  OBVIOUS
<1>1. /\ file \in File /\ file.ok = TRUE /\ file.mode \in Modes
      /\ file.rules \in SUBSET Rules /\ file.gen \in 0..MaxGeneration
  <2>1. file \in Readable /\ file.mode \in Modes
    BY DEF Init
  <2>2. file \in File /\ file.ok = TRUE
    BY <2>1 DEF File, Readable
  <2>. QED
    BY <2>1, <2>2, FileFacts
<1>2. TypeOK
  <2>1. PolicyOf(file.mode, file.rules) \in Policy
    BY <1>1, PolicyFacts
  <2>2. asked \subseteq Policy
    BY <2>1 DEF Init
  <2>3. last \in 0..MaxGeneration /\ low \in 0..MaxGeneration
    BY <1>1, BoundsAssumption DEF Init
  <2>. QED
    BY <1>1, <2>2, <2>3 DEF Init, TypeOK, Commands, Modes
<1>3. Tested
  BY DEF Init, Tested
<1>4. Sourced
  BY <1>1 DEF Init, Sourced
<1>5. Ordered
  BY <1>1, BoundsAssumption DEF Init, Ordered, Lowest
<1>. QED
  BY <1>2, <1>3, <1>4, <1>5 DEF IInv

\* The types are kept: a change writes a file of the type that Load knows, and every
\* generation comes from a file.
LEMMA StepTypeOK == TypeOK /\ [OpenNext]_vars => TypeOK'
<1> SUFFICES ASSUME TypeOK, [OpenNext]_vars PROVE TypeOK'
  OBVIOUS
<1> USE DEF TypeOK, script, daemon, budget, history
<1>0. /\ file.rules \in SUBSET Rules /\ file.gen \in 0..MaxGeneration
      /\ Lowest(file) \in 0..MaxGeneration /\ 0 \in 0..MaxGeneration
  BY FileFacts, BoundsAssumption
<1>1. ASSUME LoadMode PROVE TypeOK'
  BY <1>1, PolicyFacts DEF LoadMode, Generated, GenerationFails, Fault, Commands, Modes
<1>2. ASSUME LoadRules PROVE TypeOK'
  <2>1. file.rules \in SUBSET Rules /\ "custom" \in Modes
    BY <1>0 DEF Modes
  <2>2. PolicyOf("custom", file.rules) \in Policy
    BY <2>1, PolicyFacts
  <2>. QED
    BY <1>2, <2>2 DEF LoadRules, Generated, GenerationFails, Fault, Commands
<1>3. ASSUME Test \/ Start \/ Alive \/ Swap \/ Hup \/ Sleep PROVE TypeOK'
  <2>1. ASSUME Test PROVE TypeOK'
    BY <2>1 DEF Test, Commands
  <2>2. ASSUME Start \/ Alive \/ Swap \/ Sleep PROVE TypeOK'
    BY <2>2 DEF Start, Alive, Swap, Sleep, Commands
  <2>3. ASSUME Hup PROVE TypeOK'
    BY <2>3 DEF Hup, SshdGone, Commands
  <2>. QED
    BY <1>3, <2>1, <2>2, <2>3
<1>4. ASSUME ReadFirst \/ Poll PROVE TypeOK'
  <2>1. 0 \in 0..MaxGeneration /\ file.gen \in 0..MaxGeneration
    BY <1>0
  <2>2. ASSUME NEW g \in {0, file.gen}, GenerationRead(g)
        PROVE  faults' \in Nat /\ misread' \in BOOLEAN /\ edits' \in Nat /\ deaths' \in Nat
    <3>1. faults' \in Nat /\ edits' = edits /\ deaths' = deaths
      BY <2>2 DEF GenerationRead, Fault
    <3>2. misread' \in {misread, TRUE}
      BY <2>2 DEF GenerationRead
    <3>. QED
      BY <3>1, <3>2
  <2>3. ASSUME ReadFirst PROVE TypeOK'
    <3>1. PICK g \in {0, file.gen} : GenerationRead(g) /\ last' = g
      BY <2>3 DEF ReadFirst
    <3>2. pc' \in Commands /\ last' \in 0..MaxGeneration
      BY <2>1, <2>3, <3>1 DEF ReadFirst, Commands
    <3>. QED
      BY <2>2, <2>3, <3>1, <3>2 DEF ReadFirst
  <2>4. ASSUME Poll PROVE TypeOK'
    <3>1. PICK g \in {0, file.gen} :
            /\ GenerationRead(g)
            /\ IF g > last
               THEN /\ pc' = "exited" /\ sshd' = "down" /\ hup' = FALSE
                    /\ running' = NoConf /\ UNCHANGED last
               ELSE /\ pc' = "mode" /\ last' = g
                    /\ UNCHANGED <<sshd, running, hup>>
      BY <2>4 DEF Poll, SshdGone
    <3>2. pc' \in Commands /\ last' \in 0..MaxGeneration /\ sshd' \in {"down", "starting", "up"}
          /\ hup' \in BOOLEAN /\ running' \in {running, NoConf}
      BY <2>1, <3>1 DEF Commands
    <3>. QED
      BY <2>2, <2>4, <3>1, <3>2 DEF Poll
  <2>. QED
    BY <1>4, <2>3, <2>4
<1>5. ASSUME SshdReady \/ SshdReload PROVE TypeOK'
  BY <1>5 DEF SshdReady, SshdReload
<1>9. ASSUME SshdDies \/ Stop PROVE TypeOK'
  <2>1. deaths' \in Nat /\ sshd' = "down" /\ hup' = FALSE /\ running' = NoConf
    BY <1>9 DEF SshdDies, Stop, SshdGone
  <2>2. pc' \in Commands
    BY <1>9 DEF SshdDies, Stop, Commands
  <2>3. /\ UNCHANGED <<file, conf, new, last, launched, edits, faults>>
        /\ UNCHANGED <<low, misread, asked, torn>>
    BY <1>9 DEF SshdDies, Stop, SshdGone
  <2>. QED
    BY <2>1, <2>2, <2>3
<1>6. ASSUME Restart PROVE TypeOK'
  BY <1>0, <1>6 DEF Restart, Commands, SshdGone
<1>7. ASSUME Rewrite PROVE TypeOK'
  <2>1. edits' \in Nat
    BY <1>7 DEF Rewrite
  <2>2. UNCHANGED <<script, daemon, faults, deaths, misread>>
    BY <1>7 DEF Rewrite, Observe
  <2>. QED
    BY <1>7, <2>1, <2>2, RewriteWrites
<1>8. CASE UNCHANGED vars
  BY <1>8 DEF vars
<1>. QED
  BY <1>1, <1>2, <1>3, <1>4, <1>5, <1>6, <1>7, <1>8, <1>9 DEF OpenNext, Container, Script

\* No configuration reaches sshd before it was tested.
LEMMA StepTested == IInv /\ [OpenNext]_vars => Tested'
<1> SUFFICES ASSUME IInv, [OpenNext]_vars PROVE Tested'
  OBVIOUS
<1> USE PolicyFacts DEF IInv, TypeOK, Tested, script, daemon, Usable
<1>1. ASSUME LoadMode PROVE Tested'
  <2>1. \A m \in Modes : PolicyOf(m, {}) # NoConf
    OBVIOUS
  <2>2. Accepts(conf)' <=> Accepts(conf')
    BY DEF Accepts
  <2>. QED
    BY <1>1, <2>1 DEF LoadMode, Generated, GenerationFails, Accepts, Modes
<1>2. ASSUME LoadRules PROVE Tested'
  <2>1. file.rules \in SUBSET Rules
    BY FileFacts
  <2>2. PolicyOf("custom", file.rules) # NoConf
    BY <2>1 DEF Modes
  <2>. QED
    BY <1>2, <2>2 DEF LoadRules, Generated, GenerationFails, Accepts
<1>3. ASSUME Test \/ Start \/ Alive \/ Swap \/ Hup \/ Sleep PROVE Tested'
  BY <1>3 DEF Test, Start, Alive, Swap, Hup, Sleep, Accepts, SshdGone
<1>4. ASSUME ReadFirst \/ Poll PROVE Tested'
  BY <1>4 DEF ReadFirst, Poll, Accepts, SshdGone
<1>5. ASSUME SshdReady \/ SshdReload \/ SshdDies \/ Stop \/ Restart \/ Rewrite PROVE Tested'
  BY <1>5 DEF SshdReady, SshdReload, SshdDies, Stop, Restart, Rewrite, Accepts, SshdGone
<1>6. CASE UNCHANGED vars
  BY <1>6 DEF vars, Accepts
<1>. QED
  BY <1>1, <1>2, <1>3, <1>4, <1>5, <1>6 DEF OpenNext, Container, Script

\* Every policy on its way to sshd comes from a file that was there; only the
\* two loads of a sshd-config with an edit between them can mix two files.
LEMMA StepSourced == IInv /\ [OpenNext]_vars => Sourced'
<1> SUFFICES ASSUME IInv, [OpenNext]_vars PROVE Sourced'
  OBVIOUS
<1> USE DEF IInv, Sourced, script, daemon, history
<1>0. file.rules \in SUBSET Rules /\ file.mode \in FileModes
  BY FileFacts DEF TypeOK
<1>1. ASSUME LoadMode PROVE Sourced'
  <2>1. file.ok /\ file.mode \in {"any", "none"} => PolicyOf(file.mode, {}) \in asked
    BY <1>0, PolicyFacts DEF Modes
  <2>. QED
    BY <1>1, <2>1 DEF LoadMode, Generated, GenerationFails
<1>2. ASSUME LoadRules PROVE Sourced'
  <2>1. ~torn /\ file.ok => PolicyOf("custom", file.rules) \in asked
    BY <1>2 DEF LoadRules, Modes
  <2>. QED
    BY <1>2, <2>1 DEF LoadRules, Generated, GenerationFails
<1>3. ASSUME Test \/ Start \/ Alive \/ Swap \/ Hup \/ Sleep PROVE Sourced'
  BY <1>3 DEF Test, Start, Alive, Swap, Hup, Sleep, SshdGone
<1>4. ASSUME ReadFirst \/ Poll PROVE Sourced'
  BY <1>4 DEF ReadFirst, Poll, SshdGone
<1>5. ASSUME SshdReady \/ SshdReload \/ SshdDies \/ Stop \/ Restart PROVE Sourced'
  BY <1>5 DEF SshdReady, SshdReload, SshdDies, Stop, Restart, SshdGone
<1>6. ASSUME Rewrite PROVE Sourced'
  <2>1. /\ asked \subseteq asked'
        /\ file'.ok /\ file'.mode \in Modes => PolicyOf(file'.mode, file'.rules) \in asked'
        /\ (torn => torn') /\ (pc = "rules" /\ file' # file => torn')
    BY <1>6, RewriteWrites
  <2>2. UNCHANGED <<pc, conf, new, running>>
    BY <1>6 DEF Rewrite
  <2>. QED
    BY <2>1, <2>2
<1>7. CASE UNCHANGED vars
  BY <1>7 DEF vars
<1>. QED
  BY <1>1, <1>2, <1>3, <1>4, <1>5, <1>6, <1>7 DEF OpenNext, Container, Script

\* The script's last generation is one that the file had since the container
\* started.
LEMMA StepOrdered == IInv /\ [OpenNext]_vars => Ordered'
<1> SUFFICES ASSUME IInv, [OpenNext]_vars PROVE Ordered'
  OBVIOUS
<1> USE DEF IInv, Tested, Ordered, script, daemon, history
<1>0. /\ file.gen \in 0..MaxGeneration /\ low \in 0..MaxGeneration
      /\ last \in 0..MaxGeneration /\ Lowest(file) \in 0..MaxGeneration
      /\ file.ok => Lowest(file) = file.gen
  BY FileFacts DEF TypeOK
<1>1. ASSUME LoadMode PROVE Ordered'
  BY <1>1 DEF LoadMode, Generated, GenerationFails, Lowest
<1>2. ASSUME LoadRules PROVE Ordered'
  BY <1>2 DEF LoadRules, Generated, GenerationFails, Lowest
<1>3. ASSUME Test \/ Start \/ Alive \/ Swap \/ Hup \/ Sleep PROVE Ordered'
  BY <1>3 DEF Test, Start, Alive, Swap, Hup, Sleep, SshdGone, Lowest
<1>4. ASSUME ReadFirst \/ Poll PROVE Ordered'
  <2>1. Lowest(file)' = Lowest(file) /\ low' = low
    BY <1>4 DEF ReadFirst, Poll, Lowest
  <2>2. ASSUME NEW g \in {0, file.gen}, GenerationRead(g), ~misread'
        PROVE  ~misread /\ low <= g
    BY <1>0, <2>2 DEF GenerationRead, TypeOK
  <2>. QED
    BY <1>0, <1>4, <2>1, <2>2 DEF ReadFirst, Poll
<1>5. ASSUME SshdReady \/ SshdReload \/ SshdDies \/ Stop PROVE Ordered'
  BY <1>5 DEF SshdReady, SshdReload, SshdDies, Stop, SshdGone, Lowest
<1>6. ASSUME Restart PROVE Ordered'
  BY <1>0, <1>6 DEF Restart, SshdGone, Lowest
<1>7. ASSUME Rewrite PROVE Ordered'
  <2>1. low' \in 0..MaxGeneration /\ low' <= low /\ low' <= Lowest(file')
    BY <1>7, RewriteWrites
  <2>2. UNCHANGED <<pc, last, launched, misread>> /\ Lowest(file)' = Lowest(file')
    BY <1>7 DEF Rewrite, Observe, Lowest
  <2>. QED
    BY <1>0, <2>1, <2>2
<1>8. CASE UNCHANGED vars
  BY <1>8 DEF vars, Lowest
<1>. QED
  BY <1>1, <1>2, <1>3, <1>4, <1>5, <1>6, <1>7, <1>8 DEF OpenNext, Container, Script

\* The invariant that the theorems below share: next to anything that writes
\* the file.
THEOREM OpenInductive == OpenSpec => []IInv
<1>1. IInv /\ [OpenNext]_vars => IInv'
  BY StepTypeOK, StepTested, StepSourced, StepOrdered DEF IInv
<1>. QED
  BY InitIInv, <1>1, PTL DEF OpenSpec

\* A bounded number of changes is a special case.
THEOREM EditsAreOpen == Spec => OpenSpec
<1>1. [Next]_vars => [OpenNext]_vars
  BY DEF Next, OpenNext, Edit
<1>. QED
  BY <1>1, PTL DEF Spec, OpenSpec

THEOREM Inductive == Spec => []IInv
BY EditsAreOpen, OpenInductive, PTL

-----------------------------------------------------------------------------

\* Every variable of the container stays within its type.
THEOREM TypeCorrect == Spec => []TypeOK
<1>1. IInv => TypeOK
  BY DEF IInv
<1>. QED
  BY Inductive, <1>1, PTL

LEMMA OpenTested == OpenSpec => []Validated
<1>1. IInv => Validated
  BY DEF IInv, Tested, Usable, Validated
<1>. QED
  BY OpenInductive, <1>1, PTL

\* docker/ssh-entrypoint.sh lets sshd read nothing that sshd -t has not
\* accepted, at boot and in the loop.
THEOREM OnlyTested == Spec => []Validated
BY EditsAreOpen, OpenTested, PTL

LEMMA OpenAsked == OpenSpec => []PolicyWasAsked
<1>1. IInv => PolicyWasAsked
  BY DEF IInv, Tested, Usable, Sourced, PolicyWasAsked
<1>. QED
  BY OpenInductive, <1>1, PTL

\* The policy that sshd applies is one that forwarding.json called for.
THEOREM OnlyAsked == Spec => []PolicyWasAsked
BY EditsAreOpen, OpenAsked, PTL

LEMMA OpenTriggered == OpenSpec => RestartOnlyOnTrigger
<1>1. IInv /\ [OpenNext]_vars => [Restarting /\ ~misread' => file.gen > low]_vars
  <2> SUFFICES ASSUME IInv, [OpenNext]_vars, Restarting, ~misread'
               PROVE  file.gen > low
    OBVIOUS
  <2>1. file.gen \in Nat /\ low \in Nat /\ last \in Nat /\ deaths \in Nat
    BY FileFacts, BoundsAssumption DEF IInv, TypeOK
  <2>2. Poll
    BY <2>1 DEF Restarting, OpenNext, Container, Script, LoadMode, LoadRules, Test, Start, ReadFirst,
           Alive, Swap, Hup, Sleep, SshdReady, SshdReload, SshdDies, Stop, Restart, Rewrite, SshdGone,
           vars, script
  <2>3. misread' = misread /\ file.gen > last
    BY <2>1, <2>2 DEF Poll, GenerationRead, Restarting, IInv, TypeOK, history
  <2>4. low <= last
    BY <2>2, <2>3 DEF Poll, IInv, Ordered
  <2>. QED
    BY <2>1, <2>3, <2>4
<1>. QED
  BY OpenInductive, <1>1, PTL DEF OpenSpec, RestartOnlyOnTrigger

\* The loop ends a running sshd only for a generation above one that the file
\* had since the container started, if it could read every generation.
THEOREM OnlyTriggered == Spec => RestartOnlyOnTrigger
BY EditsAreOpen, OpenTriggered, PTL

-----------------------------------------------------------------------------
(* What a quiet container does, and what a failure may not do.             *)

\* A step from a settled state, with the file as it is and nothing that fails
\* from outside, leads to a settled state.
LEMMA StepSettled ==
  ASSUME IInv, [OpenNext]_vars, Settled, file' = file, faults' = faults, deaths' = deaths
  PROVE  Settled'
<1> USE DEF Settled, script, daemon, budget, history
<1>0. /\ launched /\ file.rules \in SUBSET Rules /\ file.gen \in Nat
      /\ faults \in Nat /\ deaths \in Nat
  BY FileFacts, BoundsAssumption DEF IInv, TypeOK, Tested
<1>1. ~Fault /\ faults' = faults
  BY <1>0 DEF Fault
<1>2. CASE LoadMode
  <2>1. file.mode \in {"any", "none"} => PolicyOf(file.mode, {}) = conf
    BY <1>0, PolicyFacts
  <2> QED BY <1>0, <1>1, <1>2, <2>1 DEF LoadMode, Generated, Modes
<1>3. CASE LoadRules
  BY <1>0, <1>1, <1>3 DEF LoadRules, Generated
<1>4. CASE Test \/ Start \/ ReadFirst \/ Alive \/ Swap \/ Hup \/ Sleep
  BY <1>4 DEF Test, Start, ReadFirst, Alive, Swap, Hup, Sleep
<1>5. CASE Poll
  <2>1. PICK g \in {0, file.gen} :
          /\ GenerationRead(g)
          /\ IF g > last THEN pc' = "exited"
             ELSE pc' = "mode" /\ last' = g /\ UNCHANGED daemon
    BY <1>5 DEF Poll
  <2>2. g = file.gen
    BY <1>1, <2>1 DEF GenerationRead
  <2>3. last \in Nat
    BY BoundsAssumption DEF IInv, TypeOK
  <2> QED BY <1>0, <1>5, <2>1, <2>2, <2>3 DEF Poll
<1>6. CASE SshdReady \/ SshdReload \/ SshdDies \/ Stop \/ Restart
  <2>1. deaths' # deaths + 1
    BY <1>0
  <2> QED BY <1>6, <2>1 DEF SshdReady, SshdReload, SshdDies, Stop, Restart
<1>7. CASE Rewrite
  BY <1>7 DEF Rewrite
<1>8. CASE UNCHANGED vars
  BY <1>8 DEF vars
<1> QED BY <1>2, <1>3, <1>4, <1>5, <1>6, <1>7, <1>8 DEF OpenNext, Container, Script

LEMMA OpenQuiet == OpenSpec => SettledStays
<1>1. IInv /\ [OpenNext]_vars
        => [Settled => Settled' \/ file' # file \/ faults' # faults \/ deaths' # deaths]_vars
  BY StepSettled
<1> QED BY OpenInductive, <1>1, PTL DEF OpenSpec, SettledStays

\* Once sshd applies what the file calls for, it takes a change of the file, a
\* failed read or a death from outside to disturb it: the loop alone neither
\* reloads sshd nor ends a session, at any generation.
THEOREM QuietStaysQuiet == Spec => SettledStays
BY EditsAreOpen, OpenQuiet, PTL

\* A policy that the file calls for permits only what the file lists.
LEMMA ListedPolicies ==
  ASSUME NEW f \in File, f.ok, NEW rule, ~Lists(f, rule)
  PROVE  /\ f.mode \in {"any", "none"} => ~Permits(PolicyOf(f.mode, {}), rule)
         /\ ~Permits(PolicyOf("custom", f.rules), rule)
         /\ ~Permits(NoConf, rule)
  BY DEF Lists, Permits, PolicyOf, Any, None, NoConf

LEMMA StepClosed ==
  ASSUME TypeOK, [OpenNext]_vars, NEW rule \in Rules, Closed(rule), ~Lists(file, rule)
  PROVE  Closed(rule)'
<1> USE DEF script, daemon, budget, history
<1>0. ~Permits(NoConf, rule) /\ ~Permits(conf, rule) /\ ~Permits(new, rule)
      /\ ~Permits(running, rule)
  BY DEF Closed, Permits, NoConf
<1>1. SUFFICES /\ conf' \in {conf, new, running, NoConf} \/ ~Permits(conf', rule)
               /\ new' \in {conf, new, running, NoConf} \/ ~Permits(new', rule)
               /\ running' \in {conf, new, running, NoConf} \/ ~Permits(running', rule)
  BY <1>0 DEF Closed, Permits
<1>2. CASE LoadMode
  BY <1>2, ListedPolicies DEF LoadMode, Generated, GenerationFails, TypeOK
<1>3. CASE LoadRules
  BY <1>3, ListedPolicies DEF LoadRules, Generated, GenerationFails, TypeOK
<1>4. CASE Test \/ Start \/ ReadFirst \/ Alive \/ Swap \/ Hup \/ Sleep
  BY <1>4 DEF Test, Start, ReadFirst, Alive, Swap, Hup, Sleep, SshdGone
<1>5. CASE Poll
  BY <1>5 DEF Poll, SshdGone
<1>6. CASE SshdReady \/ SshdReload \/ SshdDies \/ Stop \/ Restart \/ Rewrite
  BY <1>6 DEF SshdReady, SshdReload, SshdDies, Stop, Restart, Rewrite, SshdGone
<1>7. CASE UNCHANGED vars
  BY <1>7 DEF vars
<1> QED BY <1>2, <1>3, <1>4, <1>5, <1>6, <1>7 DEF OpenNext, Container, Script

LEMMA OpenCloses == OpenSpec => FailsClosed
<1>1. IInv /\ [OpenNext]_vars
        => [\A rule \in Rules : Closed(rule) /\ ~Lists(file, rule) => Closed(rule)']_vars
  BY StepClosed DEF IInv
<1> QED BY OpenInductive, <1>1, PTL DEF OpenSpec, FailsClosed

\* A destination that no configuration permits stays closed until the file lists
\* it, whatever fails and whenever the file changes.
THEOREM FailuresOpenNothing == Spec => FailsClosed
BY EditsAreOpen, OpenCloses, PTL

\* A raise that the script has not acted on yet.
Raised ==
  launched /\ pc \notin {"last", "exited"} /\ file.ok /\ file.gen > last

\* A read that fails delays a raise, and never loses it: it is pending until the
\* container ends or the file changes, next to any writer of the file.
THEOREM RaiseIsKept ==
  OpenSpec => [][Raised => Raised' \/ pc' = "exited" \/ file' # file]_vars
<1>1. ASSUME IInv, [OpenNext]_vars, Raised, file' = file, pc' # "exited"
      PROVE  Raised'
  <2> USE DEF Raised, script, daemon, budget, history
  <2>0. file.gen \in Nat /\ last \in Nat
    BY <1>1, FileFacts, BoundsAssumption DEF IInv, TypeOK
  <2>1. CASE LoadMode \/ LoadRules
    BY <1>1, <2>1 DEF LoadMode, LoadRules, Generated, GenerationFails
  <2>2. CASE Test \/ Start \/ ReadFirst \/ Alive \/ Swap \/ Hup \/ Sleep
    BY <1>1, <2>2 DEF Test, Start, ReadFirst, Alive, Swap, Hup, Sleep, IInv, Tested, Ordered
  <2>3. CASE Poll
    <3>1. PICK g \in {0, file.gen} :
            IF g > last THEN pc' = "exited" ELSE pc' = "mode" /\ last' = g
      BY <2>3 DEF Poll
    <3> QED BY <1>1, <2>0, <2>3, <3>1 DEF Poll
  <2>4. CASE SshdReady \/ SshdReload \/ SshdDies \/ Stop \/ Restart \/ Rewrite
    BY <1>1, <2>4 DEF SshdReady, SshdReload, SshdDies, Stop, Restart, Rewrite
  <2>5. CASE UNCHANGED vars
    BY <1>1, <2>5 DEF vars
  <2> QED BY <1>1, <2>1, <2>2, <2>3, <2>4, <2>5 DEF OpenNext, Container, Script
<1>2. IInv /\ [OpenNext]_vars => [Raised => Raised' \/ pc' = "exited" \/ file' # file]_vars
  BY <1>1
<1> QED BY OpenInductive, <1>2, PTL DEF OpenSpec
=============================================================================
