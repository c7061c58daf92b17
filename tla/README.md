# Verification of ssh-bastion

TLA+ models of the ssh-bastion server and of its sshd container, checked with
TLC on small instances and, where that is possible, proved with TLAPS for every
value of the constants. Every definition is translated from the source; the
exact lines are in `PROJECT.json` under `map`.

## 1. The system

One process, `ssh-bastion serve`, runs a web server and a DNS proxy. A second
container runs sshd. They share nothing but a data directory:

| file under the data directory | written by | read by |
|---|---|---|
| `users/<user>/keys/<fingerprint>.json`, `.pub` | key pages | render, key pages, admin lists |
| `users/<user>/profile.json` | key pages | admin lists |
| `authorized_keys/jump` | key pages (render) | sshd, at every login |
| `ssh/forwarding.json` | target pages, an operator | target pages, sshd container |
| `dns/aliases.json` | DNS page | DNS proxy, at every query |
| `content/pages/home.md` | admin home page | home page |

### Components

**Atomic file store** (`internal/storage`). No state of its own; the files and
the temporary files. One operation that matters, `AtomicWrite`: temporary file,
chmod, write, fsync, rename. Hard: calls overlap without a lock, any system call
may fail, the process or the machine may stop in between. Correct when a reader
only ever finds complete contents, and a call is one replacement or nothing.

**Key registry and key pages** (`internal/keys`, the `/ssh` handlers of
`internal/web/server.go`). State: a record and a `.pub` file per key, and
`authorized_keys/jump`, which is derived from the records. Operations: add,
enable, disable, delete, view; each change is followed by a render of all
records of all users. Hard: handlers run concurrently without a lock, the
render reads record after record while they change, every step may fail alone,
a kill may come between a change and its render. Correct when the file that
sshd reads holds the enabled keys.

**Forwarding registry and target pages** (`internal/forwarding`, the
`/admin/targets` handlers). State: one JSON file with the mode, the rules and
`restartGeneration`. Operations: set the mode; add, enable, disable, delete a
rule. Each loads, changes and saves the whole file. Hard: lost updates, also
against an operator who edits the file. Correct when an acknowledged change
is there and unharmed by others.

**sshd container** (`docker/ssh-entrypoint.sh`, `sshd-config` and
`forwarding-restart-generation` of `cmd/ssh-bastion/main.go`). State: the
configuration in force, a new one under test, the last generation seen, sshd.
Polls `forwarding.json` every 5 s. Hard: failed reads, a file that changes
between two reads, a rejected configuration, signals to an sshd that is
starting, its death, the restart. Correct when sshd applies what the file
calls for, applies nothing unchecked, and sessions end only for the trigger.

**DNS registry, admin DNS page; DNS proxy** (`internal/dns`,
`internal/dnsproxy`). The alias file has the load/change/save life of
`forwarding.json`. The proxy reads it for every address query, asks upstream for
the destination instead of the name and rewrites the reply; other queries it
forwards, answers empty, or, in aliases-only mode, answers NXDOMAIN. Hard: lost
updates, a list that changes or cannot be read while a query is answered,
letters in either case, destinations that are CNAMEs. Correct when no name has
two destinations, an acknowledged change of a fresh copy is made and alone, and
an answer is that of a list in force and speaks of the name that was asked.

**Authentication and configuration** (`internal/auth`, `internal/config`). No
state: from the environment and the headers to an identity, a role, and a
verdict on the request. Hard: test mode, the role default, the list of admins
and two providers' headers combine. Correct when only listed admins pass
`requireAdmin`.

**serve** (`cmd/ssh-bastion/main.go`, `Serve` of `internal/dnsproxy`, `Run` of
`internal/web`). State: which goroutine is where, two channels of errors, the
context that a signal ends. Finds the upstream resolver, starts two servers,
and ends when one ends or a signal comes. Hard: a signal at any moment, a
shutdown before the listener runs, one server failing while the other goes on.
Correct when the exit status is true, a signal ends the process, and it never
stays with half its service.

**Home page, admin lists**: readers of the above, and one `AtomicWrite`.
**Logging, templates, compose and Helm files, `ssh-bastion-shell`**: no state
that a property is about.

## 2. Modules

| module | models | EXTENDS / INSTANCE |
|---|---|---|
| `AtomicFile` | abstract: what `AtomicWrite` promises | |
| `Storage` | `AtomicWrite`, system call by system call | INSTANCE `AtomicFile` |
| `StorageProofs` | theorems | EXTENDS `Storage` |
| `KeyRegistry` | key pages, key registry, render | |
| `KeyRegistryProofs` | theorems | EXTENDS `KeyRegistry` |
| `ForwardingRegistry` | target pages, forwarding registry | |
| `ForwardingRegistryProofs` | theorems | EXTENDS `ForwardingRegistry` |
| `SshdEntrypoint` | the container and its subcommands | |
| `SshdEntrypointProofs` | theorems | EXTENDS `SshdEntrypoint` |
| `Bastion` | pages, operator and container over one `forwarding.json` | EXTENDS `ForwardingRegistry`, INSTANCE `SshdEntrypoint` |
| `BastionProofs` | theorems about the composition | EXTENDS `Bastion`, `ForwardingRegistryProofs`, INSTANCE `SshdEntrypointProofs` |
| `DnsRegistry` | alias file and DNS page | |
| `DnsProxy` | the proxy's queries, composed with the registry | EXTENDS `DnsRegistry` |
| `DnsProxyProofs` | theorems about both | EXTENDS `DnsProxy` |
| `Access` | settings, identity, role, verdict (no state) | |
| `Serve` | the process from its flags to its end | EXTENDS `Access` |
| `ServeProofs` | theorems about both | EXTENDS `Serve` |
| `MC...` | constants and symmetry for TLC | EXTENDS the module |

Definitions whose comment begins with "Mutant of" or "mutant:" are
broken variants of the next definition. They belong to no specification; each
shows that a property does fail when the code is wrong in that way.

### Storage

`file` maps a path to the inode that it names, `durable` to the one that the
directory on disk names, `tmp` holds the temporary files. `pc[w]` is the next
system call of a goroutine. `FailedCall` is every early return, `Return` the
deferred `os.Remove`. `Flush`, `Kill` and `PowerLoss` are the operating system:
what was not fsynced may be torn after a power loss, and since the code never
syncs a directory an entry may fall back to the older inode. The random part of
a temporary name is modelled by choosing a name that no call in flight holds.
`Orphan` is a temporary file that no call holds any more; nothing removes it.

`AtomicFile` has neither inodes nor temporary files: `Commit` replaces a file in
one step. `Atomic` says that `Storage` implements it.

The other modules take one `AtomicWrite` as one step on the strength of this.

### KeyRegistry

`json`, `pub`, `userDirs`, `profiles` and `authKeys` are the directory;
`pc`, `req` and `scan` the goroutines. One step is one file system call:
`Add` / `Modify` (the profile, up to the first registry call), `GetKey`,
`WriteJson`, `WritePub`, `RemoveJson`, `RemovePub`, then the render
`ReadUsersDir`, `ListUser`, `ReadKey`, `Publish`, or `Page` after an error.
An error page is one state; its HTTP status is left out. Every call has a
failing disjunct, bounded by `MaxFaults`. `Kill` ends all requests (`MaxKills`).

A pasted text is a value with the key that `ParseAuthorizedKey` finds in it
(`FirstKey`) and the keys sshd finds in it (`KeysIn`). Time stamps, the file
name derived from the fingerprint, the order of the lines in `authorized_keys`
and the profile's content are left out.

`hist` and `calm` are history variables: what was enabled during a render, and
whether anything has failed or overlapped so far. No action reads them.

### ForwardingRegistry

`file` is `forwarding.json`, `copy[r]` the handler's copy. `Arrive`, `Load`
(with the change in memory), `Save`; `OperatorEdit` is external. `Broken`
is a file that cannot be read or decoded. The targets are a set: the order of
the list would only matter for two targets of one rule, and `UniqueRules` shows
that there are none. A rule is a value that `ValidateRule` accepts. `stale` is
history: whether the file was written since a handler loaded it.

### SshdEntrypoint

`pc` is the script's next command. `LoadMode` and `LoadRules` are the two loads
of one `sshd-config`, `GenerationRead` is `forwarding-restart-generation` with
its `|| echo 0`, `Test` is `sshd -t`, `Swap` and `Hup` are `mv` and `kill -HUP`.
A policy is the `PermitOpen` line; the rest of the configuration is constant.
The order of the rules is left out: another order has the effect of a reload.
sshd, its test, its signal handling, its death and the restart of the container
are external. A SIGHUP to an sshd that has not installed its handler yet ends
it. `Rewrite` lets the file become anything, its generation lower or higher;
`Edit` bounds how often. `low` is history: the lowest generation that a
readable file had since the container started. `OpenSpec` is the container next
to any writer, without a bound.

### Bastion

The composition: `Request` and `Handle` are the admin pages' handlers,
`Operate` the operator, `Run` a step of the container. `View` is what `Load`
makes of the file for the two subcommands, and the only thing that the two
halves share. Each half keeps its own actions; nothing is modelled twice.
`raises`, `restarts` and `excused` are history: how often the operator raised
the generation, how often sessions were ended for one, and whether a stale save
or a failed read of the generation, which `forwarding_lost` and `sshd_spurious`
show to be harmful, has happened. `ContainerIsOpen` is the refinement: seen from
the container, the pages and the operator are one of the writers of `OpenSpec`.

### DnsRegistry and DnsProxy

`aliases` is the file, `pc`, `req` and `copy` are the handlers: `Arrive`, `Load`,
`Save`. The list is a set, since its order would matter only for two aliases of
one source. A name is a value that the DNS-1123 check accepts; in a message it
has a spelling, small letters or not, as the comparison ignores case.

`DnsProxy` adds the queries. `Receive` is `forward` up to the read of the list,
`List` the read and what follows from it, `Exchange` the call upstream with the
rewriting of its reply, `Reset` the end of the goroutine. `Admin` is a step of
the registry. Upstream is external: any reply that fits the question, or none
before the client's timeout, which like every other error ends in SERVFAIL. A
reply keeps the owners of its A (or AAAA) and CNAME records; addresses,
truncation (UDP only, the reply is passed on) and other records are left out.
`seen` is history: the destinations the file has had for the name since the
query came; `stale`, as in `ForwardingRegistry`. No action reads them.

### Access and Serve

`Access` has the functions: `Loads` and `Config` are `config.Load`, `Identity`,
`Known` and `Role` are `Authenticate`, `Verdict` adds `requireAdmin`. A text is a
name with or without blanks around it, or nothing but blanks: what `TrimSpace`
and the comparisons tell apart. A setting is a word, spelled exactly or not.

`Serve` runs `main` (`Flags`, `StartDNS`, `StartHTTP`, `ExitOnSignal`,
`ExitOnError`), the goroutine of the DNS proxy (`ServeDNS`, `Shutdown`,
`ServeReturns`) with its listener, and the goroutine of `web.Run` (`LoadConfig`,
`ParseTemplates`, `ListenHTTP`). `errCh` is the channel of errors; `Exit` ends
every goroutine wherever it is. `env` is what the process was started with and
finds; it never changes. `runWeb` is the same with `command = "web"`: without a
DNS proxy, and a signal ends it at once. `Receive` judges one request; what the
handler behind it does is in the modules above. Their handlers may all stop
between two steps, which is what the end of the process does to them: `Kill` in
`Storage` and `KeyRegistry`, and the absence of fairness elsewhere.

## 3. Runs

| run | properties | result |
|---|---|---|
| `storage_writes` | `IInv`, `NeverTorn`, `LeavesNoTemps`, `Atomic`, `EveryCallReturns` | pass |
| `keys_safety` | `IInv`, `RenderRegular`, `SerialSync`, `UndisturbedRender`, `RequestsAdvance`, `EveryRequestAnswered` | pass |
| `keys_stale` | `AllEnabledRendered` | violated |
| `forwarding_edits` | `UniqueRules`, `IInv`, `OwnChangeLands`, `FreshSaveIsAtomic` | pass |
| `forwarding_lost` | `AcceptedChangesStay` | violated |
| `sshd_container` | `IInv`, `Validated`, `PolicyWasAsked`, `RestartOnlyOnTrigger`, `SettledStays`, `FailsClosed`, `TriggerObeyed`, `Converges` | pass |
| `sshd_spurious` | `OnlyTheTriggerRestarts` | violated |
| `bastion_pages` | `OneRestartPerRaise`, `ContainerIsOpen`, `OpensOnRequest`, `RevocationTakesEffect`, `RaiseEndsSessions` | pass |
| `dns_queries` | `TypeOK`, `UniqueSources`, `AnswerInForce`, `OnlyDestinationsAsked`, `OwnersRestored`, `FreshSaveIsAtomic` | pass |
| `dns_chain` | `DirectAnswers` | violated |
| `serve_process` | `EndsAreHeard`, `StatusIsTrue`, `FirstUpstream`, `AdminsAreListed`, `SignalEnds`, `NoHalfService` | pass |
| `serve_roles` | `DefaultRoleHolds` | violated |

`TypeOK` is a part of `IInv`, except in `DnsProxy`, whose run checks it by
itself; where a run checks neither, the proofs show the types.

What they show:

* **A write is atomic.** No overlap, failure, kill or power loss leaves a part
  of a content at a path. The price of the missing directory sync is that a
  power loss may take back an acknowledged change, but only to a complete
  older version. A temporary file is left only by a kill, a power loss or a
  failing `os.Remove`, never by an error path (`LeavesNoTemps`).
* **A render is regular, not atomic.** It has every key enabled all the time
  and readable, and none that never was (`RenderRegular`). If no record changed
  during it and no read failed, it leaves exactly the enabled keys, whatever was
  there (`UndisturbedRender`): the registry heals with the next undisturbed
  change. Without overlap and failure all files agree (`SerialSync`). Each step
  of a handler brings its answer nearer, whatever others add to the directories
  that its render walks (`RequestsAdvance`): no handler waits or starts over.
* **What a render does not do.** `keys_stale`: with two overlapping requests the
  older render may be published last, and a disabled key stays accepted. TLC
  stops at the first counterexample, and this one needs neither a kill nor a
  fault, so its configuration has none. With one request and `MaxKills = 1` in
  `KeyRegistry_stale.cfg` the same property is violated by a kill between change
  and render (nothing renders at start); with `MaxFaults = 1` by a deletion that
  fails on the `.pub` file, after which the record is gone and the key still
  accepted, and by a record that cannot be read during a render.
* **Targets.** An acknowledged change is in the file, no rule is ever there
  twice, and a handler whose copy is fresh is as good as an atomic change.
  `forwarding_lost`: with a stale copy it undoes the acknowledged change of
  another handler. The run has no operator (`MaxEdits = 0`); a handler that
  loaded the file before he raised `restartGeneration` writes the old one back in
  the same way, and that is what `excused` stands for in `Bastion`.
* **The container.** sshd only applies what `sshd -t` accepted, and, save for an
  edit between the two loads of one `sshd-config`, only what the file called
  for. Restarts happen only for a raised generation, if every read succeeded;
  a raised generation is obeyed; and once the file is usable and stays as it
  is, sshd applies it, and the loop then leaves sshd and its sessions alone
  (`SettledStays`). A destination that no configuration permits stays closed
  until the file lists it, whatever fails (`FailsClosed`). `sshd_spurious`: a failed read counts as generation 0
  and the next good one ends all sessions.
* **Pages and container together.** A target that is disabled, deleted, not
  listed under mode `custom`, or shut out with mode `none` (`Revoked`) is refused
  by the sshd in service after a while, unless the file allows it again, whatever
  else was asked for meanwhile. A destination that
  is shut in the file, in every copy of it and in sshd opens only when an admin
  or the operator asks for it (`OpensOnRequest`). One raise of the
  generation ends the sessions once, and a raise over the generation that the
  script knows does end them: only a stale save, a failed read or a broken file
  gets in the way.
* **Aliases.** No source ever has two destinations. An answer is that of a list
  in force while the query was handled, and an unreadable list ends in SERVFAIL,
  never in a query for the name itself. In aliases-only mode only destinations
  go upstream, apart from queries of several questions, which are forwarded as
  documented. The answer repeats the question, and no address in it is owned by
  the destination that was asked instead, whatever else upstream replied
  (`OwnersRestored`). That is less than `_dev/design/design-app-dns.md` promises,
  direct answers that spare the client the chasing of CNAMEs. `dns_chain`: where
  the destination is itself a CNAME upstream, its CNAME record and the addresses
  of a third name are passed on, and nothing in the answer is owned by the name
  that was asked. The alias file has the lost updates of `forwarding.json`, and
  `FreshSaveIsAtomic` says when it has not.
* **The process.** A DNS proxy that is shut down before its listener runs never
  returns from `Serve`, since the error of `Shutdown` is dropped and the listener
  goes on. It does no harm: `main` does not wait for it, and the process ends
  (`SignalEnds`; the mutant that waits for the proxy hangs). Nothing drains: the
  end of `main` is a kill of every handler and query. While `main` waits, every
  server that is enabled runs or has its end in `errCh` (`EndsAreHeard`). A server that fails takes
  the other down with it (`NoHalfService`) and the status says so.
* **Who may do what.** `AdminsAreListed` states what the code does, in every
  combination of settings and headers. `serve_roles`: with
  `SSHBASTION_ROLE_DEFAULT=admin` and outside test mode, a user whom the proxy
  names is turned away, since `internal/auth/middleware.go:65` asks for the
  override; four documents, `_dev/design/design-overview.md:240` first, make it
  the role of every user who is not listed. The code is the stricter of the two.

### Bounds

* Two writers, requests or handlers: every race here is between two; a third
  adds no new conflict on one file. The proofs hold for any number.
* `storage_writes`: one path, two contents, two temporary names. One path is
  where two calls meet.
* `keys_safety`: one user, two keys with one text each, one fault, one kill. Two
  keys are needed for a render to be between them.
* `keys_stale`: two requests, one user, one key, no fault and no kill.
* `forwarding_edits`: two rules, one edit by the operator, one fault. Generation
  and list length are bounded by the number of edits and by `UniqueRules`.
* `bastion_pages`: one target, two requests, one edit, generations 0 and 1; a
  stale save takes two requests, or a request and the edit. The file is missing
  at first, or allows the target. The pages ask to add, disable or delete the
  target or for mode `none`; mode `custom` and mode `any` come from the operator.
  Failed reads and deaths are left to `sshd_container`.
* `sshd_container`: one good and one bad rule, two edits (break and mend, or
  raise and change), one failed read, one death.
* `dns_queries`: two handlers, one query, two names, one fault. Queries share
  nothing with each other, and two names give every alias: of the other name, of
  itself, crossed. `dns_chain` has a third name, for a chain that leads from one
  alias to neither of its two names, one handler and no fault.
* `serve_roles`: either provider, with and without a default role, no overrides;
  the requests of `serve_process`.
* `serve_process`: three families of surroundings, each varying one concern over
  a working default: the sources of the upstream (two addresses, a malformed
  one, an unreadable file); what may be wrong at the start (either server off,
  ports, templates, settings); settings and headers (nobody, two users, a header
  of the other provider, blanks). Every family meets every failure and a signal
  at every step.
* `SYMMETRY` is used only in runs without liveness properties, over sets whose
  members no action tells apart.

### Fairness

* `Storage`, `KeyRegistry`: weak fairness of each handler's next step. The Go
  runtime schedules every goroutine and a file system call returns, with an
  error if need be. Arrival of requests, kills and faults are not fair.
* `SshdEntrypoint`: weak fairness of the script (commands end), of sshd starting
  and handling its signal, and of the restart of an ended container. The last is
  what Kubernetes does; `compose.yml` sets no restart policy, and there
  `Converges` does not hold after the container has ended.
* `Bastion`: the container as in `SshdEntrypoint`. Nothing makes a handler go on,
  and nothing has to: the properties are about what is in the file.
* `Serve`: weak fairness of main, of each goroutine and of the listener's start:
  the Go runtime runs what can run. Failures, requests and signals are not fair.
* `ForwardingRegistry` and `DnsProxy` have no liveness property: their handlers
  are straight-line, and the one call that may not return has a timeout.

## 4. Proofs

Checked by TLAPS for every value of the constants, from the named assumptions of
the modules: marks differ from contents, bounds are natural numbers, the first
key of a text is one that sshd finds, a directory lists finitely many users and
keys.

**`StorageProofs`**: `Inductive`, `TypeCorrect`, `Untorn`, `TempsRemoved`, `Implements`,
`CallsOnlyAdvance`. The invariant `IInv` adds to the types that a temporary file
belongs to one call and holds what its calls so far have put there, and that
every inode a path names, now or on disk, is complete and synced. `NeverTorn`
alone is not inductive: it says nothing of what a rename is about to publish.
`Implements` maps each step to a step of `AtomicFile` or to a stutter; `Rename`
is `Commit`. `CallsOnlyAdvance` counts the system calls that are left.

**`KeyRegistryProofs`**: `RenderIsRegular`, `UndisturbedIsExact`,
`SerialInSync`, `Invariance`, `HandlersAdvance`, `RecordsStayFiled`,
`AcceptedAreFiled`. `Collected` relates each render to its history: an entry
enabled throughout is yet to be listed, yet to be read, skipped or collected.
`Serial` says where the one change of a calm registry stands, call by call.

* `HandlersAdvance` bounds the steps to an answer by `Left`. The records that a
  render still has to read are counted when it lists a directory, so a
  directory not listed yet is charged for every key there can be
  (`OneDirectory`); that is what `FiniteAssumption` is for. New records then
  cost nothing.
* `RecordsStayFiled` needs `Filed`: a record, and the text in the memory of a
  handler that is about to write one, are under the fingerprint of the text's
  first key.
* `AcceptedAreFiled`: if no text has a second key, and while the registry is
  calm, every key that sshd accepts has an enabled record under its own
  fingerprint, as `design-overview.md` says. The first condition is left to the
  users: `AddKey` (`internal/keys/registry.go:37`) parses the first key of what
  was pasted, stores the whole text and renders it.

**`ForwardingRegistryProofs`**: `RulesUnique`, `OwnChangesLand`,
`FreshSavesAreAtomic`, `FreshSavesUndoNothing`, `Invariance`. `CopyReady` is the
point: a copy that waits to be written has the change in it, and is what the
change makes of the file if nobody wrote that meanwhile. `FreshSavesUndoNothing`
is the other side of `forwarding_lost`: a save that is not stale leaves the
generation, the mode it was not asked for, and every other target as they were.

**`SshdEntrypointProofs`**: `OnlyTested`, `OnlyAsked`, `OnlyTriggered`,
`QuietStaysQuiet`, `FailuresOpenNothing`, `RaiseIsKept`, `Inductive`,
`OpenInductive`. `Tested` follows a configuration from the generator over
`sshd -t` to sshd, and says that the script waits for sshd only with a
configuration that can be used; `Sourced` ties each policy to a file that was
there; `Ordered` orders the lowest generation since the container started, the
last one the script saw and the one in the file. `RaiseIsKept` is the other side
of `sshd_spurious`: a failed read may invent a trigger, and never loses one. All
steps are proved for `OpenSpec`, of which `Spec` is a case.

**`BastionProofs`**: `ContainerOpen`, `PagesImplemented`, `PagesKeep`,
`ContainerKeeps`, `OnlyTestedIsRun`, `BastionTypeCorrect`, `RestartsAreRaised`,
`OpenedOnRequest`. The composition implements both of its halves. Every step is
one of `ForwardingRegistry` or a stutter (`PagesImplemented`), so what is proved
of the pages holds (`PagesKeep`); `GensBounded` adds that no generation is above
the number of edits, so the file is always one that the container knows, and the
composition implements `OpenSpec` (`ContainerOpen`). The container's theorems
then hold here and are cited, not proved again (`ContainerKeeps`,
`OnlyTestedIsRun`). `Counted` keeps the books: restarts, and the one that is due,
do not exceed the raises. `OpenedOnRequest` joins the halves: a step of the
container opens nothing that the file does not list (`FailsClosed`), and a step
of a handler opens nothing but its own target.

**`DnsProxyProofs`**: `TypeCorrect`, `SourcesUnique`, `AnswersInForce`,
`OnlyDestinations`, `OwnersAreRestored`, `FreshSavesAreAtomic`, `Invariance`.
`CopiesUnique` and `CopiesReady` say of a copy what `CopyReady` says above.
`QueryInForce` follows one query: until it has read the list, what the file
says now is in `seen`; after that, the name it asks for is. For
`OwnersAreRestored` the rewriting of a reply is followed record by record, of
any reply: an address that still has the destination as its owner after the
rewriting would be one that was left as it was, and had another.

**`ServeProofs`**: `TypeCorrect`, `NoServerMissed`, `StatusTold`,
`UpstreamIsFirst`, `OnlyAdmins`, `Inductive`. `Caused` says that what stopped or
was returned has its cause; `Started` which goroutine runs when, and so exactly
how many results are in the channel. Its buffer of two never fills up, no server
waits to report, and none ends without a result there.

Every invariant and every action property of a passing run is proved. Only
model-checked is what needs fairness, and so ENABLED, which the prover cannot
treat. The safety half of most of these is proved:

| model-checked | and proved of it |
|---|---|
| `EveryCallReturns` | `CallsOnlyAdvance`: every step of a call brings its return nearer |
| `EveryRequestAnswered` | `HandlersAdvance`: every step of a handler brings its answer nearer |
| `TriggerObeyed`, `RaiseEndsSessions` | `RaiseIsKept`: a raise stays pending until it is acted on or the file changes |
| `Converges` | `QuietStaysQuiet`: once reached, it is not left |
| `RevocationTakesEffect` | `OpenedOnRequest`: once shut, it opens only on request |
| `NoHalfService` | `NoServerMissed`: the end of a server reaches `main` |
| `SignalEnds` | |

## 5. Not modelled

* `ValidateRule` and `validateDNS1123Subdomain`: the syntax of one string, which
  table tests cover. A rule or a name is a value that they accepted.
* The directory that a user ID is hashed to (`deriveUserDirID`), the settings
  that rename the headers, `SSHBASTION_DNS_ALIASES_ONLY` as text.
* The status codes of error pages and what a page shows; the admin lists and
  the home page only read, and the home page is saved with one `AtomicWrite`.
* `RenderDnsmasqConf`, which nothing calls, and `LocalAddr`, which only a test
  does.
* The host keys that `ssh-entrypoint.sh` generates at its first boot, and its
  settings of `resolv.conf` and of file modes.
* What follows from the spelling of a mode. `Load` accepts `Custom` and keeps it
  so, and the switch of `sshd-config` rejects it (`cmd/ssh-bastion/main.go:103`).
  The models have that mode among their files, so every safety property holds
  next to it; that such a file is never applied is left to the reader of that
  switch, and `Converges` asks for a mode that the switch knows.
* Logging, HTML, TLS and the OAuth proxy in front of the server, deployment
  files, sshd itself.

What could still be added: one larger composition in which the key pages' file
is read by a login to the sshd of `Bastion`. The two meet only in
`authorized_keys/jump`, which sshd reads by itself, so the properties of
`KeyRegistry` already say what a login finds there.
