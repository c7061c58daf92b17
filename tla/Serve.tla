--------------------------------- MODULE Serve ---------------------------------
(***************************************************************************)
(* `ssh-bastion serve', from its flags to its end: main, the goroutine     *)
(* that runs the DNS proxy with its listener, and the goroutine that runs  *)
(* the web server.  They speak through two channels of errors and through  *)
(* the context that SIGTERM and Ctrl-C end.  The end of main ends them all *)
(* and whatever they are doing.  `ssh-bastion web' runs the web server     *)
(* alone, and leaves signals to the operating system.                      *)
(*                                                                         *)
(* What becomes of a query is in DnsProxy, of a request behind the access  *)
(* check in KeyRegistry, ForwardingRegistry and DnsRegistry.  net/http,    *)
(* the DNS library and the operating system are external.                  *)
(***************************************************************************)
EXTENDS Access, Sequences, Naturals

CONSTANTS
  Address,       \* upstream resolvers
  Unset,         \* no value: of a flag, a variable, or all of resolv.conf
  Malformed,     \* a nameserver that is no IP literal
  Surroundings,  \* bound: what a process may be started with and find
  Requests       \* bound: the requests that come

ASSUME AddressAssumption == Unset \notin Address /\ Malformed \notin Address

Settings ==
  [logLevel       : Setting({"info", "debug"}),
   dataDir        : Setting({"/data"}),
   authMode       : Setting(Providers),
   roleDefault    : Setting({"user", "admin"}),
   overrideUserID : Text,
   overrideEmail  : Text,
   roleAdminIDs   : SUBSET Text]

\* resolv is the nameserver lines of /etc/resolv.conf; lines that name none,
\* and lines that cannot be read, are no part of it.
Environment ==
  [command : {"serve", "web"},
   http : BOOLEAN, dns : BOOLEAN,       \* what is enabled
   flag : Address \cup {Unset}, var : Address \cup {Unset},
   resolv : Seq(Address \cup {Malformed}), resolvReadable : BOOLEAN,
   settings : Settings,
   templates : BOOLEAN,                 \* the templates parse
   httpPort : {"free", "taken"},
   dnsPort : {"free", "taken", "blank"}]

ASSUME SurroundingsAssumption ==
  /\ Surroundings \subseteq Environment
  /\ \A e \in Surroundings : e.command = "web" => e.http /\ ~e.dns
  /\ Requests \subseteq Request

VARIABLES
  env,        \* what this process found
  main,       \* what main does next
  code,       \* the exit status
  signalled,  \* SIGTERM or SIGINT has come
  upstream,   \* the resolver that the proxy asks
  proxy,      \* Serve of the DNS proxy
  listener,   \* its ListenAndServe
  web,        \* web.Run
  errCh,      \* what the servers have returned, and main has not read
  answer,     \* the last request and what became of it
  failed      \* history: a server that ran has failed

vars == <<env, main, code, signalled, upstream, proxy, listener, web, errCh, answer, failed>>

None == [verdict |-> "none"]

TypeOK ==
  /\ env \in Surroundings
  /\ main \in {"flags", "dns", "http", "select", "exited"}
  /\ code \in {"none", "0", "1", "signal"}
  /\ code = "none" <=> main # "exited"
  /\ signalled \in BOOLEAN
  /\ upstream \in Address \cup {Unset}
  /\ proxy \in {"off", "serve", "select", "shutdown", "done"}
  /\ listener \in {"off", "starting", "serving", "closed", "failed"}
  /\ web \in {"off", "load", "templates", "listen", "serving", "done"}
  /\ errCh \in Seq({"nil", "error"})
  /\ Len(errCh) <= 2    \* as many as its buffer holds: no sender waits
  /\ answer \in {None} \cup
       [request : Requests, verdict : {"unauthorized", "forbidden", "handled"}]
  /\ failed \in BOOLEAN

Init ==
  /\ env \in Surroundings
  /\ main = "flags" /\ code = "none"
  /\ signalled = FALSE
  /\ upstream = Unset
  /\ proxy = "off" /\ listener = "off" /\ web = "off"
  /\ errCh = <<>>
  /\ answer = None
  /\ failed = FALSE

-----------------------------------------------------------------------------
(* main                                                                    *)

\* The process ends, with its goroutines wherever they are.
Exit(status) ==
  /\ main' = "exited" /\ code' = status
  /\ proxy' = "off" /\ listener' = "off" /\ web' = "off"
  /\ errCh' = <<>>

Goroutines == <<proxy, listener, web, errCh>>

\* Mutant of resolveUpstream: the variable wins over the flag.
resolveUpstreamVarFirst(e) ==
  IF e.var # Unset THEN e.var
  ELSE IF e.flag # Unset THEN e.flag
  ELSE IF e.resolvReadable /\ e.resolv # <<>> /\ Head(e.resolv) \in Address THEN Head(e.resolv)
  ELSE Unset

\* The flag, the variable, or the first nameserver; Unset is an error.
resolveUpstream(e) ==
  IF e.flag # Unset THEN e.flag
  ELSE IF e.var # Unset THEN e.var
  ELSE IF e.resolvReadable /\ e.resolv # <<>> /\ Head(e.resolv) \in Address THEN Head(e.resolv)
  ELSE Unset

\* dnsproxy.New returns no error.
NewProxy(e) == e.dnsPort # "blank" /\ Loads(e.settings)

\* The flags; from here on a signal ends the context, not the process.
Flags ==
  /\ main = "flags"
  /\ \/ ~env.http /\ ~env.dns /\ Exit("1")
     \/ (env.http \/ env.dns) /\ main' = "dns" /\ UNCHANGED <<code, Goroutines>>
  /\ UNCHANGED <<env, signalled, upstream, answer, failed>>

StartDNS ==
  /\ main = "dns"
  /\ \/ ~env.dns /\ main' = "http" /\ UNCHANGED <<code, upstream, Goroutines>>
     \/ /\ env.dns
        /\ IF resolveUpstream(env) # Unset /\ NewProxy(env)
           THEN /\ upstream' = resolveUpstream(env)
                /\ main' = "http" /\ proxy' = "serve"
                /\ UNCHANGED <<code, listener, web, errCh>>
           ELSE Exit("1") /\ UNCHANGED upstream
  /\ UNCHANGED <<env, signalled, answer, failed>>

StartHTTP ==
  /\ main = "http"
  /\ main' = "select"
  /\ web' = (IF env.http THEN "load" ELSE "off")
  /\ UNCHANGED <<env, code, signalled, upstream, proxy, listener, errCh, answer, failed>>

\* Mutant of ExitOnSignal: it waits for the DNS proxy to shut down.
ExitWhenDrained ==
  /\ main = "select" /\ signalled
  /\ proxy \in {"off", "done"}
  /\ Exit("0")
  /\ UNCHANGED <<env, signalled, upstream, answer, failed>>

ExitOnSignal ==
  /\ main = "select" /\ signalled
  /\ Exit("0")
  /\ UNCHANGED <<env, signalled, upstream, answer, failed>>

ExitOnError ==
  /\ main = "select" /\ errCh # <<>>
  /\ Exit(IF Head(errCh) = "error" THEN "1" ELSE "0")
  /\ UNCHANGED <<env, signalled, upstream, answer, failed>>

-----------------------------------------------------------------------------
(* The DNS proxy.                                                          *)

ServeDNS ==
  /\ proxy = "serve"
  /\ proxy' = "select" /\ listener' = "starting"
  /\ UNCHANGED <<env, main, code, signalled, upstream, web, errCh, answer, failed>>

\* ListenAndServe binds the port; from then on there is something to shut down.
Listen ==
  /\ listener = "starting"
  /\ listener' = (IF env.dnsPort = "free" THEN "serving" ELSE "failed")
  /\ UNCHANGED <<env, main, code, signalled, upstream, proxy, web, errCh, answer, failed>>

ListenerFails ==
  /\ listener = "serving"
  /\ listener' = "failed" /\ failed' = TRUE
  /\ UNCHANGED <<env, main, code, signalled, upstream, proxy, web, errCh, answer>>

\* The context has ended.  A listener that does not serve yet cannot be shut
\* down, and the error that says so is dropped.
Shutdown ==
  /\ proxy = "select" /\ signalled
  /\ proxy' = "shutdown"
  /\ listener' = (IF listener = "serving" THEN "closed" ELSE listener)
  /\ UNCHANGED <<env, main, code, signalled, upstream, web, errCh, answer, failed>>

\* Mutant of ServeResult: an orderly end is an error, too.
ServeResultRaw(l) == "error"

\* A listener that was shut down has not failed (isServerClosedErr).
ServeResult(l) == IF l = "closed" THEN "nil" ELSE "error"

ServeReturns ==
  /\ proxy \in {"select", "shutdown"}
  /\ listener \in {"closed", "failed"}
  /\ proxy' = "done" /\ listener' = "off"
  /\ errCh' = Append(errCh, ServeResult(listener))
  /\ UNCHANGED <<env, main, code, signalled, upstream, web, answer, failed>>

-----------------------------------------------------------------------------
(* The web server.                                                         *)

\* Mutant of RunReturns: nobody hears of it.
RunDies == web' = "done" /\ UNCHANGED errCh

RunReturns == web' = "done" /\ errCh' = Append(errCh, "error")

\* One step of web.Run that ends in an error, or goes on.
RunStep(at, ok, next) ==
  /\ web = at
  /\ IF ok THEN web' = next /\ UNCHANGED errCh ELSE RunReturns
  /\ UNCHANGED <<env, main, code, signalled, upstream, proxy, listener, answer, failed>>

LoadConfig     == RunStep("load", Loads(env.settings), "templates")
ParseTemplates == RunStep("templates", env.templates, "listen")
ListenHTTP     == RunStep("listen", env.httpPort = "free", "serving")

WebFails ==
  /\ web = "serving"
  /\ RunReturns
  /\ failed' = TRUE
  /\ UNCHANGED <<env, main, code, signalled, upstream, proxy, listener, answer>>

Receive(q) ==
  /\ web = "serving"
  /\ answer' = [request |-> q, verdict |-> Verdict(Config(env.settings), q)]
  /\ UNCHANGED <<env, main, code, signalled, upstream, Goroutines, failed>>

-----------------------------------------------------------------------------

Signal ==
  /\ ~signalled /\ main # "exited"
  /\ signalled' = TRUE
  /\ IF main = "flags" \/ env.command = "web"
     THEN Exit("signal") ELSE UNCHANGED <<main, code, Goroutines>>
  /\ UNCHANGED <<env, upstream, answer, failed>>

Main  == Flags \/ StartDNS \/ StartHTTP \/ ExitOnSignal \/ ExitOnError
Proxy == ServeDNS \/ Shutdown \/ ServeReturns
Web   == LoadConfig \/ ParseTemplates \/ ListenHTTP

Next ==
  \/ Main \/ Proxy \/ Listen \/ Web
  \/ ListenerFails \/ WebFails \/ Signal
  \/ \E q \in Requests : Receive(q)

Spec == Init /\ [][Next]_vars

\* Every goroutine runs on while it can.
FairSpec ==
  /\ Spec
  /\ WF_vars(Main) /\ WF_vars(Proxy) /\ WF_vars(Listen) /\ WF_vars(Web)

-----------------------------------------------------------------------------
(* Properties.                                                             *)

Defective(e) ==
  \/ ~e.http /\ ~e.dns
  \/ ~Loads(e.settings)
  \/ e.http /\ (~e.templates \/ e.httpPort = "taken")
  \/ e.dns /\ (resolveUpstream(e) = Unset \/ e.dnsPort # "free")

\* The exit status tells an orchestrator the truth: success only for a process
\* that was told to stop, and failure only for one that could not start or run,
\* however a signal, the shutdown of the proxy and the end of a server overlap.
StatusIsTrue ==
  /\ code \in {"0", "signal"} => signalled
  /\ code = "1" => failed \/ Defective(env)

\* The upstream in use is the first that is configured, in the order flag,
\* variable, resolv.conf; a defect of it is never passed over for the next one.
Configured(e) ==
  LET one(v) == IF v = Unset THEN <<>> ELSE <<v>>
  IN  one(e.flag) \o one(e.var) \o (IF e.resolvReadable THEN e.resolv ELSE <<>>)

FirstUpstream ==
  proxy # "off" => /\ Configured(env) # <<>>
                   /\ upstream = Configured(env)[1] /\ upstream # Malformed

\* Behind requireAdmin comes only he whom the settings list as an admin and the
\* configured provider, and no other header, names; in test mode, which is on
\* if both overrides are set, headers count for nothing.  That is what the code
\* makes of the default role; the documents give it to everyone, see
\* DefaultRoleHolds.
AdminsAreListed ==
  answer # None /\ answer.verdict = "handled" /\ answer.request.admin =>
    LET s == env.settings
        sent == answer.request.headers
        listed(id) == \E a \in s.roleAdminIDs : a.name = id.name /\ ~id.padded /\ id # Empty
    IN  IF s.overrideUserID # Empty /\ s.overrideEmail # Empty
        THEN listed(s.overrideUserID) \/ s.roleDefault.word = "admin"
        ELSE IF s.authMode.word = "oauth2_proxy"
        THEN listed(TrimSpace(sent["X-Forwarded-User"]))
        ELSE listed(TrimSpace(sent["X-MS-CLIENT-PRINCIPAL-ID"]))

\* A signal ends the process, even if it comes while the DNS listener is not yet
\* up and its shutdown is lost.
SignalEnds == signalled ~> main = "exited"

\* The process does not stay with one of its servers missing: sooner or later
\* all that are enabled serve, or it ends and can be started anew.
AllUp ==
  /\ env.http => web = "serving"
  /\ env.dns => listener = "serving"

NoHalfService == []<>(AllUp \/ main = "exited")

\* No server ends unheard: while main waits, each server that is enabled runs,
\* or a result is in the channel that main will read.
EndsAreHeard ==
  main = "select" /\ errCh = <<>> =>
    /\ env.http => web \notin {"off", "done"}
    /\ env.dns => proxy \notin {"off", "done"}

-----------------------------------------------------------------------------
(* What the documents say, and the code does not keep.                     *)

\* "SSHBASTION_ROLE_DEFAULT ... default role for users not listed in
\* SSHBASTION_ROLE_ADMIN_IDS" (design-overview.md:237-240), with no word of test
\* mode: where the settings make admin the default role, requireAdmin turns
\* nobody away whom Authenticate let in.
DefaultRoleHolds ==
  answer # None /\ env.settings.roleDefault.word = "admin" => answer.verdict # "forbidden"

-----------------------------------------------------------------------------
(* The inductive invariant behind StatusIsTrue and EndsAreHeard.           *)

\* What has been returned, and every listener that stopped, has its cause.
Caused ==
  /\ listener = "closed" => signalled
  /\ listener = "failed" => failed \/ Defective(env)
  /\ \A i \in 1..Len(errCh) :
       IF errCh[i] = "nil" THEN signalled ELSE failed \/ Defective(env)

Started ==
  /\ proxy # "off" => env.dns
  /\ proxy = "off" \/ proxy = "serve" \/ proxy = "done" => listener = "off"
  /\ web # "off" => env.http
  /\ main # "select" => web = "off"
  /\ main = "select" => (env.http => web # "off")
  /\ main \in {"flags", "dns"} => proxy = "off"
  /\ main \in {"http", "select"} => (env.dns => proxy # "off")
  /\ Len(errCh) = (IF proxy = "done" THEN 1 ELSE 0) + (IF web = "done" THEN 1 ELSE 0)

IInv == TypeOK /\ StatusIsTrue /\ Caused /\ Started
=============================================================================
