------------------------------ MODULE ServeProofs ------------------------------
(***************************************************************************)
(* Proofs about `serve', for any surroundings and any requests.  IInv      *)
(* traces every result in the channel, and every listener that stopped, to *)
(* its cause.                                                              *)
(***************************************************************************)
EXTENDS Serve, TLAPS

\* An append to a channel that has room.
LEMMA Sending ==
  ASSUME NEW ch \in Seq({"nil", "error"}), NEW x \in {"nil", "error"}
  PROVE  /\ Append(ch, x) \in Seq({"nil", "error"})
         /\ Len(Append(ch, x)) = Len(ch) + 1
         /\ \A i \in 1..Len(Append(ch, x)) :
              Append(ch, x)[i] = x \/ (i \in 1..Len(ch) /\ Append(ch, x)[i] = ch[i])
  OBVIOUS

\* The first thing in a channel.
LEMMA Receiving ==
  ASSUME NEW ch \in Seq({"nil", "error"}), ch # <<>>
  PROVE  1 \in 1..Len(ch) /\ Head(ch) = ch[1] /\ ch[1] \in {"nil", "error"}
  OBVIOUS

LEMMA Upstreams ==
  ASSUME NEW e \in Surroundings
  PROVE  resolveUpstream(e) \in Address \cup {Unset}
<1>1. e \in Environment
  BY SurroundingsAssumption
<1> QED BY <1>1 DEF Environment, resolveUpstream

LEMMA Verdicts ==
  ASSUME NEW cfg, NEW q
  PROVE  Verdict(cfg, q) \in {"unauthorized", "forbidden", "handled"}
  BY DEF Verdict

-----------------------------------------------------------------------------
(* The invariant, one step after the other.                                *)

LEMMA Initially == Init => IInv
<1> SUFFICES ASSUME Init PROVE IInv
  OBVIOUS
<1>1. errCh \in Seq({"nil", "error"}) /\ Len(errCh) = 0
  BY DEF Init
<1>2. /\ env \in Surroundings /\ main = "flags" /\ code = "none" /\ signalled = FALSE
      /\ upstream = Unset /\ proxy = "off" /\ listener = "off" /\ web = "off"
      /\ answer = None /\ failed = FALSE
  BY DEF Init
<1>3. TypeOK
  <2>1. errCh \in Seq({"nil", "error"}) /\ Len(errCh) <= 2
    BY <1>1
  <2>2. answer \in {None} \cup
          [request : Requests, verdict : {"unauthorized", "forbidden", "handled"}]
    BY <1>2
  <2> QED BY <2>1, <2>2, <1>2 DEF TypeOK
<1>4. StatusIsTrue /\ Caused /\ Started
  BY <1>1 DEF Init, StatusIsTrue, Caused, Started
<1> QED BY <1>3, <1>4 DEF IInv

\* The end of the process for a reason.
LEMMA Exits ==
  ASSUME IInv, NEW status \in {"0", "1", "signal"}, Exit(status),
         status \in {"0", "signal"} => signalled',
         status = "1" => failed \/ Defective(env),
         UNCHANGED <<env, upstream, answer, failed>>, signalled' \in BOOLEAN
  PROVE  IInv'
<1>1. TypeOK'
  <2>1. errCh' \in Seq({"nil", "error"}) /\ Len(errCh') <= 2
    BY DEF Exit
  <2>2. main' = "exited" /\ code' = status /\ proxy' = "off" /\ listener' = "off" /\ web' = "off"
    BY DEF Exit
  <2>3. env' = env /\ upstream' = upstream /\ answer' = answer /\ failed' = failed
    OBVIOUS
  <2> QED BY <2>1, <2>2, <2>3 DEF IInv, TypeOK
<1>2. StatusIsTrue' /\ Caused' /\ Started'
  BY DEF IInv, TypeOK, StatusIsTrue, Caused, Started, Exit, Defective
<1> QED BY <1>1, <1>2 DEF IInv

LEMMA FlagsInv == ASSUME IInv, Flags PROVE IInv'
<1>1. CASE Exit("1") /\ ~env.http /\ ~env.dns
  BY <1>1, Exits DEF Flags, Defective, IInv, TypeOK
<1>2. CASE main' = "dns" /\ UNCHANGED <<code, Goroutines>>
  BY <1>2 DEF IInv, TypeOK, StatusIsTrue, Caused, Started, Flags, Defective, Goroutines
<1> QED BY <1>1, <1>2 DEF Flags

LEMMA StartDNSInv == ASSUME IInv, StartDNS PROVE IInv'
<1>1. CASE ~env.dns
  BY <1>1 DEF IInv, TypeOK, StatusIsTrue, Caused, Started, StartDNS, Defective, Goroutines
<1>2. CASE env.dns /\ resolveUpstream(env) # Unset /\ NewProxy(env)
  <2>1. resolveUpstream(env) \in Address \cup {Unset}
    BY Upstreams DEF IInv, TypeOK
  <2> QED BY <1>2, <2>1 DEF IInv, TypeOK, StatusIsTrue, Caused, Started, StartDNS, Defective
<1>3. CASE env.dns /\ ~(resolveUpstream(env) # Unset /\ NewProxy(env))
  <2>1. Exit("1") /\ UNCHANGED <<env, upstream, answer, failed, signalled>>
    BY <1>3 DEF StartDNS
  <2>2. Defective(env)
    BY <1>3 DEF Defective, NewProxy
  <2> QED BY <2>1, <2>2, Exits DEF IInv, TypeOK
<1> QED BY <1>1, <1>2, <1>3

LEMMA StartHTTPInv == ASSUME IInv, StartHTTP PROVE IInv'
  BY DEF IInv, TypeOK, StatusIsTrue, Caused, Started, StartHTTP, Defective

LEMMA ExitOnSignalInv == ASSUME IInv, ExitOnSignal PROVE IInv'
  BY Exits DEF ExitOnSignal, IInv, TypeOK

LEMMA ExitOnErrorInv == ASSUME IInv, ExitOnError PROVE IInv'
<1>1. errCh \in Seq({"nil", "error"}) /\ errCh # <<>>
  BY DEF IInv, TypeOK, ExitOnError
<1>2. 1 \in 1..Len(errCh) /\ Head(errCh) = errCh[1] /\ errCh[1] \in {"nil", "error"}
  BY <1>1, Receiving
<1>3. IF Head(errCh) = "nil" THEN signalled ELSE failed \/ Defective(env)
  BY <1>2 DEF IInv, Caused
<1>4. CASE Head(errCh) = "error"
  BY <1>3, <1>4, Exits DEF ExitOnError, IInv, TypeOK
<1>5. CASE Head(errCh) = "nil"
  BY <1>3, <1>5, Exits DEF ExitOnError, IInv, TypeOK
<1> QED BY <1>2, <1>4, <1>5

LEMMA ListenersInv ==
  ASSUME IInv, ServeDNS \/ Listen \/ ListenerFails \/ Shutdown PROVE IInv'
<1>1. CASE ServeDNS
  <2>1. TypeOK' /\ StatusIsTrue' /\ Caused'
    BY <1>1 DEF IInv, TypeOK, StatusIsTrue, Caused, ServeDNS, Defective
  <2>2. Started'
    BY <1>1 DEF IInv, Started, ServeDNS
  <2> QED BY <2>1, <2>2 DEF IInv
<1>2. CASE Listen
  <2>1. env.dns
    BY <1>2 DEF IInv, Started, Listen
  <2>2. env.dnsPort # "free" => Defective(env)
    BY <2>1 DEF Defective
  <2>3. TypeOK' /\ StatusIsTrue'
    BY <1>2 DEF IInv, TypeOK, StatusIsTrue, Listen, Defective
  <2>4. Caused' /\ Started'
    BY <1>2, <2>2 DEF IInv, Caused, Started, Listen, Defective
  <2> QED BY <2>3, <2>4 DEF IInv
<1>3. CASE ListenerFails
  BY <1>3 DEF IInv, TypeOK, StatusIsTrue, Caused, Started, ListenerFails, Defective
<1>4. CASE Shutdown
  <2>1. TypeOK' /\ StatusIsTrue' /\ Caused'
    BY <1>4 DEF IInv, TypeOK, StatusIsTrue, Caused, Shutdown, Defective
  <2>2. Started'
    BY <1>4 DEF IInv, Started, Shutdown
  <2> QED BY <2>1, <2>2 DEF IInv
<1> QED BY <1>1, <1>2, <1>3, <1>4

LEMMA ServeReturnsInv == ASSUME IInv, ServeReturns PROVE IInv'
<1> DEFINE x == ServeResult(listener)
<1>1. x \in {"nil", "error"} /\ errCh \in Seq({"nil", "error"})
  BY DEF ServeResult, IInv, TypeOK
<1>2. IF x = "nil" THEN signalled ELSE failed \/ Defective(env)
  BY DEF ServeResult, IInv, Caused, ServeReturns
<1>3. /\ Append(errCh, x) \in Seq({"nil", "error"})
      /\ Len(Append(errCh, x)) = Len(errCh) + 1
      /\ \A i \in 1..Len(Append(errCh, x)) :
           Append(errCh, x)[i] = x \/ (i \in 1..Len(errCh) /\ Append(errCh, x)[i] = errCh[i])
  BY <1>1, Sending
<1>4. errCh' = Append(errCh, x)
  BY DEF ServeReturns
<1> HIDE DEF x
<1>5. Len(errCh) <= 1 /\ Len(errCh) \in Nat
  BY <1>1 DEF IInv, Started, ServeReturns
<1>6. TypeOK'
  BY <1>3, <1>4, <1>5 DEF IInv, TypeOK, ServeReturns
<1>7. StatusIsTrue' /\ Started'
  BY <1>3, <1>4, <1>5 DEF IInv, TypeOK, StatusIsTrue, Started, ServeReturns, Defective
<1>8. Caused'
  BY <1>1, <1>2, <1>3, <1>4 DEF IInv, Caused, ServeReturns, Defective
<1> QED BY <1>6, <1>7, <1>8 DEF IInv

\* The end of the web server for a reason.
LEMMA Returns ==
  ASSUME IInv, RunReturns, web \in {"load", "templates", "listen", "serving"},
         failed' \/ Defective(env), failed' \in BOOLEAN, failed => failed',
         UNCHANGED <<env, main, code, signalled, upstream, proxy, listener, answer>>
  PROVE  IInv'
<1>1. errCh \in Seq({"nil", "error"})
  BY DEF IInv, TypeOK
<1>2. /\ Append(errCh, "error") \in Seq({"nil", "error"})
      /\ Len(Append(errCh, "error")) = Len(errCh) + 1
      /\ \A i \in 1..Len(Append(errCh, "error")) :
           \/ Append(errCh, "error")[i] = "error"
           \/ i \in 1..Len(errCh) /\ Append(errCh, "error")[i] = errCh[i]
  BY <1>1, Sending
<1>3. errCh' = Append(errCh, "error") /\ web' = "done"
  BY DEF RunReturns
<1>4. Len(errCh) <= 1 /\ Len(errCh) \in Nat
  BY <1>1 DEF IInv, Started
<1>5. TypeOK'
  BY <1>2, <1>3, <1>4 DEF IInv, TypeOK
<1>6. StatusIsTrue' /\ Started'
  BY <1>2, <1>3, <1>4 DEF IInv, TypeOK, StatusIsTrue, Started, Defective
<1>7. Caused'
  BY <1>2, <1>3 DEF IInv, Caused, Defective
<1> QED BY <1>5, <1>6, <1>7 DEF IInv

LEMMA WebInv == ASSUME IInv, Web \/ WebFails PROVE IInv'
<1>1. ASSUME NEW at \in {"load", "templates", "listen"}, NEW ok,
             NEW next \in {"templates", "listen", "serving"},
             RunStep(at, ok, next), ~ok => Defective(env)
      PROVE  IInv'
  <2>1. CASE ok
    BY <1>1, <2>1 DEF RunStep, IInv, TypeOK, StatusIsTrue, Caused, Started, Defective
  <2>2. CASE ~ok
    BY <1>1, <2>2, Returns DEF RunStep, IInv, TypeOK
  <2> QED BY <2>1, <2>2
<1>2. web # "off" => env.http
  BY DEF IInv, Started
<1>3. env.httpPort \in {"free", "taken"} 
  BY SurroundingsAssumption DEF IInv, TypeOK, Environment
<1>4. CASE LoadConfig
  BY <1>1, <1>4 DEF LoadConfig, Defective
<1>5. CASE ParseTemplates
  BY <1>1, <1>2, <1>5 DEF ParseTemplates, RunStep, Defective
<1>6. CASE ListenHTTP
  BY <1>1, <1>2, <1>3, <1>6 DEF ListenHTTP, RunStep, Defective
<1>7. CASE WebFails
  BY <1>7, Returns DEF WebFails, IInv, TypeOK
<1> QED BY <1>4, <1>5, <1>6, <1>7 DEF Web

LEMMA SignalInv == ASSUME IInv, Signal PROVE IInv'
<1>1. CASE main = "flags" \/ env.command = "web"
  BY <1>1, Exits DEF Signal, IInv, TypeOK
<1>2. CASE ~(main = "flags" \/ env.command = "web")
  BY <1>2 DEF Signal, Goroutines, IInv, TypeOK, StatusIsTrue, Caused, Started, Defective
<1> QED BY <1>1, <1>2

LEMMA ReceiveInv == ASSUME IInv, NEW q \in Requests, Receive(q) PROVE IInv'
<1>1. Verdict(Config(env.settings), q) \in {"unauthorized", "forbidden", "handled"}
  BY Verdicts
<1> QED BY <1>1 DEF Receive, Goroutines, IInv, TypeOK, StatusIsTrue, Caused, Started, Defective

LEMMA Stepwise == IInv /\ [Next]_vars => IInv'
<1> SUFFICES ASSUME IInv, [Next]_vars PROVE IInv'
  OBVIOUS
<1>1. CASE Main
  BY <1>1, FlagsInv, StartDNSInv, StartHTTPInv, ExitOnSignalInv, ExitOnErrorInv DEF Main
<1>2. CASE Proxy \/ Listen \/ ListenerFails
  BY <1>2, ListenersInv, ServeReturnsInv DEF Proxy
<1>3. CASE Web \/ WebFails
  BY <1>3, WebInv
<1>4. CASE Signal
  BY <1>4, SignalInv
<1>5. CASE \E q \in Requests : Receive(q)
  BY <1>5, ReceiveInv
<1>6. CASE UNCHANGED vars
  BY <1>6 DEF vars, IInv, TypeOK, StatusIsTrue, Caused, Started, Defective
<1> QED BY <1>1, <1>2, <1>3, <1>4, <1>5, <1>6 DEF Next

\* Every result and every stopped listener has its cause, at any time.
THEOREM Inductive == Spec => []IInv
  BY Initially, Stepwise, PTL DEF Spec

\* The types hold, and no server ever waits to hand in its result.
THEOREM TypeCorrect == Spec => []TypeOK
<1>1. IInv => TypeOK
  BY DEF IInv
<1> QED BY <1>1, Inductive, PTL

\* The exit status tells the truth in any surroundings, in whatever order a
\* signal, the shutdown of the proxy and the end of a server come.
THEOREM StatusTold == Spec => []StatusIsTrue
<1>1. IInv => StatusIsTrue
  BY DEF IInv
<1> QED BY <1>1, Inductive, PTL

\* Whatever fails and whenever: no server ends without main hearing of it, so
\* main never waits on while a server that was enabled is gone.
THEOREM NoServerMissed == Spec => []EndsAreHeard
<1>1. IInv => EndsAreHeard
  <2> SUFFICES ASSUME IInv, main = "select", errCh = <<>>
               PROVE  /\ env.http => web \notin {"off", "done"}
                      /\ env.dns => proxy \notin {"off", "done"}
    BY DEF EndsAreHeard
  <2>1. Len(errCh) = 0
    OBVIOUS
  <2>2. proxy # "done" /\ web # "done"
    BY <2>1 DEF IInv, Started
  <2> QED BY <2>2 DEF IInv, Started
<1> QED BY <1>1, Inductive, PTL

-----------------------------------------------------------------------------
(* The upstream and the access check.                                      *)

UpstreamInv ==
  proxy # "off" => upstream = resolveUpstream(env) /\ upstream # Unset

AnswerInv ==
  /\ web \in {"templates", "listen", "serving"} => Loads(env.settings)
  /\ answer # None => /\ Loads(env.settings)
                      /\ answer.verdict = Verdict(Config(env.settings), answer.request)

\* What resolveUpstream finds is the first of everything that is configured.
LEMMA FirstConfigured ==
  ASSUME NEW e \in Surroundings, resolveUpstream(e) # Unset
  PROVE  /\ Configured(e) # <<>> /\ resolveUpstream(e) = Configured(e)[1]
         /\ resolveUpstream(e) # Malformed
<1> DEFINE Given(v) == IF v = Unset THEN <<>> ELSE <<v>>
           Lines == IF e.resolvReadable THEN e.resolv ELSE <<>>
<1>1. /\ e.flag \in Address \cup {Unset} /\ e.var \in Address \cup {Unset}
      /\ e.resolv \in Seq(Address \cup {Malformed})
  BY SurroundingsAssumption DEF Environment
<1>2. Configured(e) = Given(e.flag) \o Given(e.var) \o Lines
  BY DEF Configured
<1>3. CASE e.flag # Unset
  <2>1. Configured(e) = <<e.flag>> \o Given(e.var) \o Lines
    BY <1>2, <1>3
  <2> QED BY <1>1, <1>3, <2>1, AddressAssumption DEF resolveUpstream
<1>4. CASE e.flag = Unset /\ e.var # Unset
  <2>1. Configured(e) = <<>> \o <<e.var>> \o Lines
    BY <1>2, <1>4
  <2> QED BY <1>1, <1>4, <2>1, AddressAssumption DEF resolveUpstream
<1>5. CASE e.flag = Unset /\ e.var = Unset
  <2>1. e.resolvReadable /\ e.resolv # <<>> /\ Head(e.resolv) \in Address
        /\ resolveUpstream(e) = Head(e.resolv)
    BY <1>5 DEF resolveUpstream
  <2>2. Configured(e) = <<>> \o <<>> \o e.resolv
    BY <1>2, <1>5, <2>1
  <2>3. Configured(e) = e.resolv
    BY <1>1, <2>2
  <2> QED BY <1>1, <2>1, <2>3, AddressAssumption
<1> QED BY <1>3, <1>4, <1>5

\* In any surroundings the proxy asks the upstream that comes first.
THEOREM UpstreamIsFirst == Spec => []FirstUpstream
<1>1. Init => UpstreamInv
  BY DEF Init, UpstreamInv
<1>2. IInv /\ UpstreamInv /\ [Next]_vars => UpstreamInv'
  <2> SUFFICES ASSUME IInv, UpstreamInv, [Next]_vars PROVE UpstreamInv'
    OBVIOUS
  <2>1. CASE StartDNS
    BY <2>1 DEF StartDNS, UpstreamInv, Exit, IInv, Started, Goroutines
  <2>2. CASE Main /\ ~StartDNS
    BY <2>2 DEF Main, Flags, StartHTTP, ExitOnSignal, ExitOnError, Exit, Goroutines, UpstreamInv
  <2>3. CASE Proxy \/ Listen \/ ListenerFails
    BY <2>3 DEF Proxy, ServeDNS, Shutdown, ServeReturns, Listen, ListenerFails, UpstreamInv
  <2>4. CASE Web \/ WebFails
    BY <2>4 DEF Web, LoadConfig, ParseTemplates, ListenHTTP, RunStep, WebFails, UpstreamInv
  <2>5. CASE Signal \/ (\E q \in Requests : Receive(q)) \/ UNCHANGED vars
    BY <2>5 DEF Signal, Exit, Goroutines, Receive, vars, UpstreamInv
  <2> QED BY <2>1, <2>2, <2>3, <2>4, <2>5 DEF Next
<1>3. IInv /\ UpstreamInv => FirstUpstream
  <2> SUFFICES ASSUME IInv, UpstreamInv, proxy # "off"
               PROVE  /\ Configured(env) # <<>>
                      /\ upstream = Configured(env)[1] /\ upstream # Malformed
    BY DEF FirstUpstream
  <2>1. env \in Surroundings /\ upstream = resolveUpstream(env) /\ upstream # Unset
    BY DEF IInv, TypeOK, UpstreamInv
  <2> QED BY <2>1, FirstConfigured
<1> QED BY <1>1, <1>2, <1>3, Inductive, PTL DEF Spec

\* Whoever the settings list, and whatever the headers: no one else gets behind
\* requireAdmin.
THEOREM OnlyAdmins == Spec => []AdminsAreListed
<1>1. Init => AnswerInv
  BY DEF Init, AnswerInv
<1>2. AnswerInv /\ [Next]_vars => AnswerInv'
  <2> SUFFICES ASSUME AnswerInv, [Next]_vars PROVE AnswerInv'
    OBVIOUS
  <2>1. CASE \E q \in Requests : Receive(q)
    BY <2>1 DEF Receive, AnswerInv
  <2>2. CASE Main \/ Signal
    <3>1. UNCHANGED <<env, answer>> /\ (web' = web \/ web' \in {"off", "load"})
      BY <2>2 DEF Main, Flags, StartDNS, StartHTTP, ExitOnSignal, ExitOnError, Exit, Signal,
                  Goroutines
    <3> QED BY <3>1 DEF AnswerInv
  <2>3. CASE Proxy \/ Listen \/ ListenerFails \/ UNCHANGED vars
    BY <2>3 DEF Proxy, ServeDNS, Shutdown, ServeReturns, Listen, ListenerFails, vars, AnswerInv
  <2>4. CASE Web \/ WebFails
    BY <2>4 DEF Web, LoadConfig, ParseTemplates, ListenHTTP, RunStep, RunReturns, WebFails,
                AnswerInv
  <2> QED BY <2>1, <2>2, <2>3, <2>4 DEF Next
<1>3. IInv /\ AnswerInv => AdminsAreListed
  <2> SUFFICES ASSUME IInv, AnswerInv, answer # None,
                      answer.verdict = "handled", answer.request.admin
               PROVE  AdminsAreListed
    BY DEF AdminsAreListed
  <2> DEFINE s == env.settings
             cfg == Config(env.settings)
             q == answer.request
             who == Identity(Config(env.settings), answer.request)
  <2>1. s \in Settings /\ q \in Request
    BY SurroundingsAssumption DEF IInv, TypeOK, Environment, None
  <2>2. Loads(s)
    BY DEF AnswerInv
  <2>3. who.id # Empty /\ Role(cfg, who) = "admin"
    BY DEF AnswerInv, Verdict, Known
  <2>4. who.id \in cfg.roleAdminIDs \/ (Override(cfg) /\ cfg.roleDefault = "admin")
    BY <2>3 DEF Role
  <2>5. ASSUME who.id \in cfg.roleAdminIDs
        PROVE  \E a \in s.roleAdminIDs : a.name = who.id.name /\ ~who.id.padded
    <3>1. PICK a \in s.roleAdminIDs : who.id = TrimSpace(a)
      BY <2>5 DEF Config
    <3>2. a \in Text
      BY <2>1 DEF Settings
    <3>3. who.id.name = a.name /\ who.id.padded = FALSE
      BY <3>1, <3>2 DEF TrimSpace, Text
    <3> QED BY <3>3
  <2>6. CASE Override(cfg)
    <3>1. /\ s.overrideUserID # Empty /\ s.overrideEmail # Empty
          /\ who.id = s.overrideUserID
      BY <2>6 DEF Override, Config, Identity
    <3>2. cfg.roleDefault = "admin" => s.roleDefault.word = "admin"
      BY DEF Config, getEnv
    <3> QED BY <2>3, <2>4, <2>5, <3>1, <3>2 DEF AdminsAreListed
  <2>7. CASE ~Override(cfg)
    <3>1. ~(s.overrideUserID # Empty /\ s.overrideEmail # Empty)
      BY <2>7 DEF Override, Config
    <3>2. who.id = TrimSpace(q.headers[Header[cfg.authMode].id])
      BY <2>7 DEF Identity
    <3>3. IF s.authMode.word = "oauth2_proxy"
          THEN Header[cfg.authMode].id = "X-Forwarded-User"
          ELSE Header[cfg.authMode].id = "X-MS-CLIENT-PRINCIPAL-ID"
      <4>1. /\ cfg.authMode \in Providers
            /\ cfg.authMode = "oauth2_proxy" <=> s.authMode.word = "oauth2_proxy"
        BY <2>2 DEF Config, getEnv, Loads, Providers
      <4>2. /\ Header["oauth2_proxy"].id = "X-Forwarded-User"
            /\ Header["easy_auth"].id = "X-MS-CLIENT-PRINCIPAL-ID"
        BY DEF Header
      <4> QED BY <4>1, <4>2 DEF Providers
    <3> QED BY <2>3, <2>4, <2>5, <2>7, <3>1, <3>2, <3>3 DEF AdminsAreListed
  <2> QED BY <2>6, <2>7
<1> QED BY <1>1, <1>2, <1>3, Inductive, PTL DEF Spec
=============================================================================
