------------------------------- MODULE MCServe -------------------------------
(***************************************************************************)
(* Three families of surroundings: where the upstream comes from, what may *)
(* go wrong at the start, and who may do what.                             *)
(***************************************************************************)
EXTENDS Serve

CONSTANTS alice, bob, ns1, ns2

Word(w) == [word |-> w, exact |-> TRUE]
Loose(w) == [word |-> w, exact |-> FALSE]
Is(n) == [name |-> n, padded |-> FALSE]
Padded(n) == [name |-> n, padded |-> TRUE]

Plain ==
  [command |-> "serve", http |-> TRUE, dns |-> TRUE, flag |-> ns1, var |-> Unset,
   resolv |-> <<>>, resolvReadable |-> TRUE,
   settings |-> [logLevel |-> Word(""), dataDir |-> Word("/data"), authMode |-> Word(""),
                 roleDefault |-> Word(""), overrideUserID |-> Empty, overrideEmail |-> Empty,
                 roleAdminIDs |-> {Padded(alice)}],
   templates |-> TRUE, httpPort |-> "free", dnsPort |-> "free"]

Resolving ==
  {[Plain EXCEPT !.http = FALSE, !.flag = f, !.var = v, !.resolv = r, !.resolvReadable = ok] :
     f \in {Unset, ns1}, v \in {Unset, ns2},
     r \in {<<>>, <<ns1>>, <<Malformed, ns1>>}, ok \in BOOLEAN}

Failing ==
  {[Plain EXCEPT !.http = h, !.dns = d, !.settings.logLevel = l, !.templates = t,
                 !.httpPort = hp, !.dnsPort = dp] :
     h \in BOOLEAN, d \in BOOLEAN, l \in {Loose("blank"), Word("?")}, t \in BOOLEAN,
     hp \in {"free", "taken"}, dp \in {"free", "taken", "blank"}} \cup
  {[Plain EXCEPT !.command = "web", !.dns = FALSE, !.httpPort = hp] : hp \in {"free", "taken"}}

People ==
  {[Plain EXCEPT !.dns = FALSE, !.settings.authMode = m, !.settings.roleDefault = r,
                 !.settings.overrideUserID = i, !.settings.overrideEmail = e,
                 !.settings.roleAdminIDs = a] :
     m \in {Word(""), Word("oauth2_proxy"), Loose("easy_auth")},
     r \in {Word(""), Loose("admin"), Loose("blank")},
     i \in {Empty, Is(bob), Padded(alice), Padded(Nobody)}, e \in {Empty, Is(bob)},
     a \in {{Padded(alice)}, {Padded(Nobody), Is(bob)}}}

\* Either provider and any default role, outside test mode.
Roles ==
  {[Plain EXCEPT !.dns = FALSE, !.settings.authMode = m, !.settings.roleDefault = r] :
     m \in {Word(""), Word("oauth2_proxy")}, r \in {Word(""), Word("admin")}}

MCSurroundings == Resolving \cup Failing \cup People

\* Nobody, alice, alice without a mail address, or bob in the headers of one
\* provider; nobody or alice in those of the other.
MCRequests ==
  {[admin |-> adm,
    headers |-> [h \in HeaderNames |->
                   IF h = Header.easy_auth.id THEN ms[1]
                   ELSE IF h = Header.easy_auth.email THEN ms[2] ELSE fwd]] :
     adm \in BOOLEAN,
     ms \in {<<Empty, Empty>>, <<Padded(alice), Is(alice)>>, <<Is(alice), Padded(Nobody)>>,
             <<Is(bob), Is(bob)>>},
     fwd \in {Empty, Is(alice)}}
=============================================================================
