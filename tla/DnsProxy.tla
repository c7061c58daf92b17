------------------------------- MODULE DnsProxy -------------------------------
(***************************************************************************)
(* The DNS proxy, together with the alias registry that it reads:          *)
(* handleDNS and forward.  Every query runs in a goroutine of its own.     *)
(* It reads the aliases from the file, once per query, and asks upstream at*)
(* most once, while the admin page goes on changing the file.              *)
(*                                                                         *)
(* A name in a message has a spelling: DNS keeps the case of letters and   *)
(* compares without it.  A message is the query type and the name of its   *)
(* question; a reply also has its owners of CNAME and of A (or AAAA)       *)
(* records.  Upstream is not part of the program: any reply that fits the  *)
(* question may come, or none, which the Timeout of the client ends.       *)
(***************************************************************************)
EXTENDS DnsRegistry

CONSTANTS
  Queries,      \* queries the proxy handles at the same time
  NoName        \* no name

ASSUME NoNameAssumption == NoName \notin Names \cup [name : Names, capital : BOOLEAN]

VARIABLES
  aliasesOnly,  \* SSHBASTION_DNS_ALIASES_ONLY
  qpc,          \* qpc[q]: what the goroutine of q does next
  question,     \* question[q]: what the client asked
  asked,        \* asked[q]: the name that was asked upstream
  answer,       \* answer[q]: the reply to the client
  seen          \* history: seen[q], the destinations the file has had for
                \* the name since q came, NoName for a file without it

proxy == <<aliasesOnly, qpc, question, asked, answer, seen>>
vars  == <<registry, proxy>>

Spelled == [name : Names, capital : BOOLEAN]

\* "address" is A or AAAA, "other" any other type, "many" several questions.
Question == [type : {"address", "other", "many"}, name : Spelled]

Nothing == [rcode |-> "none"]

Reply ==
  [rcode : {"noerror", "nxdomain"}, name : Spelled,
   cnames : SUBSET Spelled, addresses : SUBSET Spelled]

ServFail == [rcode |-> "servfail"]

NoQuestion == [type |-> "none"]

TypeOK ==
  /\ RegistryTypeOK
  /\ aliasesOnly \in BOOLEAN
  /\ qpc \in [Queries -> {"idle", "list", "ask", "askdest", "done"}]
  /\ question \in [Queries -> Question \cup {NoQuestion}]
  /\ \A q \in Queries : qpc[q] = "idle" <=> question[q] = NoQuestion
  /\ asked \in [Queries -> Spelled \cup {NoName}]
  /\ \A q \in Queries : qpc[q] \in {"ask", "askdest"} => asked[q] \in Spelled
  /\ answer \in [Queries -> Reply \cup {ServFail, Nothing}]
  /\ seen \in [Queries -> SUBSET (Names \cup {NoName})]

Init ==
  /\ RegistryInit
  /\ aliasesOnly \in BOOLEAN
  /\ qpc = [q \in Queries |-> "idle"]
  /\ question = [q \in Queries |-> NoQuestion]
  /\ asked = [q \in Queries |-> NoName]
  /\ answer = [q \in Queries |-> Nothing]
  /\ seen = [q \in Queries |-> {}]

-----------------------------------------------------------------------------

\* The destinations of a name in a list, NoName where it has none.
Destinations(list, name) ==
  IF Of(list, name) = {} THEN {NoName} ELSE {a.destination : a \in Of(list, name)}

\* Mutant of Matches: the letters must be the same.
MatchesExactly(alias, name) == alias.source = name.name /\ ~name.capital

\* strings.EqualFold; a stored name has small letters.
Matches(alias, name) == alias.source = name.name

Empty(name, rcode) ==
  [rcode |-> rcode, name |-> name, cnames |-> {}, addresses |-> {}]

Finish(q, a) ==
  /\ answer' = [answer EXCEPT ![q] = a]
  /\ qpc' = [qpc EXCEPT ![q] = "done"]

\* One question goes upstream, and place says what becomes of the reply.
Ask(q, place, name) ==
  /\ asked' = [asked EXCEPT ![q] = name]
  /\ qpc' = [qpc EXCEPT ![q] = place]
  /\ UNCHANGED answer

\* What upstream may say of a name: no address, addresses of the name itself,
\* in any letters, or an alias of another name and the addresses of that one.
FromUpstream(name) ==
  LET Filled(c, s) == [Empty(name, "noerror") EXCEPT !.cnames = c, !.addresses = {s}]
      Same  == {s \in Spelled : s.name = name.name}
      Other == {s \in Spelled : s.name # name.name /\ ~s.capital}
  IN  {Empty(name, "noerror"), Empty(name, "nxdomain")}
        \cup {Filled({}, s) : s \in Same}
        \cup {Filled({name}, s) : s \in Other}

RewrittenExactly(reply, from, to) ==    \* mutant: the letters must be the same
  [reply EXCEPT !.name = to,
                !.addresses = {IF s = from THEN to ELSE s : s \in @}]

\* The reply for the destination, made one for the name that was asked: the
\* question (which upstream repeats, as any that answers it does) and the owners
\* of address records that are the destination's, but not the records of a
\* chain from it.
Rewritten(reply, from, to) ==
  [reply EXCEPT !.name = to,
                !.addresses = {IF s.name = from.name THEN to ELSE s : s \in @}]

-----------------------------------------------------------------------------

\* A query comes.  forward sends several questions on as they are and answers
\* types other than A and AAAA itself; a query with no question, which is
\* answered with ServFail, is left out.
Receive(q, qu) ==
  /\ qpc[q] = "idle"
  /\ question' = [question EXCEPT ![q] = qu]
  /\ seen' = [seen EXCEPT ![q] = Destinations(aliases, qu.name.name)]
  /\ \/ /\ qu.type = "many"
        /\ Ask(q, "ask", qu.name)
     \/ /\ qu.type = "other"
        /\ Finish(q, Empty(qu.name, "noerror"))
        /\ UNCHANGED asked
     \/ /\ qu.type = "address"
        /\ qpc' = [qpc EXCEPT ![q] = "list"]
        /\ UNCHANGED <<answer, asked>>
  /\ UNCHANGED <<registry, aliasesOnly>>

UnaliasedGoesOn(q) == Ask(q, "ask", question[q].name)   \* mutant: in either mode

\* No alias has the name.
Unaliased(q) ==
  \/ aliasesOnly /\ Finish(q, Empty(question[q].name, "nxdomain")) /\ UNCHANGED asked
  \/ ~aliasesOnly /\ Ask(q, "ask", question[q].name)

\* The list cannot be read.
Unlisted(q) == Finish(q, ServFail) /\ UNCHANGED asked

\* The file is read anew for every query.
List(q) ==
  /\ qpc[q] = "list"
  /\ LET found == {a \in aliases : Matches(a, question[q].name)}
     IN  \/ /\ \E a \in found :
                 Ask(q, "askdest", [name |-> a.destination, capital |-> FALSE])
            /\ NoFault
         \/ found = {} /\ Unaliased(q) /\ NoFault
         \/ Unlisted(q) /\ Fault
  /\ UNCHANGED <<aliases, pc, req, copy, stale, aliasesOnly, question, seen>>

\* client.Exchange: a reply comes, or an error or the timeout ends the call.
Exchange(q) ==
  /\ qpc[q] \in {"ask", "askdest"}
  /\ \/ \E reply \in FromUpstream(asked[q]) :
          Finish(q, IF qpc[q] = "ask" THEN reply
                    ELSE Rewritten(reply, asked[q], question[q].name))
     \/ Finish(q, ServFail)
  /\ UNCHANGED <<registry, aliasesOnly, question, asked, seen>>

\* The reply is on its way, and nothing waits for its fate.
Reset(q) ==
  /\ qpc[q] = "done"
  /\ qpc' = [qpc EXCEPT ![q] = "idle"]
  /\ question' = [question EXCEPT ![q] = NoQuestion]
  /\ asked' = [asked EXCEPT ![q] = NoName]
  /\ answer' = [answer EXCEPT ![q] = Nothing]
  /\ seen' = [seen EXCEPT ![q] = {}]
  /\ UNCHANGED <<registry, aliasesOnly>>

\* A step of the admin page, and what the queries see of it.
Admin ==
  /\ RegistryNext
  /\ seen' = [q \in Queries |->
                IF qpc[q] \in {"idle", "done"} THEN seen[q]
                ELSE seen[q] \cup Destinations(aliases', question[q].name.name)]
  /\ UNCHANGED <<aliasesOnly, qpc, question, asked, answer>>

Next ==
  \/ Admin
  \/ \E q \in Queries :
       \/ \E qu \in Question : Receive(q, qu)
       \/ List(q) \/ Exchange(q) \/ Reset(q)

Spec == Init /\ [][Next]_vars

-----------------------------------------------------------------------------
(* Properties.                                                             *)

\* The query is one that aliases are for, and was answered with a reply.
Answers(q) ==
  /\ qpc[q] = "done" /\ answer[q] # ServFail
  /\ question[q].type = "address"

\* "Alias updates take effect without a DNS reload": an answer is that of a
\* list which was in force between the query and the answer, also where the
\* read of the list fails and whatever the letters of the name.  It comes from
\* the destination of the name in that list, or, where the name has none,
\* from the name itself, which aliases-only mode does not ask upstream.
AnswerInForce ==
  \A q \in Queries : Answers(q) =>
    \/ asked[q] # NoName /\ asked[q].name \in seen[q]
    \/ NoName \in seen[q] /\ ~aliasesOnly /\ asked[q] = question[q].name
    \/ NoName \in seen[q] /\ aliasesOnly /\ asked[q] = NoName
         /\ answer[q].rcode = "nxdomain"

\* The proxy sends no name upstream on its own account: in aliases-only mode
\* only destinations that the name has had since the query came, and queries
\* of several questions, which forward does not look into.
OnlyDestinationsAsked ==
  \A q \in Queries :
    aliasesOnly /\ asked[q] # NoName /\ question[q].type # "many" =>
      asked[q].name \in seen[q]

\* The client looks for its own name.  An answer repeats its question, and an
\* address that upstream gave for the destination of the alias, in any letters
\* and beside whatever other records, is no longer owned by the destination.
OwnersRestored ==
  \A q \in Queries : Answers(q) =>
    /\ answer[q].name = question[q].name
    /\ asked[q] # NoName =>
         \A s \in answer[q].addresses :
           s.name = asked[q].name => s.name = question[q].name.name

-----------------------------------------------------------------------------
(* What the documents say, and the code does not keep.                     *)

\* "Rewrite the response owner names for A/AAAA records back to the original
\* QNAME" and "return direct A/AAAA answers with the original owner name ...
\* to avoid relying on client-side CNAME chasing" (design-app-dns.md:121 and
\* :127): a name that was an alias of another name from the query to the answer
\* owns every address of the answer.
DirectAnswers ==
  \A q \in Queries :
    LET name == question[q].name.name
    IN  Answers(q) /\ asked[q] # NoName /\ seen[q] \cap {NoName, name} = {} =>
          \A s \in answer[q].addresses : s.name = name

-----------------------------------------------------------------------------
(* The inductive invariant behind them.                                    *)

\* What a handler is going to write has no source twice either.
CopiesUnique == UniqueSources /\ \A r \in Requests : Unique(copy[r])

\* What a handler is going to write where its copy is fresh.
CopiesReady ==
  \A r \in Requests :
    pc[r] = "save" /\ ~stale[r] => MadeExactly(req[r], aliases, copy[r])

\* How far an address query has come, and what the file said of its name.
QueryInForce(q) ==
  LET current == Destinations(aliases, question[q].name.name)
  IN  /\ qpc[q] = "idle" => asked[q] = NoName
      /\ qpc[q] = "list" => asked[q] = NoName /\ current \subseteq seen[q]
      /\ qpc[q] = "ask" /\ question[q].type = "address" =>
           asked[q] = question[q].name /\ ~aliasesOnly /\ NoName \in seen[q]
      /\ qpc[q] = "askdest" => asked[q] # NoName /\ asked[q].name \in seen[q]
      /\ qpc[q] \in {"list", "askdest"} => question[q].type = "address"
      /\ qpc[q] = "ask" => question[q].type # "other"
      /\ qpc[q] = "done" /\ question[q].type = "other" => asked[q] = NoName

IInv ==
  /\ CopiesUnique
  /\ CopiesReady
  /\ \A q \in Queries : QueryInForce(q)
  /\ AnswerInForce
  /\ OnlyDestinationsAsked
=============================================================================
