---------------------------- MODULE DnsProxyProofs ----------------------------
(***************************************************************************)
(* Proofs about the alias registry and the DNS proxy, for any number of    *)
(* requests, queries, names and faults.                                    *)
(***************************************************************************)
EXTENDS DnsProxy, TLAPS

\* What AddAlias and DeleteAlias make of a list without a double source, when
\* they do not refuse, has none either.
LEMMA AppliedUnique ==
  ASSUME NEW c \in Change, NEW list, Unique(list), ~Refused(c, list)
  PROVE  Unique(Applied(c, list))
<1>1. CASE c.op = "add"
  <2>1. \A a \in list : a.source # c.alias.source
    BY <1>1 DEF Refused, Of
  <2> QED BY <1>1, <2>1 DEF Applied, Unique
<1>2. CASE c.op # "add"
  BY <1>2 DEF Applied, Unique, Of
<1> QED BY <1>1, <1>2

\* A step of the admin page keeps the list and every copy free of doubles.
LEMMA RegistryKeepsUnique ==
  ASSUME RegistryTypeOK, CopiesUnique, RegistryNext
  PROVE  CopiesUnique'
<1> USE DEF CopiesUnique, UniqueSources
<1>t. /\ pc \in [Requests -> {"idle", "load", "save"}]
      /\ copy \in [Requests -> SUBSET Alias]
      /\ \A r \in Requests : pc[r] # "idle" => req[r] \in Change
  BY DEF RegistryTypeOK
<1>0. Unique({})
  BY DEF Unique
<1> PICK r \in Requests : Arrive(r) \/ Load(r) \/ Save(r)
  BY DEF RegistryNext
<1>1. CASE Arrive(r)
  BY <1>1, <1>t DEF Arrive
<1>2. CASE Load(r)
  <2>1. CASE /\ ~Refused(req[r], aliases)
             /\ copy' = [copy EXCEPT ![r] = Applied(req[r], aliases)]
    <3>1. Unique(Applied(req[r], aliases))
      BY <1>2, <1>t, <2>1, AppliedUnique DEF Load
    <3> QED BY <1>2, <1>t, <2>1, <3>1 DEF Load
  <2>2. CASE Answered(r)
    BY <1>0, <1>2, <1>t, <2>2 DEF Load, Answered
  <2> QED BY <1>2, <2>1, <2>2 DEF Load
<1>3. CASE Save(r)
  BY <1>0, <1>3, <1>t DEF Save, Written, Answered
<1> QED BY <1>1, <1>2, <1>3

\* A change that is not refused is made exactly.
LEMMA AppliedExactly ==
  ASSUME NEW c \in Change, NEW list, ~Refused(c, list)
  PROVE  MadeExactly(c, list, Applied(c, list))
  BY DEF Change, Refused, Applied, MadeExactly, Of

\* A copy stays what its list calls for, until another handler saves.
LEMMA RegistryKeepsReady ==
  ASSUME RegistryTypeOK, CopiesReady, RegistryNext
  PROVE  CopiesReady'
<1>t. /\ pc \in [Requests -> {"idle", "load", "save"}]
      /\ req \in [Requests -> Change \cup {Idle}]
      /\ copy \in [Requests -> SUBSET Alias]
      /\ stale \in [Requests -> BOOLEAN]
      /\ \A r \in Requests : pc[r] # "idle" => req[r] \in Change
  BY DEF RegistryTypeOK
<1> PICK r \in Requests : Arrive(r) \/ Load(r) \/ Save(r)
  BY DEF RegistryNext
<1> SUFFICES ASSUME NEW q \in Requests, pc'[q] = "save", ~stale'[q]
             PROVE  MadeExactly(req'[q], aliases', copy'[q])
  BY DEF CopiesReady
<1>1. CASE Arrive(r)
  <2>1. q # r
    BY <1>1, <1>t DEF Arrive
  <2> QED BY <1>1, <1>t, <2>1 DEF Arrive, CopiesReady
<1>2. CASE Load(r)
  <2>1. CASE q # r
    BY <1>2, <1>t, <2>1 DEF Load, Answered, CopiesReady
  <2>2. CASE q = r
    <3>1. ~Answered(r)
      BY <1>t, <2>2 DEF Answered
    <3>2. /\ ~Refused(req[r], aliases) /\ copy'[r] = Applied(req[r], aliases)
          /\ req' = req /\ aliases' = aliases /\ pc[r] = "load"
      BY <1>2, <1>t, <3>1 DEF Load
    <3>3. MadeExactly(req[r], aliases, Applied(req[r], aliases))
      BY <1>t, <3>2, AppliedExactly
    <3> QED BY <2>2, <3>2, <3>3
  <2> QED BY <2>1, <2>2
<1>3. CASE Save(r)
  <2>1. q # r /\ pc[q] = "save" /\ copy'[q] = copy[q] /\ req'[q] = req[q]
    BY <1>3, <1>t DEF Save, Answered
  <2>2. CASE Written(r)
    BY <1>t, <2>1, <2>2 DEF Written
  <2>3. CASE UNCHANGED <<aliases, stale>>
    BY <2>1, <2>3 DEF CopiesReady
  <2> QED BY <1>3, <2>2, <2>3 DEF Save
<1> QED BY <1>1, <1>2, <1>3

-----------------------------------------------------------------------------
(* Type correctness.                                                       *)

LEMMA AppliedType ==
  ASSUME NEW c \in Change, NEW list \in SUBSET Alias
  PROVE  Applied(c, list) \in SUBSET Alias
BY DEF Applied, Change, Of

LEMMA ChangeNotIdle == Idle \notin Change
BY DEF Idle, Change

LEMMA AnsweredTypes ==
  ASSUME RegistryTypeOK, NEW r \in Requests, Answered(r)
  PROVE  /\ pc' \in [Requests -> {"idle", "load", "save"}]
         /\ req' \in [Requests -> Change \cup {Idle}]
         /\ \A q \in Requests : pc'[q] = "idle" <=> req'[q] = Idle
         /\ copy' \in [Requests -> SUBSET Alias]
BY DEF RegistryTypeOK, Answered

LEMMA RegistryKeepsTypes ==
  ASSUME RegistryTypeOK, RegistryNext
  PROVE  RegistryTypeOK'
<1> USE DEF RegistryTypeOK
<1>f. Fault \/ NoFault => faults' \in 0..MaxFaults
  BY FaultsAssumption DEF Fault, NoFault
<1> PICK r \in Requests : Arrive(r) \/ Load(r) \/ Save(r)
  BY DEF RegistryNext
<1>1. CASE Arrive(r)
  BY <1>1, ChangeNotIdle DEF Arrive
<1>2. CASE Load(r)
  <2>s. stale' \in [Requests -> BOOLEAN]
    BY <1>2 DEF Load
  <2>1. CASE Answered(r)
    BY <1>2, <1>f, <2>1, <2>s, AnsweredTypes DEF Load
  <2>2. CASE /\ copy' = [copy EXCEPT ![r] = Applied(req[r], aliases)]
             /\ pc' = [pc EXCEPT ![r] = "save"]
             /\ UNCHANGED req /\ NoFault
    <3>1. pc[r] = "load" /\ req[r] \in Change
      BY <1>2 DEF Load
    <3>2. Applied(req[r], aliases) \in SUBSET Alias
      BY <3>1, AppliedType
    <3>3. copy' \in [Requests -> SUBSET Alias]
      BY <2>2, <3>2
    <3>4. UNCHANGED aliases
      BY <1>2 DEF Load
    <3> QED BY <1>f, <2>2, <2>s, <3>1, <3>3, <3>4
  <2> QED BY <1>2, <2>1, <2>2 DEF Load
<1>3. CASE Save(r)
  <2>1. aliases' \in SUBSET Alias
    BY <1>3 DEF Save, Written
  <2>2. stale' \in [Requests -> BOOLEAN]
    BY <1>3 DEF Save, Written
  <2>3. faults' \in 0..MaxFaults
    BY <1>3, <1>f DEF Save, Written
  <2> QED BY <1>3, <2>1, <2>2, <2>3, AnsweredTypes DEF Save
<1> QED BY <1>1, <1>2, <1>3

\* What upstream says, and what becomes of it, is a reply.
LEMMA ReplyTypes ==
  ASSUME NEW name \in Spelled
  PROVE  /\ FromUpstream(name) \subseteq Reply
         /\ \A reply \in Reply, to \in Spelled : Rewritten(reply, name, to) \in Reply
         /\ \A rcode \in {"noerror", "nxdomain"} : Empty(name, rcode) \in Reply
<1>1. \A rcode \in {"noerror", "nxdomain"} : Empty(name, rcode) \in Reply
  BY DEF Empty, Reply
<1>2. \A c \in SUBSET Spelled, s \in Spelled :
        [Empty(name, "noerror") EXCEPT !.cnames = c, !.addresses = {s}] \in Reply
  BY DEF Empty, Reply
<1>3. FromUpstream(name) \subseteq Reply
  <2> SUFFICES ASSUME NEW reply \in FromUpstream(name)
      PROVE  reply \in Reply
    OBVIOUS
  <2>1. \/ \E rcode \in {"noerror", "nxdomain"} : reply = Empty(name, rcode)
        \/ \E c \in {{}, {name}}, s \in Spelled :
             reply = [Empty(name, "noerror") EXCEPT !.cnames = c, !.addresses = {s}]
    BY Zenon DEF FromUpstream
  <2>2. {} \in SUBSET Spelled /\ {name} \in SUBSET Spelled
    OBVIOUS
  <2> QED BY <1>1, <1>2, <2>1, <2>2
<1>4. \A reply \in Reply, to \in Spelled : Rewritten(reply, name, to) \in Reply
  BY DEF Rewritten, Reply
<1> QED BY <1>1, <1>3, <1>4

LEMMA TypeOKInit == Init => TypeOK
<1> SUFFICES ASSUME Init PROVE TypeOK
  OBVIOUS
<1>1. RegistryTypeOK
  BY FaultsAssumption DEF Init, RegistryInit, RegistryTypeOK
<1> QED BY <1>1 DEF Init, TypeOK

LEMMA DestinationsType ==
  ASSUME NEW list \in SUBSET Alias, NEW name
  PROVE  Destinations(list, name) \subseteq Names \cup {NoName}
BY DEF Destinations, Of, Alias

LEMMA QuestionNames == \A qu \in Question : qu \notin {NoQuestion} /\ qu.name \in Spelled
BY DEF Question, NoQuestion

\* A query of the proxy: Finish and Ask, whatever they are called with.
LEMMA MoveTypes ==
  ASSUME TypeOK, NEW q \in Queries
  PROVE  /\ \A a \in Reply \cup {ServFail} : Finish(q, a) =>
              /\ answer' \in [Queries -> Reply \cup {ServFail, Nothing}]
              /\ qpc' \in [Queries -> {"idle", "list", "ask", "askdest", "done"}]
         /\ \A name \in Spelled, place \in {"ask", "askdest"} : Ask(q, place, name) =>
              /\ asked' \in [Queries -> Spelled \cup {NoName}]
              /\ answer' \in [Queries -> Reply \cup {ServFail, Nothing}]
              /\ qpc' \in [Queries -> {"idle", "list", "ask", "askdest", "done"}]
              /\ asked'[q] = name /\ \A p \in Queries \ {q} : asked'[p] = asked[p]
BY DEF TypeOK, Finish, Ask

LEMMA TypeOKStep == TypeOK /\ [Next]_vars => TypeOK'
<1> SUFFICES ASSUME TypeOK, [Next]_vars PROVE TypeOK'
  OBVIOUS
<1> DEFINE Places == {"idle", "list", "ask", "askdest", "done"}
<1>t. /\ RegistryTypeOK /\ aliases \in SUBSET Alias
      /\ qpc \in [Queries -> Places]
      /\ question \in [Queries -> Question \cup {NoQuestion}]
      /\ \A q \in Queries : qpc[q] = "idle" <=> question[q] = NoQuestion
      /\ seen \in [Queries -> SUBSET (Names \cup {NoName})]
  BY DEF TypeOK, RegistryTypeOK
<1>1. CASE Admin
  <2>1. RegistryTypeOK'
    BY <1>1, <1>t, RegistryKeepsTypes DEF Admin
  <2>2. aliases' \in SUBSET Alias
    BY <2>1 DEF RegistryTypeOK
  <2>3. \A name : Destinations(aliases', name) \subseteq Names \cup {NoName}
    BY <2>2, DestinationsType
  <2>4. seen' \in [Queries -> SUBSET (Names \cup {NoName})]
    BY <1>1, <1>t, <2>3 DEF Admin
  <2> QED BY <1>1, <2>1, <2>4 DEF Admin, TypeOK
<1>2. ASSUME NEW q \in Queries, NEW qu \in Question, Receive(q, qu)
      PROVE  TypeOK'
  <2>1. qu \in Question \ {NoQuestion} /\ qu.name \in Spelled
    BY QuestionNames
  <2>2. RegistryTypeOK'
    BY <1>2, <1>t DEF Receive, RegistryTypeOK, registry
  <2>3. Empty(qu.name, "noerror") \in Reply
    BY <2>1, ReplyTypes
  <2>4. /\ qpc' \in [Queries -> Places]
        /\ asked' \in [Queries -> Spelled \cup {NoName}]
        /\ answer' \in [Queries -> Reply \cup {ServFail, Nothing}]
        /\ qpc'[q] # "idle" /\ \A p \in Queries \ {q} : qpc'[p] = qpc[p] /\ asked'[p] = asked[p]
        /\ qpc'[q] \in {"ask", "askdest"} => asked'[q] \in Spelled
    <3>1. CASE qu.type = "many" /\ Ask(q, "ask", qu.name)
      BY <1>t, <2>1, <3>1, MoveTypes DEF Ask, TypeOK
    <3>2. CASE qu.type = "other" /\ Finish(q, Empty(qu.name, "noerror")) /\ UNCHANGED asked
      BY <1>t, <2>3, <3>2, MoveTypes DEF Finish, TypeOK
    <3>3. CASE /\ qu.type = "address" /\ qpc' = [qpc EXCEPT ![q] = "list"]
               /\ UNCHANGED <<answer, asked>>
      BY <1>t, <3>3 DEF TypeOK
    <3> QED BY <1>2, <3>1, <3>2, <3>3 DEF Receive
  <2>5. question' = [question EXCEPT ![q] = qu]
    BY <1>2 DEF Receive
  <2>6. seen' \in [Queries -> SUBSET (Names \cup {NoName})]
    BY <1>2, <1>t, DestinationsType DEF Receive
  <2>7. aliasesOnly' = aliasesOnly
    BY <1>2 DEF Receive
  <2> QED BY <1>t, <2>1, <2>2, <2>4, <2>5, <2>6, <2>7 DEF TypeOK
<1>3. ASSUME NEW q \in Queries, List(q)
      PROVE  TypeOK'
  <2>1. question[q].name \in Spelled
    BY <1>3, <1>t, QuestionNames DEF List
  <2>2. RegistryTypeOK'
    BY <1>3, <1>t, FaultsAssumption DEF List, RegistryTypeOK, Fault, NoFault
  <2>3. Empty(question[q].name, "nxdomain") \in Reply
    BY <2>1, ReplyTypes
  <2>4. /\ qpc' \in [Queries -> Places]
        /\ asked' \in [Queries -> Spelled \cup {NoName}]
        /\ answer' \in [Queries -> Reply \cup {ServFail, Nothing}]
        /\ qpc'[q] # "idle" /\ \A p \in Queries \ {q} : qpc'[p] = qpc[p] /\ asked'[p] = asked[p]
        /\ qpc'[q] \in {"ask", "askdest"} => asked'[q] \in Spelled
    <3>1. ASSUME NEW a \in aliases, Ask(q, "askdest", [name |-> a.destination, capital |-> FALSE])
          PROVE  <2>4!1 /\ <2>4!2 /\ <2>4!3 /\ <2>4!4 /\ <2>4!5
      <4>1. [name |-> a.destination, capital |-> FALSE] \in Spelled
        BY <1>t DEF Alias, Spelled
      <4> QED BY <1>t, <3>1, <4>1, MoveTypes DEF Ask, TypeOK
    <3>2. CASE Finish(q, Empty(question[q].name, "nxdomain")) /\ UNCHANGED asked
      BY <1>t, <2>3, <3>2, MoveTypes DEF Finish, TypeOK
    <3>3. CASE Ask(q, "ask", question[q].name)
      BY <1>t, <2>1, <3>3, MoveTypes DEF Ask, TypeOK
    <3>4. CASE Finish(q, ServFail) /\ UNCHANGED asked
      BY <1>t, <3>4, MoveTypes DEF Finish, TypeOK
    <3> QED BY <1>3, <3>1, <3>2, <3>3, <3>4 DEF List, Unaliased, Unlisted
  <2>5. UNCHANGED <<aliasesOnly, question, seen>> /\ qpc[q] # "idle"
    BY <1>3 DEF List
  <2> QED BY <1>t, <2>2, <2>4, <2>5 DEF TypeOK
<1>4. ASSUME NEW q \in Queries, Exchange(q)
      PROVE  TypeOK'
  <2>1. question[q].name \in Spelled /\ asked[q] \in Spelled
    BY <1>4, <1>t, QuestionNames DEF Exchange, TypeOK
  <2>3. \A reply \in FromUpstream(asked[q]) :
          reply \in Reply /\ Rewritten(reply, asked[q], question[q].name) \in Reply
    BY <2>1, ReplyTypes
  <2>4. PICK a \in Reply \cup {ServFail} : Finish(q, a)
    BY <1>4, <2>3 DEF Exchange
  <2>5. /\ qpc' \in [Queries -> Places]
        /\ answer' \in [Queries -> Reply \cup {ServFail, Nothing}]
        /\ qpc'[q] = "done" /\ \A p \in Queries \ {q} : qpc'[p] = qpc[p]
    BY <1>t, <2>4, MoveTypes DEF Finish, TypeOK
  <2>6. UNCHANGED <<registry, aliasesOnly, question, asked, seen>> /\ qpc[q] # "idle"
    BY <1>4 DEF Exchange
  <2> QED BY <1>t, <2>5, <2>6 DEF TypeOK, RegistryTypeOK, registry
<1>5. ASSUME NEW q \in Queries, Reset(q)
      PROVE  TypeOK'
  BY <1>5 DEF Reset, TypeOK, registry, RegistryTypeOK
<1>6. CASE UNCHANGED vars
  BY <1>6 DEF vars, registry, proxy, TypeOK, RegistryTypeOK
<1> QED BY <1>1, <1>2, <1>3, <1>4, <1>5, <1>6 DEF Next

\* The variables of the alias registry and of the DNS proxy keep their types.
THEOREM TypeCorrect == Spec => []TypeOK
BY TypeOKInit, TypeOKStep, PTL DEF Spec

-----------------------------------------------------------------------------
(* The answers.                                                            *)

\* All that IInv says of one query: nothing in it speaks of two.
InForce(q) ==
  /\ QueryInForce(q)
  /\ Answers(q) =>
       \/ asked[q] # NoName /\ asked[q].name \in seen[q]
       \/ NoName \in seen[q] /\ ~aliasesOnly /\ asked[q] = question[q].name
       \/ NoName \in seen[q] /\ aliasesOnly /\ asked[q] = NoName
            /\ answer[q].rcode = "nxdomain"
  /\ aliasesOnly /\ asked[q] # NoName /\ question[q].type # "many" =>
       asked[q].name \in seen[q]

LEMMA IInvParts ==
  IInv <=> CopiesUnique /\ CopiesReady /\ \A q \in Queries : InForce(q)
BY DEF IInv, InForce, AnswerInForce, OnlyDestinationsAsked

LEMMA SpelledNotNoName == NoName \notin Spelled
BY NoNameAssumption DEF Spelled

\* What is said of a query depends on its own variables, and on the list as
\* long as it has not read it.
LEMMA OthersStay ==
  ASSUME NEW q \in Queries, InForce(q), UNCHANGED <<aliases, aliasesOnly>>,
         qpc'[q] = qpc[q], question'[q] = question[q], asked'[q] = asked[q],
         answer'[q] = answer[q], seen'[q] = seen[q]
  PROVE  InForce(q)'
BY DEF InForce, QueryInForce, Answers, Destinations, Of

LEMMA IInvInit == Init => IInv
<1> SUFFICES ASSUME Init PROVE IInv
  OBVIOUS
<1>1. CopiesUnique
  BY DEF Init, RegistryInit, CopiesUnique, UniqueSources, Unique
<1>2. \A q \in Queries : InForce(q)
  BY DEF Init, InForce, QueryInForce, Answers, NoQuestion
<1>3. CopiesReady
  BY DEF Init, RegistryInit, CopiesReady
<1> QED BY <1>1, <1>2, <1>3, IInvParts

LEMMA IInvStep == TypeOK /\ TypeOK' /\ IInv /\ [Next]_vars => IInv'
<1> SUFFICES ASSUME TypeOK, TypeOK', IInv, [Next]_vars PROVE IInv'
  OBVIOUS
<1>t. /\ RegistryTypeOK
      /\ question \in [Queries -> Question \cup {NoQuestion}]
      /\ seen \in [Queries -> SUBSET (Names \cup {NoName})]
      /\ qpc \in [Queries -> {"idle", "list", "ask", "askdest", "done"}]
      /\ asked \in [Queries -> Spelled \cup {NoName}]
      /\ answer \in [Queries -> Reply \cup {ServFail, Nothing}]
  BY DEF TypeOK
<1>q. \A q \in Queries : qpc[q] # "idle" => question[q] \in Question /\ question[q].name \in Spelled
  BY QuestionNames DEF TypeOK
<1>i. CopiesUnique /\ CopiesReady /\ \A q \in Queries : InForce(q)
  BY IInvParts
<1>c. UNCHANGED <<aliases, pc, req, copy, stale>> => CopiesUnique' /\ CopiesReady'
  BY <1>i DEF CopiesUnique, UniqueSources, CopiesReady
<1>p. (CopiesUnique /\ CopiesReady /\ \A q \in Queries : InForce(q))' => IInv'
  BY IInvParts, PTL
<1>1. CASE Admin
  <2>1. CopiesUnique' /\ CopiesReady'
    BY <1>1, <1>t, <1>i, RegistryKeepsUnique, RegistryKeepsReady DEF Admin
  <2>2. ASSUME NEW q \in Queries
        PROVE  InForce(q)'
    <3>1. UNCHANGED <<aliasesOnly, qpc, question, asked, answer>>
      BY <1>1 DEF Admin
    <3>2. /\ seen[q] \subseteq seen'[q]
          /\ qpc[q] = "list" => Destinations(aliases', question[q].name.name) \subseteq seen'[q]
      BY <1>1, <1>t DEF Admin
    <3> QED BY <1>i, <3>1, <3>2 DEF InForce, QueryInForce, Answers, Destinations, Of
  <2> QED BY <2>1, <2>2, <1>p
<1>2. ASSUME NEW q \in Queries, NEW qu \in Question, Receive(q, qu)
      PROVE  IInv'
  <2>1. UNCHANGED <<registry, aliasesOnly>>
    BY <1>2 DEF Receive
  <2>2. InForce(q)'
    <3>1. /\ question'[q] = qu /\ qpc[q] = "idle" /\ asked[q] = NoName
          /\ seen'[q] = Destinations(aliases, qu.name.name)
      BY <1>2, <1>t, <1>i DEF Receive, InForce, QueryInForce
    <3>2. CASE qu.type = "many" /\ Ask(q, "ask", qu.name)
      <4>1. qpc'[q] = "ask"
        BY <1>t, <3>2 DEF Ask
      <4> QED BY <3>1, <3>2, <4>1 DEF InForce, QueryInForce, Answers
    <3>3. CASE qu.type = "other" /\ Finish(q, Empty(qu.name, "noerror")) /\ UNCHANGED asked
      <4>1. qpc'[q] = "done" /\ asked'[q] = NoName
        BY <1>t, <3>1, <3>3 DEF Finish
      <4> QED BY <3>1, <3>3, <4>1 DEF InForce, QueryInForce, Answers
    <3>4. CASE /\ qu.type = "address" /\ qpc' = [qpc EXCEPT ![q] = "list"]
               /\ UNCHANGED <<answer, asked>>
      <4>1. qpc'[q] = "list" /\ asked'[q] = NoName
        BY <1>t, <3>1, <3>4
      <4> QED BY <2>1, <3>1, <3>4, <4>1
              DEF InForce, QueryInForce, Answers, Destinations, Of, registry
    <3> QED BY <1>2, <3>2, <3>3, <3>4 DEF Receive
  <2>3. \A p \in Queries \ {q} : InForce(p)'
    BY <1>2, <1>t, <1>i, OthersStay DEF Receive, Ask, Finish, registry
  <2> QED BY <1>c, <1>p, <2>1, <2>2, <2>3 DEF registry
<1>3. ASSUME NEW q \in Queries, List(q)
      PROVE  IInv'
  <2>1. UNCHANGED <<aliases, pc, req, copy, stale, aliasesOnly, question, seen>>
    BY <1>3 DEF List
  <2>2. InForce(q)'
    <3> DEFINE name == question[q].name
    <3>1. /\ question[q].type = "address" /\ name \in Spelled /\ asked[q] = NoName
          /\ Destinations(aliases, name.name) \subseteq seen[q]
      BY <1>3, <1>i, <1>q DEF List, InForce, QueryInForce
    <3>2. ASSUME NEW a \in aliases, Matches(a, name),
                 Ask(q, "askdest", [name |-> a.destination, capital |-> FALSE])
          PROVE  InForce(q)'
      <4>1. a.destination \in seen[q]
        BY <3>1, <3>2 DEF Destinations, Of, Matches
      <4>2. /\ qpc'[q] = "askdest"
            /\ asked'[q] = [name |-> a.destination, capital |-> FALSE]
        BY <1>t, <3>2 DEF Ask
      <4>3. a.destination \in Names
        BY <1>t DEF RegistryTypeOK, Alias
      <4>4. asked'[q] \in Spelled /\ asked'[q].name = a.destination
        BY <4>2, <4>3 DEF Spelled
      <4>5. asked'[q] # NoName /\ asked'[q].name \in seen[q]
        BY <4>1, <4>4, SpelledNotNoName
      <4> QED BY <2>1, <3>1, <4>2, <4>5 DEF InForce, QueryInForce, Answers
    <3>3. ASSUME \A a \in aliases : ~Matches(a, name), Unaliased(q)
          PROVE  InForce(q)'
      <4>1. NoName \in seen[q]
        BY <3>1, <3>3 DEF Destinations, Of, Matches
      <4>2. CASE /\ aliasesOnly /\ Finish(q, Empty(name, "nxdomain"))
                 /\ UNCHANGED asked
        <5>1. qpc'[q] = "done" /\ asked'[q] = NoName /\ answer'[q].rcode = "nxdomain"
          BY <1>t, <3>1, <4>2 DEF Finish, Empty
        <5> QED BY <2>1, <3>1, <4>1, <4>2, <5>1 DEF InForce, QueryInForce, Answers
      <4>3. CASE ~aliasesOnly /\ Ask(q, "ask", name)
        <5>1. qpc'[q] = "ask" /\ asked'[q] = name
          BY <1>t, <3>1, <4>3 DEF Ask
        <5> QED BY <2>1, <3>1, <4>1, <4>3, <5>1 DEF InForce, QueryInForce, Answers
      <4> QED BY <3>3, <4>2, <4>3 DEF Unaliased
    <3>4. ASSUME Unlisted(q)
          PROVE  InForce(q)'
      <4>1. qpc'[q] = "done" /\ asked'[q] = NoName /\ answer'[q] = ServFail
        BY <1>t, <3>1, <3>4 DEF Unlisted, Finish
      <4> QED BY <2>1, <3>1, <4>1 DEF InForce, QueryInForce, Answers
    <3> QED BY <1>3, <3>2, <3>3, <3>4 DEF List
  <2>3. \A p \in Queries \ {q} : InForce(p)'
    BY <1>3, <1>t, <1>i, <2>1, OthersStay DEF List, Unaliased, Unlisted, Ask, Finish
  <2> QED BY <1>c, <1>p, <2>1, <2>2, <2>3
<1>4. ASSUME NEW q \in Queries, Exchange(q)
      PROVE  IInv'
  <2>1. UNCHANGED <<registry, aliasesOnly, question, asked, seen>> /\ qpc[q] \in {"ask", "askdest"}
    BY <1>4 DEF Exchange
  <2>2. PICK a : Finish(q, a)
    BY <1>4 DEF Exchange
  <2>3. qpc'[q] = "done"
    BY <1>t, <2>2 DEF Finish
  <2>4. question[q] \in Question
    BY <1>q, <2>1
  <2>5. InForce(q)'
    BY <1>i, <2>1, <2>3, <2>4 DEF InForce, QueryInForce, Answers, Question
  <2>6. \A p \in Queries \ {q} : InForce(p)'
    BY <1>t, <1>i, <2>1, <2>2, OthersStay DEF Finish, registry
  <2> QED BY <1>c, <1>p, <2>1, <2>5, <2>6 DEF registry
<1>5. ASSUME NEW q \in Queries, Reset(q)
      PROVE  IInv'
  <2>1. UNCHANGED <<registry, aliasesOnly>>
    BY <1>5 DEF Reset
  <2>2. qpc'[q] = "idle" /\ asked'[q] = NoName
    BY <1>5, <1>t DEF Reset
  <2>3. InForce(q)'
    BY <2>2 DEF InForce, QueryInForce, Answers
  <2>4. \A p \in Queries \ {q} : InForce(p)'
    BY <1>5, <1>t, <1>i, OthersStay DEF Reset, registry
  <2> QED BY <1>c, <1>p, <2>1, <2>3, <2>4 DEF registry
<1>6. CASE UNCHANGED vars
  BY <1>6, <1>i, <1>c, <1>p, OthersStay DEF vars, registry, proxy
<1> QED BY <1>1, <1>2, <1>3, <1>4, <1>5, <1>6 DEF Next

\* The invariant that the other theorems rest on, at any time.
THEOREM Invariance == Spec => []IInv
BY TypeOKInit, TypeOKStep, IInvInit, IInvStep, PTL DEF Spec

\* No source ever has two destinations in aliases.json, whatever handlers
\* overlap.
THEOREM SourcesUnique == Spec => []UniqueSources
BY Invariance, PTL DEF IInv, CopiesUnique

\* Every answer to an address query is that of a list of aliases that was in
\* force while the proxy worked on it.
THEOREM AnswersInForce == Spec => []AnswerInForce
BY Invariance, PTL DEF IInv

\* In aliases-only mode only destinations of aliases go upstream.
THEOREM OnlyDestinations == Spec => []OnlyDestinationsAsked
BY Invariance, PTL DEF IInv

\* The change of a handler whose copy is fresh is made, and no other, for any
\* number of handlers.
THEOREM FreshSavesAreAtomic == Spec => FreshSaveIsAtomic
<1>1. ASSUME TypeOK, IInv, [Next]_vars
      PROVE  [\A r \in Requests :
                Accepted(r) /\ ~stale[r] => MadeExactly(req[r], aliases, aliases')]_registry
  <2> SUFFICES ASSUME NEW r \in Requests, Accepted(r), ~stale[r]
               PROVE  MadeExactly(req[r], aliases, aliases')
    OBVIOUS
  <2>1. MadeExactly(req[r], aliases, copy[r])
    BY <1>1 DEF IInv, CopiesReady, Accepted
  <2>2. pc[r] = "save" /\ pc'[r] = "idle" /\ faults' = faults
    BY DEF Accepted
  <2>3. pc \in [Requests -> {"idle", "load", "save"}] /\ faults \in Nat
    BY <1>1, FaultsAssumption DEF TypeOK, RegistryTypeOK
  <2>4. RegistryNext
    BY <1>1, <2>2 DEF Next, Admin, Receive, List, Exchange, Reset, vars, registry
  <2>5. PICK x \in Requests : Arrive(x) \/ Load(x) \/ Save(x)
    BY <2>4 DEF RegistryNext
  <2>6. x = r /\ Save(r)
    BY <2>2, <2>3, <2>5 DEF Arrive, Load, Save, Answered
  <2>7. aliases' = copy[r]
    BY <2>2, <2>3, <2>6 DEF Save, Written, Fault
  <2> QED BY <2>1, <2>7
<1>2. TypeOK /\ IInv /\ [Next]_vars =>
        [\A r \in Requests :
           Accepted(r) /\ ~stale[r] => MadeExactly(req[r], aliases, aliases')]_registry
  BY <1>1
<1> QED BY <1>2, Invariance, TypeCorrect, PTL DEF Spec, FreshSaveIsAtomic

-----------------------------------------------------------------------------
(* What the client sees.                                                   *)

\* A reply that repeats the question for the name to, and shows no address as
\* owned by another name that was asked.
Speaks(reply, from, to) ==
  /\ reply.name = to
  /\ \A s \in reply.addresses : s.name = from.name => s.name = to.name

LEMMA RewrittenSpeaks ==
  ASSUME NEW reply \in Reply, NEW from, NEW to
  PROVE  Speaks(Rewritten(reply, from, to), from, to)
<1> DEFINE made == Rewritten(reply, from, to)
<1>1. /\ made.name = to
      /\ \A x \in made.addresses :
           \E y \in reply.addresses : x = IF y.name = from.name THEN to ELSE y
  BY DEF Rewritten, Reply
<1>2. ASSUME NEW x \in made.addresses, x.name = from.name
      PROVE  x.name = to.name
  <2>1. PICK y \in reply.addresses : x = IF y.name = from.name THEN to ELSE y
    BY <1>1
  <2>2. CASE y.name = from.name
    BY <2>1, <2>2
  <2>3. CASE y.name # from.name
    BY <1>2, <2>1, <2>3
  <2> QED BY <2>2, <2>3
<1> QED BY <1>1, <1>2 DEF Speaks

LEMMA RepliesSpeak ==
  ASSUME NEW name \in Spelled, NEW reply \in FromUpstream(name)
  PROVE  Speaks(reply, name, name)
<1>1. \/ \E rcode \in {"noerror", "nxdomain"} : reply = Empty(name, rcode)
      \/ \E c \in {{}, {name}}, s \in Spelled :
           reply = [Empty(name, "noerror") EXCEPT !.cnames = c, !.addresses = {s}]
  BY Zenon DEF FromUpstream
<1>2. reply.name = name
  <2>1. \A rcode : Empty(name, rcode).name = name
    BY DEF Empty
  <2>2. \A c, s : [Empty(name, "noerror") EXCEPT !.cnames = c, !.addresses = {s}].name = name
    BY DEF Empty
  <2> QED BY <1>1, <2>1, <2>2
<1> QED BY <1>2 DEF Speaks

Restored(q) ==
  Answers(q) =>
    /\ answer[q].name = question[q].name
    /\ asked[q] # NoName => Speaks(answer[q], asked[q], question[q].name)

LEMMA RestoredParts == OwnersRestored <=> \A q \in Queries : Restored(q)
BY DEF OwnersRestored, Restored, Speaks

LEMMA RestoredStep ==
  TypeOK /\ IInv /\ OwnersRestored /\ [Next]_vars => OwnersRestored'
<1> SUFFICES ASSUME TypeOK, IInv, OwnersRestored, [Next]_vars, NEW q \in Queries
             PROVE  Restored(q)'
  <2>1. (\A q \in Queries : Restored(q))' => OwnersRestored'
    BY RestoredParts, PTL
  <2> QED BY <2>1
<1>t. /\ question \in [Queries -> Question \cup {NoQuestion}]
      /\ qpc \in [Queries -> {"idle", "list", "ask", "askdest", "done"}]
      /\ asked \in [Queries -> Spelled \cup {NoName}]
      /\ answer \in [Queries -> Reply \cup {ServFail, Nothing}]
  BY DEF TypeOK
<1>i. Restored(q) /\ QueryInForce(q)
  BY RestoredParts DEF IInv
<1>o. ASSUME qpc'[q] = qpc[q], question'[q] = question[q], answer'[q] = answer[q],
             asked'[q] = asked[q]
      PROVE  Restored(q)'
  BY <1>i, <1>o DEF Restored, Answers, Speaks
<1>1. CASE Admin
  BY <1>1, <1>o DEF Admin
<1>2. ASSUME NEW p \in Queries, NEW qu \in Question, Receive(p, qu)
      PROVE  Restored(q)'
  <2>1. CASE p # q
    BY <1>2, <1>o, <1>t, <2>1 DEF Receive, Ask, Finish
  <2>2. CASE p = q
    <3>1. question'[q] = qu
      BY <1>2, <1>t, <2>2 DEF Receive
    <3>2. qpc'[q] = "done" => qu.type = "other"
      BY <1>2, <1>t, <2>2 DEF Receive, Ask
    <3> QED BY <3>1, <3>2 DEF Restored, Answers
  <2> QED BY <2>1, <2>2
<1>3. ASSUME NEW p \in Queries, List(p)
      PROVE  Restored(q)'
  <2>1. CASE p # q
    BY <1>3, <1>o, <1>t, <2>1 DEF List, Ask, Finish, Unaliased, Unlisted
  <2>2. CASE p = q
    <3>1. question' = question
      BY <1>3 DEF List
    <3>2. \/ qpc'[q] # "done" \/ answer'[q] = ServFail
          \/ answer'[q] = Empty(question[q].name, "nxdomain")
      BY <1>3, <1>t, <2>2 DEF List, Ask, Finish, Unaliased, Unlisted
    <3>3. \A from : Speaks(Empty(question[q].name, "nxdomain"), from, question[q].name)
      BY DEF Speaks, Empty
    <3> QED BY <3>1, <3>2, <3>3 DEF Restored, Answers, Empty
  <2> QED BY <2>1, <2>2
<1>4. ASSUME NEW p \in Queries, Exchange(p)
      PROVE  Restored(q)'
  <2>1. CASE p # q
    BY <1>4, <1>o, <1>t, <2>1 DEF Exchange, Finish
  <2>2. CASE p = q
    <3>1. question' = question /\ question[q] \in Question /\ asked[q] \in Spelled
      BY <1>4, <1>t, <2>2, QuestionNames DEF Exchange, TypeOK
    <3>2. question[q].name \in Spelled
      BY <3>1, QuestionNames
    <3>3. CASE Finish(q, ServFail)
      BY <1>t, <3>3 DEF Finish, Restored, Answers
    <3>4. ASSUME NEW reply \in FromUpstream(asked[q]),
                 Finish(q, IF qpc[q] = "ask" THEN reply
                           ELSE Rewritten(reply, asked[q], question[q].name))
          PROVE  Restored(q)'
      <4>1. /\ Speaks(reply, asked[q], asked[q])
            /\ Speaks(Rewritten(reply, asked[q], question[q].name), asked[q], question[q].name)
        BY <3>1, RepliesSpeak, RewrittenSpeaks, ReplyTypes
      <4>u. asked' = asked
        BY <1>4 DEF Exchange
      <4>2. CASE qpc[q] = "ask"
        <5>1. answer'[q] = reply
          BY <1>t, <3>4, <4>2 DEF Finish
        <5>2. question[q].type = "address" => asked[q] = question[q].name
          BY <1>i, <4>2 DEF QueryInForce
        <5> QED BY <3>1, <4>1, <4>u, <5>1, <5>2 DEF Restored, Answers, Speaks
      <4>3. CASE qpc[q] # "ask"
        <5>1. answer'[q] = Rewritten(reply, asked[q], question[q].name)
          BY <1>t, <3>4, <4>3 DEF Finish
        <5> QED BY <3>1, <4>1, <4>u, <5>1 DEF Restored, Answers, Speaks
      <4> QED BY <4>2, <4>3
    <3> QED BY <1>4, <2>2, <3>3, <3>4 DEF Exchange
  <2> QED BY <2>1, <2>2
<1>5. ASSUME NEW p \in Queries, Reset(p)
      PROVE  Restored(q)'
  <2>1. CASE p # q
    BY <1>5, <1>o, <1>t, <2>1 DEF Reset
  <2>2. CASE p = q
    <3>1. qpc'[q] = "idle"
      BY <1>5, <1>t, <2>2 DEF Reset
    <3> QED BY <3>1 DEF Restored, Answers
  <2> QED BY <2>1, <2>2
<1>6. CASE UNCHANGED vars
  BY <1>6, <1>o DEF vars, proxy
<1> QED BY <1>1, <1>2, <1>3, <1>4, <1>5, <1>6 DEF Next

\* Whatever upstream replies, with a chain or without, no address of the answer
\* is owned by the destination that was asked in place of the client's name.
THEOREM OwnersAreRestored == Spec => []OwnersRestored
<1>1. Init => OwnersRestored
  BY DEF Init, OwnersRestored, Answers
<1> QED BY <1>1, RestoredStep, Invariance, TypeCorrect, PTL DEF Spec
=============================================================================
