---------------------------- MODULE ConnectionSetup ----------------------------
(***************************************************************************)
(* The setup of connections between end nodes (Application.cc,             *)
(* ConnectionManager.cc).  A request goes hop by hop from its initiator to *)
(* its responder and reserves the QNICs of the nodes on the way; the       *)
(* responder divides the path and sends a RuleSet to every node of it.     *)
(* Where a QNIC is reserved already, the request is refused.               *)
(*                                                                         *)
(* An end node asks for one connection at most (TrafficPattern), so the    *)
(* initiator names the connection.                                         *)
(***************************************************************************)
EXTENDS ClassicalNetwork, PathDivision

CONSTANTS
  EndNode,          \* nodes with an application
  TrafficPattern,   \* 0: no traffic, 1: LoneInitiator only, 2: every end node
  LoneInitiator,
  GuardAsWritten,   \* TRUE: line 49 of ConnectionManager.cc as it is written,
                    \* FALSE: as the comments on both branches have it
  MaxHops           \* bound: the longest path whose division is checked

ASSUME SetupAssumption ==
  /\ EndNode \subseteq QNode
  /\ TrafficPattern \in 0 .. 2
  /\ LoneInitiator \in EndNode
  /\ GuardAsWritten \in BOOLEAN
  /\ MaxHops \in Nat

NoOne == 0   \* the address of no node

VARIABLES
  wanted,      \* the responder of the request that an application will issue
  refused,     \* end nodes that have received a reject (history)
  holder,      \* qnic_res_table: by whose connection a QNIC is reserved
  processes    \* rp of the rule engines: the RuleSets of each node, in order

setupVars == <<wanted, refused, holder, processes, line>>

-----------------------------------------------------------------------------
\* The application picks one of the other end nodes, if it has traffic.
Destinations(n) ==
  IF TrafficPattern = 2 \/ (TrafficPattern = 1 /\ n = LoneInitiator)
  THEN EndNode \ {n} ELSE {NoOne}

SetupInit ==
  /\ wanted \in {w \in [EndNode -> EndNode \cup {NoOne}] :
                   \A n \in EndNode : w[n] \in Destinations(n)}
  /\ refused = {}
  /\ holder = [n \in QNode |-> [q \in Qnic(n) |-> NoOne]]
  /\ processes = [n \in QNode |-> <<>>]
  /\ line = [a \in QNode |-> [b \in QNode |-> <<>>]]

\* Application::initialize schedules one request; when it is due, it goes to
\* the connection manager of its own node.
Issue(n) ==
  /\ wanted[n] # NoOne
  /\ line' = Sent(n, Mail(n, [kind |-> "Request", to |-> n, src |-> n,
                              dest |-> wanted[n], hops |-> <<>>]))
  /\ wanted' = [wanted EXCEPT ![n] = NoOne]
  /\ UNCHANGED <<refused, holder, processes>>

-----------------------------------------------------------------------------
\* HardwareMonitor::return_setupInf knows no QNIC -1 and returns address 0.
Address(q) == IF q = NoQnic THEN 0 ELSE q
Busy(n, q) == holder[n][Address(q)] # NoOne

\* One of the two QNICs that a request of s for d would use at n is reserved.
Blocked(n, s, d) == Busy(n, Route[n][s]) \/ Busy(n, Route[n][d])

\* Mutant of Available: the guard as it is written.
AvailableBusy(n, d) == Busy(n, Route[n][d])

\* The test of the initiator alone.
Available(n, d) == IF GuardAsWritten THEN Busy(n, Route[n][d])
                                     ELSE ~Busy(n, Route[n][d])

\* Mutant of Refuses: only the QNIC toward the responder is looked at.
RefusesForward(n, m) ==
  \/ Busy(n, Route[n][m.dest])
  \/ n = m.src /\ ~Available(n, m.dest)

\* Node n does not let request m pass.
Refuses(n, m) ==
  \/ Blocked(n, m.src, m.dest)
  \/ n = m.src /\ ~Available(n, m.dest)

\* The QNICs by which n lies on the path from s to d.
HopOf(n, s, d) == [node |-> n, fst |-> Route[n][s], snd |-> Route[n][d]]

\* Mutant of Reserve: only one of the QNICs is reserved.
ReserveOne(n, qnics, s) ==
  holder' = [holder EXCEPT ![n] =
               [q \in Qnic(n) |-> IF q = CHOOSE x \in qnics : TRUE
                                  THEN s ELSE @[q]]]

Reserve(n, qnics, s) ==
  holder' = [holder EXCEPT ![n] =
               [q \in Qnic(n) |-> IF q \in qnics THEN s ELSE @[q]]]

\* The initiator, or a node between the ends, sends the request on.
RelayRequest(a, b) ==
  LET m == Head(line[a][b])
      hop == HopOf(b, m.src, m.dest)
  IN  /\ Arrives(a, b, "Request")
      /\ m.dest # b
      /\ ~Refuses(b, m)
      /\ IF b = m.src THEN UNCHANGED holder
                      ELSE Reserve(b, {hop.fst, hop.snd}, m.src)
      /\ line' = After(a, b, Mail(b,
                   [kind |-> "Request", to |-> Neighbor[b][hop.snd],
                    src |-> m.src, dest |-> m.dest,
                    hops |-> Append(m.hops, hop)]))
      /\ UNCHANGED <<wanted, refused, processes>>

\* Mutant of RefuseRequest: the request is dropped without a word.
DropRequest(a, b) ==
  /\ Arrives(a, b, "Request")
  /\ Refuses(b, Head(line[a][b]))
  /\ line' = After(a, b, Silence)
  /\ UNCHANGED <<wanted, refused, holder, processes>>

\* Any node on the way, the responder as well, answers the initiator.
RefuseRequest(a, b) ==
  LET m == Head(line[a][b])
  IN  /\ Arrives(a, b, "Request")
      /\ Refuses(b, m)
      /\ line' = After(a, b, Mail(b, [kind |-> "Reject", to |-> m.src,
                                      src |-> m.src, dest |-> m.dest]))
      /\ UNCHANGED <<wanted, refused, holder, processes>>

-----------------------------------------------------------------------------
\* What node i of the path has to do: a swapper gets its partners and its two
\* QNICs (EntanglementSwappingConfig), an end the other end.
RuleSetFor(s, hops, i) ==
  LET division == Division[Len(hops) - 1][0]
      mine == {k \in DOMAIN division : division[k].swapper = i - 1}
      segment == division[CHOOSE k \in mine : TRUE]
  IN  IF mine # {}
      THEN [kind |-> "swap", of |-> s,
            left |-> hops[segment.left + 1].node,
            right |-> hops[segment.right + 1].node,
            lqnic |-> hops[i].fst, rqnic |-> hops[i].snd]
      ELSE [kind |-> "measure", of |-> s,
            partner |-> hops[IF i = 1 THEN Len(hops) ELSE 1].node]

\* The responder reserves its QNIC and sends a RuleSet to every node of the
\* path; all of them but its own leave the way the request came.
AnswerRequest(a, b) ==
  LET m == Head(line[a][b])
      hops == Append(m.hops, HopOf(b, m.src, b))
      Response(i) == [kind |-> "Response", to |-> hops[i].node,
                      src |-> m.src, dest |-> b,
                      ruleset |-> RuleSetFor(m.src, hops, i)]
      earlier == [i \in 1 .. Len(m.hops) |-> Response(i)]
  IN  /\ Arrives(a, b, "Request")
      /\ m.dest = b
      /\ ~Refuses(b, m)
      /\ Reserve(b, {Route[b][m.src]}, m.src)
      /\ line' = After(a, b, [c \in QNode |->
                   IF c = b THEN <<Response(Len(hops))>>
                   ELSE IF c = NextHop(b, m.src) THEN earlier ELSE <<>>])
      /\ UNCHANGED <<wanted, refused, processes>>

-----------------------------------------------------------------------------
\* The connection manager passes the RuleSet to its rule engine.
ReceiveResponse(a, b) ==
  /\ Arrives(a, b, "Response")
  /\ line' = After(a, b, Mail(b, [kind |-> "RuleSet", to |-> b,
                                  ruleset |-> Head(line[a][b]).ruleset]))
  /\ UNCHANGED <<wanted, refused, holder, processes>>

\* The rule engine adds a process for the RuleSet.
StoreRuleSet(a, b) ==
  /\ Arrives(a, b, "RuleSet")
  /\ processes' = [processes EXCEPT
                     ![b] = Append(@, Head(line[a][b]).ruleset)]
  /\ line' = After(a, b, Silence)
  /\ UNCHANGED <<wanted, refused, holder>>

\* A reject that is not for the initiator would free the QNICs of its request.
\* It always is for the initiator, which does nothing.
ReceiveReject(a, b) ==
  LET m == Head(line[a][b])
      mine == {Address(Route[b][x]) : x \in {m.src, m.dest} \ {b}}
  IN  /\ Arrives(a, b, "Reject")
      /\ IF b = m.src THEN UNCHANGED holder ELSE Reserve(b, mine, NoOne)
      /\ refused' = refused \cup {m.src}
      /\ line' = After(a, b, Silence)
      /\ UNCHANGED <<wanted, processes>>

Forward(a, b) == Passes(a, b) /\ UNCHANGED <<wanted, refused, holder, processes>>

-----------------------------------------------------------------------------
\* The steps of the connection manager and the router with a message.
Handle(a, b) ==
  \/ RelayRequest(a, b) \/ RefuseRequest(a, b) \/ AnswerRequest(a, b)
  \/ ReceiveResponse(a, b) \/ ReceiveReject(a, b) \/ Forward(a, b)

SetupNext ==
  \/ \E n \in EndNode : Issue(n)
  \/ \E a, b \in QNode : Handle(a, b) \/ StoreRuleSet(a, b)

\* OMNeT++ never stops while a message is under way or a request is scheduled.
SetupSpec == SetupInit /\ [][SetupNext]_setupVars /\ WF_setupVars(SetupNext)

-----------------------------------------------------------------------------
\* RuleSets under way to node n, and all RuleSets of n.
Coming(n) == {m.ruleset : m \in {x \in InTransit :
                x.kind \in {"Response", "RuleSet"} /\ x.to = n}}
Installed(n) == {processes[n][i] : i \in DOMAIN processes[n]}
RuleSetsOf(n) == Installed(n) \cup Coming(n)

\* The QNICs whose pairs a RuleSet of n works on.
QnicsOf(n, r) == IF r.kind = "swap" THEN {r.lqnic, r.rqnic}
                                    ELSE {Route[n][r.partner]}

\* The QNICs a repeater is told to swap between are reserved for that very
\* connection, from before its RuleSet is made and for ever.
RuleSetsReserved ==
  \A n \in QNode \ EndNode : \A r \in RuleSetsOf(n) :
    r.kind = "swap" => holder[n][r.lqnic] = r.of /\ holder[n][r.rqnic] = r.of

\* RuleSets of two connections never work on pairs of one QNIC, not even at an
\* initiator, which reserves nothing and relies on its neighbour.  That takes a
\* repeater next to each end node: two that are neighbours and ask each other
\* get both connections over their one link.
NoSharedQnic ==
  \A n \in QNode : \A r, t \in RuleSetsOf(n) :
    r.of # t.of => QnicsOf(n, r) \cap QnicsOf(n, t) = {}

\* The RuleSets of a connection fit together: the node across a QNIC works on
\* that link for the same connection, what a swapper joins is a link or what
\* one other swapper makes, and both ends wait for each other.
RuleSetsFit ==
  \A n \in QNode : \A r \in RuleSetsOf(n) :
    LET Same(m) == {t \in RuleSetsOf(m) : t.of = r.of}
        Swaps(l, m, t) == t.kind = "swap" /\ t.left = l /\ t.right = m
        Made(l, m) == \/ m \in Adjacent(l)
                      \/ \E x \in QNode : \E t \in Same(x) : Swaps(l, m, t)
    IN  /\ \A q \in QnicsOf(n, r) : \E t \in Same(Neighbor[n][q]) :
             n \in {Neighbor[Neighbor[n][q]][p] :
                     p \in QnicsOf(Neighbor[n][q], t)}
        /\ r.kind = "swap" => /\ Made(r.left, n) /\ Made(n, r.right)
                              /\ Same(r.left) # {} /\ Same(r.right) # {}
        /\ r.kind = "measure" =>
             /\ \E t \in Same(r.partner) : t.kind = "measure" /\ t.partner = n
             /\ Made(n, r.partner) \/ Made(r.partner, n)

\* A request is refused only when a QNIC is reserved for another one.
RefusedForRival ==
  \A n \in refused : \E m \in QNode : \E q \in Qnic(m) :
    holder[m][q] \notin {n, NoOne}

\* The path of a request, as long as it may still become, divides soundly.
SoundLengths == {l \in 1 .. MaxHops : DividesSoundly(l)}
PathsDivide ==
  \A m \in {x \in InTransit : x.kind = "Request"} :
    Len(m.hops) + 1 .. MaxHops \subseteq SoundLengths

\* A request is answered, one way or the other: its initiator gets a reject, or
\* all nodes of the path run their RuleSets.
Connected(n) ==
  /\ \E r \in Installed(n) : r.of = n /\ r.kind = "measure"
  /\ \A m \in QNode : \A r \in Coming(m) : r.of # n
RequestAnswered ==
  \A n \in EndNode : wanted[n] # NoOne ~> n \in refused \/ Connected(n)
=============================================================================
