------------------------- MODULE ConnectionSetupProofs -------------------------
(***************************************************************************)
(* Theorems about ConnectionSetup, for every tree of nodes, every set of   *)
(* end nodes and traffic pattern, with either test of the initiator, and   *)
(* whatever the division of a path is.                                     *)
(***************************************************************************)
EXTENDS ConnectionSetup, SequenceTheorems, TLAPS

\* A QNIC that is reserved stays reserved, for the same connection: no step of
\* the code releases one or reserves it anew.
ReservationsKept ==
  \A n \in QNode : \A q \in Qnic(n) :
    holder[n][q] # NoOne => holder'[n][q] = holder[n][q]

-----------------------------------------------------------------------------
(* What is true of packets and RuleSets, given the reservations.           *)

Reserved(n, q, s) == q \in Qnic(n) /\ holder[n][q] = s

\* The hops in a request of s: where it is not s itself, both QNICs are reserved.
Hop == [node : QNode, fst : Int, snd : Int]
SoundHop(s) == {h \in Hop : h.node # s => /\ Reserved(h.node, h.fst, s)
                                          /\ Reserved(h.node, h.snd, s)}

\* The RuleSets that a responder can make, and those fit for node n.
AnyRuleSet == {RuleSetFor(s, hops, i) :
                 s \in EndNode, hops \in Seq(Hop), i \in Nat}
SoundRuleSet(n) ==
  {r \in AnyRuleSet : n \notin EndNode /\ r.kind = "swap" =>
                        /\ r.of \in EndNode
                        /\ Reserved(n, r.lqnic, r.of)
                        /\ Reserved(n, r.rqnic, r.of)}

Requests == UNION {[kind : {"Request"}, to : QNode, src : {s}, dest : EndNode,
                    hops : Seq(SoundHop(s))] : s \in EndNode}
Responses == UNION {[kind : {"Response"}, to : {n}, src : EndNode,
                     dest : EndNode, ruleset : SoundRuleSet(n)] : n \in QNode}
Internals == UNION {[kind : {"RuleSet"}, to : {n},
                     ruleset : SoundRuleSet(n)] : n \in QNode}
Rejects == UNION {[kind : {"Reject"}, to : {s}, src : {s},
                   dest : EndNode] : s \in EndNode}
\* What swappers tell beside the setup, when EntanglementSwapping is added to it.
Others == [kind : {"Swapped"}, to : QNode, partner : QNode, index : Int,
           half : [node : QNode, qnic : Int, index : Int]]
Sound == Requests \cup Responses \cup Internals \cup Rejects \cup Others

Out(S) == [QNode -> Seq(S)]
Lines(S) == [QNode -> Out(S)]

WantedOK == wanted \in [EndNode -> EndNode \cup {NoOne}]
HolderOK == /\ DOMAIN holder = QNode
            /\ \A n \in QNode : DOMAIN holder[n] = Qnic(n)
ProcessesOK == /\ processes \in [QNode -> Seq(AnyRuleSet)]
               /\ \A n \in QNode : processes[n] \in Seq(SoundRuleSet(n))
LineOK == line \in Lines(Sound)

SetupInv == WantedOK /\ HolderOK /\ ProcessesOK /\ LineOK

-----------------------------------------------------------------------------
(* Facts about the network and about sequences.                            *)

LEMMA NodeFacts ==
  /\ EndNode \subseteq QNode
  /\ NoOne \notin QNode
  /\ \A n \in QNode : Qnic(n) \subseteq Nat
BY TopologyAssumption, SetupAssumption
   DEF TopologyAssumption, SetupAssumption, NoOne

LEMMA RouteFacts ==
  ASSUME NEW n \in QNode, NEW d \in QNode
  PROVE  /\ Route[n][d] \in Int
         /\ n # d => Route[n][d] \in Qnic(n) /\ Neighbor[n][Route[n][d]] \in QNode
         /\ n = d => Route[n][d] = NoQnic
<1>1. n = d => Route[n][d] = NoQnic
  BY DEF Route
<1>2. n # d => Route[n][d] \in Qnic(n)
  BY TopologyAssumption DEF TopologyAssumption
<1>3. n # d => Neighbor[n][Route[n][d]] \in QNode
  BY <1>2, TopologyAssumption DEF TopologyAssumption
<1> QED
  BY <1>1, <1>2, <1>3, NodeFacts DEF NoQnic

LEMMA SeqMonotone ==
  ASSUME NEW S, NEW T, S \subseteq T
  PROVE  Seq(S) \subseteq Seq(T)
<1> SUFFICES ASSUME NEW s \in Seq(S) PROVE s \in Seq(T)
  OBVIOUS
<1>1. \A i \in 1 .. Len(s) : s[i] \in T
  OBVIOUS
<1>2. s = [i \in 1 .. Len(s) |-> s[i]] /\ Len(s) \in Nat
  OBVIOUS
<1> QED
  BY <1>1, <1>2

LEMMA LinesMonotone ==
  ASSUME NEW S, NEW T, S \subseteq T
  PROVE  Lines(S) \subseteq Lines(T)
BY SeqMonotone DEF Lines, Out

\* Sending what is in out after taking the head of a line.
LEMMA AfterType ==
  ASSUME NEW S, line \in Lines(S), NEW a \in QNode, NEW b \in QNode,
         line[a][b] # <<>>, NEW out \in Out(S)
  PROVE  After(a, b, out) \in Lines(S)
<1>1. ASSUME NEW x \in QNode, NEW y \in QNode
      PROVE  (IF x = a /\ y = b THEN Tail(line[x][y]) ELSE line[x][y])
               \o (IF x = b THEN out[y] ELSE <<>>) \in Seq(S)
  <2>1. line[x][y] \in Seq(S) /\ out[y] \in Seq(S) /\ <<>> \in Seq(S)
    BY DEF Lines, Out
  <2>2. x = a /\ y = b => Tail(line[x][y]) \in Seq(S)
    BY <2>1
  <2> QED
    BY <2>1, <2>2, ConcatProperties
<1> QED
  BY <1>1 DEF After, Lines, Out

LEMMA SentType ==
  ASSUME NEW S, line \in Lines(S), NEW n \in QNode, NEW out \in Out(S)
  PROVE  Sent(n, out) \in Lines(S)
<1>1. \A b \in QNode : line[n][b] \o out[b] \in Seq(S)
  BY ConcatProperties DEF Lines, Out
<1>2. [b \in QNode |-> line[n][b] \o out[b]] \in Out(S)
  BY <1>1 DEF Out
<1> QED
  BY <1>2 DEF Sent, Lines

LEMMA MailType ==
  ASSUME NEW S, NEW n \in QNode, NEW p \in S
  PROVE  Mail(n, p) \in Out(S)
BY DEF Mail, Out

LEMMA SilenceType == ASSUME NEW S PROVE Silence \in Out(S)
BY DEF Silence, Out

LEMMA HeadType ==
  ASSUME NEW S, line \in Lines(S), NEW a \in QNode, NEW b \in QNode,
         line[a][b] # <<>>
  PROVE  Head(line[a][b]) \in S
BY DEF Lines, Out

-----------------------------------------------------------------------------
(* Reservations that are kept leave all that is sound sound.               *)

LEMMA ReservedKept ==
  ASSUME ReservationsKept, NEW n \in QNode, NEW q, NEW s \in EndNode,
         Reserved(n, q, s)
  PROVE  Reserved(n, q, s)'
BY NodeFacts DEF ReservationsKept, Reserved, Qnic

LEMMA HopsKept ==
  ASSUME ReservationsKept, NEW s \in EndNode
  PROVE  SoundHop(s) \subseteq SoundHop(s)'
BY ReservedKept DEF SoundHop, Hop

LEMMA RuleSetsKept ==
  ASSUME ReservationsKept, NEW n \in QNode
  PROVE  SoundRuleSet(n) \subseteq SoundRuleSet(n)'
BY ReservedKept DEF SoundRuleSet, AnyRuleSet

LEMMA SoundKept ==
  ASSUME ReservationsKept
  PROVE  Sound \subseteq Sound'
<1>1. Requests \subseteq Requests'
  <2>1. \A s \in EndNode : Seq(SoundHop(s)) \subseteq Seq(SoundHop(s)')
    BY HopsKept, SeqMonotone
  <2> QED
    BY <2>1 DEF Requests
<1>2. Responses \subseteq Responses'
  BY RuleSetsKept DEF Responses
<1>3. Internals \subseteq Internals'
  BY RuleSetsKept DEF Internals
<1>4. Rejects \subseteq Rejects'
  BY DEF Rejects
<1> QED
  BY <1>1, <1>2, <1>3, <1>4 DEF Sound, Others

\* What is sound before a step that keeps reservations is sound after it.
LEMMA InvKept ==
  ASSUME ReservationsKept, SetupInv
  PROVE  /\ line \in Lines(Sound')
         /\ \A n \in QNode : processes[n] \in Seq(SoundRuleSet(n)')
<1>1. line \in Lines(Sound')
  BY SoundKept, LinesMonotone DEF SetupInv, LineOK
<1>2. ASSUME NEW n \in QNode PROVE processes[n] \in Seq(SoundRuleSet(n)')
  BY RuleSetsKept, SeqMonotone DEF SetupInv, ProcessesOK
<1> QED
  BY <1>1, <1>2

\* A step that neither stores a RuleSet nor issues a request keeps the invariant
\* when it keeps reservations and sends only what is sound.
LEMMA MessageStep ==
  ASSUME SetupInv, ReservationsKept, HolderOK', UNCHANGED <<wanted, processes>>,
         NEW a \in QNode, NEW b \in QNode, line[a][b] # <<>>,
         NEW out \in Out(Sound'), line' = After(a, b, out)
  PROVE  SetupInv'
<1>1. LineOK'
  BY InvKept, AfterType DEF LineOK
<1>2. ProcessesOK'
  BY InvKept DEF ProcessesOK, SetupInv
<1>3. WantedOK'
  BY DEF WantedOK, SetupInv
<1> QED
  BY <1>1, <1>2, <1>3 DEF SetupInv

LEMMA UnchangedHolder ==
  ASSUME UNCHANGED holder
  PROVE  ReservationsKept /\ (HolderOK => HolderOK')
BY DEF ReservationsKept, HolderOK

-----------------------------------------------------------------------------
(* Packets by kind.                                                        *)

LEMMA RequestFacts ==
  ASSUME NEW m \in Sound, m.kind = "Request"
  PROVE  /\ m.src \in EndNode /\ m.dest \in EndNode
         /\ m.hops \in Seq(SoundHop(m.src))
         /\ m = [kind |-> "Request", to |-> m.to, src |-> m.src,
                 dest |-> m.dest, hops |-> m.hops]
<1>1. m \in Requests
  BY DEF Sound, Responses, Internals, Rejects, Others
<1> QED
  BY <1>1 DEF Requests

LEMMA CarrierFacts ==
  ASSUME NEW m \in Sound, m.kind \in {"Response", "RuleSet"}
  PROVE  m.to \in QNode /\ m.ruleset \in SoundRuleSet(m.to)
<1>1. m \in Responses \cup Internals
  BY DEF Sound, Requests, Rejects, Others
<1> QED
  BY <1>1 DEF Responses, Internals

LEMMA RejectFacts ==
  ASSUME NEW m \in Sound, m.kind = "Reject"
  PROVE  m.to = m.src
<1>1. m \in Rejects
  BY DEF Sound, Requests, Responses, Internals, Others
<1> QED
  BY <1>1 DEF Rejects

\* Reserving QNICs that are free keeps the other reservations.
LEMMA ReserveKeeps ==
  ASSUME HolderOK, NEW n \in QNode, NEW qnics, NEW s,
         Reserve(n, qnics, s),
         \A q \in qnics \cap Qnic(n) : holder[n][q] = NoOne
  PROVE  /\ ReservationsKept /\ HolderOK'
         /\ \A q \in qnics \cap Qnic(n) : Reserved(n, q, s)'
<1>1. /\ DOMAIN holder' = QNode
      /\ holder'[n] = [q \in Qnic(n) |-> IF q \in qnics THEN s ELSE holder[n][q]]
      /\ \A m \in QNode \ {n} : holder'[m] = holder[m]
  BY DEF Reserve, HolderOK
<1>2. ReservationsKept
  BY <1>1 DEF ReservationsKept
<1>3. HolderOK'
  <2>1. \A m \in QNode : DOMAIN holder'[m] = Qnic(m)
    BY <1>1 DEF HolderOK
  <2> QED
    BY <1>1, <2>1 DEF HolderOK, Qnic
<1>4. \A q \in qnics \cap Qnic(n) : Reserved(n, q, s)'
  BY <1>1 DEF Reserved, Qnic
<1> QED
  BY <1>2, <1>3, <1>4

\* What is let pass finds its QNICs free.
LEMMA FreeQnics ==
  ASSUME NEW n \in QNode, NEW m, ~Refuses(n, m),
         NEW d \in {m.src, m.dest}, Route[n][d] \in Qnic(n)
  PROVE  holder[n][Route[n][d]] = NoOne
<1>1. Route[n][d] # NoQnic
  BY NodeFacts DEF NoQnic
<1>2. ~Busy(n, Route[n][d])
  BY DEF Refuses, Blocked
<1> QED
  BY <1>1, <1>2 DEF Busy, Address

-----------------------------------------------------------------------------
(* The steps.                                                              *)

LEMMA IssueStep ==
  ASSUME SetupInv, NEW n \in EndNode, Issue(n)
  PROVE  SetupInv' /\ ReservationsKept
<1> DEFINE p == [kind |-> "Request", to |-> n, src |-> n, dest |-> wanted[n],
                 hops |-> <<>>]
<1>1. ReservationsKept /\ HolderOK'
  BY UnchangedHolder DEF Issue, SetupInv
<1>2. n \in QNode /\ wanted[n] \in EndNode
  BY NodeFacts DEF Issue, SetupInv, WantedOK
<1>3. p \in Sound'
  BY <1>2 DEF Sound, Requests
<1>4. LineOK'
  BY <1>1, <1>2, <1>3, InvKept, MailType, SentType DEF Issue, LineOK
<1>5. ProcessesOK'
  BY <1>1, InvKept DEF ProcessesOK, SetupInv, Issue
<1>6. WantedOK'
  BY DEF WantedOK, SetupInv, Issue
<1> QED
  BY <1>1, <1>4, <1>5, <1>6 DEF SetupInv

LEMMA RelayStep ==
  ASSUME SetupInv, NEW a \in QNode, NEW b \in QNode, RelayRequest(a, b)
  PROVE  SetupInv' /\ ReservationsKept
<1>m. PICK m : m = Head(line[a][b])
  OBVIOUS
<1> DEFINE hop == HopOf(b, m.src, m.dest)
           p == [kind |-> "Request", to |-> Neighbor[b][hop.snd],
                 src |-> m.src, dest |-> m.dest, hops |-> Append(m.hops, hop)]
<1>1. line[a][b] # <<>> /\ m.kind = "Request" /\ m \in Sound
  BY <1>m, HeadType, Zenon DEF RelayRequest, Arrives, SetupInv, LineOK
<1>2. /\ m.src \in EndNode /\ m.dest \in EndNode
      /\ m.hops \in Seq(SoundHop(m.src))
      /\ m = [kind |-> "Request", to |-> m.to, src |-> m.src,
              dest |-> m.dest, hops |-> m.hops]
  BY <1>1, RequestFacts
<1>3. m.src \in QNode /\ m.dest \in QNode /\ m.dest # b
  BY <1>m, <1>2, NodeFacts, Zenon DEF RelayRequest
<1>4. /\ hop \in Hop /\ hop.node = b
      /\ hop.fst = Route[b][m.src] /\ hop.snd = Route[b][m.dest]
  BY <1>3, RouteFacts DEF HopOf, Hop
<1>5. hop.snd \in Qnic(b) /\ Neighbor[b][hop.snd] \in QNode
  BY <1>3, <1>4, RouteFacts
<1>6. /\ ReservationsKept /\ HolderOK'
      /\ b # m.src => Reserved(b, hop.fst, m.src)' /\ Reserved(b, hop.snd, m.src)'
  <2>1. CASE b = m.src
    BY <1>m, <2>1, UnchangedHolder, Zenon DEF RelayRequest, SetupInv
  <2>2. CASE b # m.src
    <3>1. hop.fst \in Qnic(b)
      BY <2>2, <1>3, <1>4, RouteFacts
    <3>2. holder[b][hop.fst] = NoOne /\ holder[b][hop.snd] = NoOne
      <4>1. ~Refuses(b, m)
        BY <1>m, ZenonT(40) DEF RelayRequest
      <4> QED
        BY <4>1, <3>1, <1>4, <1>5, FreeQnics
    <3>3. Reserve(b, {hop.fst, hop.snd}, m.src)
      BY <1>m, <2>2, Zenon DEF RelayRequest
    <3>4. HolderOK
      BY DEF SetupInv
    <3> HIDE DEF hop
    <3> QED
      BY <3>1, <3>2, <3>3, <3>4, <1>5, ReserveKeeps
  <2> QED
    BY <2>1, <2>2
<1>7. p \in Sound'
  <2>1. hop \in SoundHop(m.src)'
    BY <1>4, <1>6 DEF SoundHop, Hop
  <2>2. m.hops \in Seq(SoundHop(m.src)')
    BY <1>2, <1>6, HopsKept, SeqMonotone
  <2>3. Append(m.hops, hop) \in Seq(SoundHop(m.src)')
    BY <2>1, <2>2
  <2>4. p \in [kind : {"Request"}, to : QNode, src : {m.src}, dest : EndNode,
              hops : Seq(SoundHop(m.src)')]
    BY <2>3, <1>2, <1>5
  <2>5. p \in Requests'
    BY <2>4, <1>2 DEF Requests
  <2> QED
    BY <2>5 DEF Sound
<1>8. Mail(b, p) \in Out(Sound')
  BY <1>7, MailType
<1>9. line' = After(a, b, Mail(b, p)) /\ UNCHANGED <<wanted, processes>>
  BY <1>m, Zenon DEF RelayRequest
<1> QED
  BY <1>1, <1>6, <1>8, <1>9, MessageStep, Zenon

LEMMA RefuseStep ==
  ASSUME SetupInv, NEW a \in QNode, NEW b \in QNode, RefuseRequest(a, b)
  PROVE  SetupInv' /\ ReservationsKept
<1> DEFINE m == Head(line[a][b])
           p == [kind |-> "Reject", to |-> m.src, src |-> m.src, dest |-> m.dest]
<1>1. line[a][b] # <<>> /\ m.kind = "Request" /\ m \in Sound
  BY HeadType DEF RefuseRequest, Arrives, SetupInv, LineOK
<1>2. m.src \in EndNode /\ m.dest \in EndNode
  BY <1>1, RequestFacts
<1>3. p \in Sound'
  BY <1>2 DEF Sound, Rejects
<1>4. Mail(b, p) \in Out(Sound')
  BY <1>3, MailType
<1>5. ReservationsKept /\ HolderOK'
  BY UnchangedHolder DEF RefuseRequest, SetupInv
<1>6. line' = After(a, b, Mail(b, p)) /\ UNCHANGED <<wanted, processes>>
  BY DEF RefuseRequest
<1> QED
  BY <1>1, <1>4, <1>5, <1>6, MessageStep

\* What a RuleSet says of the node it is for.
LEMMA RuleSetFields ==
  ASSUME NEW s, NEW hops, NEW i
  PROVE  LET r == RuleSetFor(s, hops, i)
         IN  /\ r.of = s
             /\ r.kind = "swap" => r.lqnic = hops[i].fst /\ r.rqnic = hops[i].snd
BY Zenon DEF RuleSetFor

LEMMA AnswerStep ==
  ASSUME SetupInv, NEW a \in QNode, NEW b \in QNode, AnswerRequest(a, b)
  PROVE  SetupInv' /\ ReservationsKept
<1>m. PICK m : m = Head(line[a][b])
  OBVIOUS
<1> DEFINE hops == Append(m.hops, HopOf(b, m.src, b))
           Response(i) == [kind |-> "Response", to |-> hops[i].node,
                           src |-> m.src, dest |-> b,
                           ruleset |-> RuleSetFor(m.src, hops, i)]
           earlier == [i \in 1 .. Len(m.hops) |-> Response(i)]
           out == [c \in QNode |->
                    IF c = b THEN <<Response(Len(hops))>>
                    ELSE IF c = NextHop(b, m.src) THEN earlier ELSE <<>>]
<1>1. line[a][b] # <<>> /\ m.kind = "Request" /\ m \in Sound
  BY <1>m, HeadType, ZenonT(40) DEF AnswerRequest, Arrives, SetupInv, LineOK
<1>2. /\ m.src \in EndNode /\ m.dest = b /\ b \in EndNode
      /\ m.hops \in Seq(SoundHop(m.src)) /\ m.src \in QNode
  BY <1>m, <1>1, RequestFacts, NodeFacts, ZenonT(40) DEF AnswerRequest
<1>3. ReservationsKept /\ HolderOK'
  <2>1. HolderOK /\ Reserve(b, {Route[b][m.src]}, m.src) /\ ~Refuses(b, m)
    BY <1>m, Zenon DEF AnswerRequest, SetupInv
  <2>2. \A q \in {Route[b][m.src]} \cap Qnic(b) : holder[b][q] = NoOne
    BY <2>1, FreeQnics
  <2> QED
    BY <2>1, <2>2, ReserveKeeps
<1>4. /\ Len(m.hops) \in Nat /\ Len(hops) = Len(m.hops) + 1
      /\ hops \in Seq(Hop)
      /\ hops[Len(hops)].node = b
      /\ \A i \in 1 .. Len(m.hops) : hops[i] \in SoundHop(m.src)'
  <2>1. HopOf(b, m.src, b) \in Hop /\ HopOf(b, m.src, b).node = b
    BY <1>2, RouteFacts DEF HopOf, Hop
  <2>2. m.hops \in Seq(SoundHop(m.src)')
    BY <1>2, <1>3, HopsKept, SeqMonotone
  <2>3. m.hops \in Seq(Hop)
    BY <1>2, SeqMonotone DEF SoundHop
  <2> HIDE DEF Hop
  <2> QED
    BY <2>1, <2>2, <2>3
<1>5. ASSUME NEW i \in 1 .. Len(hops)
      PROVE  Response(i) \in Sound'
  <2> HIDE DEF hops
  <2>1. hops[i] \in Hop /\ hops[i].node \in QNode
    <3>1. hops[i] \in Hop
      BY <1>4
    <3> QED
      BY <3>1 DEF Hop
  <2>2. RuleSetFor(m.src, hops, i) \in AnyRuleSet
    BY <1>2, <1>4 DEF AnyRuleSet
  <2>3. ASSUME hops[i].node \in EndNode
        PROVE  RuleSetFor(m.src, hops, i) \in SoundRuleSet(hops[i].node)'
    BY <2>2, <2>3 DEF SoundRuleSet
  <2>4. ASSUME hops[i].node \notin EndNode
        PROVE  RuleSetFor(m.src, hops, i) \in SoundRuleSet(hops[i].node)'
    <3>1. hops[i] \in SoundHop(m.src)' /\ hops[i].node # m.src
      BY <2>4, <1>2, <1>4
    <3>2. /\ Reserved(hops[i].node, hops[i].fst, m.src)'
          /\ Reserved(hops[i].node, hops[i].snd, m.src)'
      BY <3>1 DEF SoundHop
    <3> DEFINE r == RuleSetFor(m.src, hops, i)
    <3>3. /\ r.of = m.src
          /\ r.kind = "swap" => r.lqnic = hops[i].fst /\ r.rqnic = hops[i].snd
      BY RuleSetFields
    <3> HIDE DEF r
    <3>4. r \in AnyRuleSet
      BY <2>2 DEF r
    <3>5. r \in SoundRuleSet(hops[i].node)'
      BY <3>2, <3>3, <3>4, <1>2 DEF SoundRuleSet
    <3> QED
      BY <3>5 DEF r
  <2>5. Response(i) \in Responses'
    BY <2>1, <2>3, <2>4, <1>2 DEF Responses
  <2> QED
    BY <2>5 DEF Sound
<1>6. out \in Out(Sound')
  <2> HIDE DEF hops, Response
  <2>1. Len(hops) \in 1 .. Len(hops)
    BY <1>4
  <2>2. <<Response(Len(hops))>> \in Seq(Sound')
    BY <1>5, <2>1
  <2>3. \A i \in 1 .. Len(m.hops) : Response(i) \in Sound'
    BY <1>4, <1>5
  <2>4. earlier \in Seq(Sound')
    BY <2>3, <1>4
  <2> QED
    BY <2>2, <2>4 DEF Out
<1>7. line' = After(a, b, out) /\ UNCHANGED <<wanted, processes>>
  BY <1>m, <1>2, Zenon DEF AnswerRequest
<1> QED
  BY <1>m, <1>1, <1>3, <1>6, <1>7, MessageStep, ZenonT(40)

LEMMA ResponseStep ==
  ASSUME SetupInv, NEW a \in QNode, NEW b \in QNode, ReceiveResponse(a, b)
  PROVE  SetupInv' /\ ReservationsKept
<1>m. PICK m : m = Head(line[a][b])
  OBVIOUS
<1> DEFINE p == [kind |-> "RuleSet", to |-> b, ruleset |-> m.ruleset]
<1>1. line[a][b] # <<>> /\ m.kind = "Response" /\ m.to = b /\ m \in Sound
  BY <1>m, HeadType DEF ReceiveResponse, Arrives, SetupInv, LineOK
<1>2. ReservationsKept /\ HolderOK'
  BY UnchangedHolder DEF ReceiveResponse, SetupInv
<1>3. m.ruleset \in SoundRuleSet(b)'
  BY <1>1, <1>2, CarrierFacts, RuleSetsKept
<1>4. p \in Sound'
  BY <1>3 DEF Sound, Internals
<1>5. Mail(b, p) \in Out(Sound')
  BY <1>4, MailType
<1>6. line' = After(a, b, Mail(b, p)) /\ UNCHANGED <<wanted, processes>>
  BY <1>m DEF ReceiveResponse
<1> QED
  BY <1>m, <1>1, <1>2, <1>5, <1>6, MessageStep

LEMMA StoreStep ==
  ASSUME SetupInv, NEW a \in QNode, NEW b \in QNode, StoreRuleSet(a, b)
  PROVE  SetupInv' /\ ReservationsKept
<1>m. PICK m : m = Head(line[a][b])
  OBVIOUS
<1>1. line[a][b] # <<>> /\ m.kind = "RuleSet" /\ m.to = b /\ m \in Sound
  BY <1>m, HeadType DEF StoreRuleSet, Arrives, SetupInv, LineOK
<1>2. ReservationsKept /\ HolderOK'
  BY UnchangedHolder DEF StoreRuleSet, SetupInv
<1>3. m.ruleset \in SoundRuleSet(b)' /\ m.ruleset \in AnyRuleSet
  BY <1>1, <1>2, CarrierFacts, RuleSetsKept DEF SoundRuleSet
<1>4. ProcessesOK'
  <2>1. processes' = [processes EXCEPT ![b] = Append(@, m.ruleset)]
    BY <1>m DEF StoreRuleSet
  <2>2. \A n \in QNode : processes[n] \in Seq(SoundRuleSet(n)')
    BY <1>2, InvKept
  <2>3. /\ Append(processes[b], m.ruleset) \in Seq(SoundRuleSet(b)')
        /\ Append(processes[b], m.ruleset) \in Seq(AnyRuleSet)
    BY <1>3, <2>2 DEF SetupInv, ProcessesOK
  <2>4. processes \in [QNode -> Seq(AnyRuleSet)]
    BY DEF SetupInv, ProcessesOK
  <2>5. processes' \in [QNode -> Seq(AnyRuleSet)]
    BY <2>1, <2>3, <2>4
  <2>6. \A n \in QNode : processes'[n] \in Seq(SoundRuleSet(n)')
    BY <2>1, <2>2, <2>3, <2>4
  <2> QED
    BY <2>5, <2>6 DEF ProcessesOK
<1>5. LineOK'
  <2>1. line' = After(a, b, Silence) /\ Silence \in Out(Sound')
    BY SilenceType DEF StoreRuleSet
  <2> QED
    BY <2>1, <1>1, <1>2, <1>m, InvKept, AfterType DEF LineOK
<1>6. WantedOK'
  BY DEF WantedOK, SetupInv, StoreRuleSet
<1> QED
  BY <1>2, <1>4, <1>5, <1>6 DEF SetupInv

LEMMA RejectStep ==
  ASSUME SetupInv, NEW a \in QNode, NEW b \in QNode, ReceiveReject(a, b)
  PROVE  SetupInv' /\ ReservationsKept
<1>m. PICK m : m = Head(line[a][b])
  OBVIOUS
<1>1. line[a][b] # <<>> /\ m.kind = "Reject" /\ m.to = b /\ m \in Sound
  BY <1>m, HeadType DEF ReceiveReject, Arrives, SetupInv, LineOK
<1>2. b = m.src
  BY <1>1, RejectFacts, SMTT(30)
<1>3. ReservationsKept /\ HolderOK'
  BY <1>m, <1>2, UnchangedHolder DEF ReceiveReject, SetupInv
<1>4. line' = After(a, b, Silence) /\ Silence \in Out(Sound')
  BY SilenceType DEF ReceiveReject
<1>5. UNCHANGED <<wanted, processes>>
  BY DEF ReceiveReject
<1> QED
  BY <1>m, <1>1, <1>3, <1>4, <1>5, MessageStep

LEMMA ForwardStep ==
  ASSUME SetupInv, NEW a \in QNode, NEW b \in QNode, Forward(a, b)
  PROVE  SetupInv' /\ ReservationsKept
<1>m. PICK m : m = Head(line[a][b])
  OBVIOUS
<1>1. line[a][b] # <<>> /\ m \in Sound
  BY <1>m, HeadType DEF Forward, Passes, SetupInv, LineOK
<1>2. ReservationsKept /\ HolderOK'
  BY UnchangedHolder DEF Forward, SetupInv
<1>3. Mail(b, m) \in Out(Sound')
  BY <1>1, <1>2, SoundKept, MailType
<1>4. line' = After(a, b, Mail(b, m)) /\ UNCHANGED <<wanted, processes>>
  BY <1>m DEF Forward, Passes
<1> QED
  BY <1>m, <1>1, <1>2, <1>3, <1>4, MessageStep

-----------------------------------------------------------------------------
(* The theorems.                                                           *)

LEMMA InvInit == SetupInit => SetupInv
<1> SUFFICES ASSUME SetupInit PROVE SetupInv
  OBVIOUS
<1>1. WantedOK
  BY DEF SetupInit, WantedOK
<1>2. HolderOK
  BY DEF SetupInit, HolderOK
<1>3. ProcessesOK
  BY DEF SetupInit, ProcessesOK
<1>4. LineOK
  BY DEF SetupInit, LineOK, Lines, Out
<1> QED
  BY <1>1, <1>2, <1>3, <1>4 DEF SetupInv

LEMMA InvNext == SetupInv /\ [SetupNext]_setupVars => SetupInv' /\ ReservationsKept
<1> SUFFICES ASSUME SetupInv, [SetupNext]_setupVars
             PROVE  SetupInv' /\ ReservationsKept
  OBVIOUS
<1>1. CASE UNCHANGED setupVars
  <2>1. ReservationsKept /\ HolderOK'
    BY <1>1, UnchangedHolder DEF setupVars, SetupInv
  <2>2. WantedOK' /\ ProcessesOK' /\ LineOK'
    BY <1>1, <2>1, InvKept
       DEF setupVars, SetupInv, WantedOK, ProcessesOK, LineOK
  <2> QED
    BY <2>1, <2>2 DEF SetupInv
<1>2. CASE \E n \in EndNode : Issue(n)
  BY <1>2, IssueStep
<1>3. CASE \E a, b \in QNode : Handle(a, b) \/ StoreRuleSet(a, b)
  <2>1. PICK a \in QNode, b \in QNode : Handle(a, b) \/ StoreRuleSet(a, b)
    BY <1>3
  <2>2. CASE RelayRequest(a, b)
    BY <2>2, RelayStep
  <2>3. CASE RefuseRequest(a, b)
    BY <2>3, RefuseStep
  <2>4. CASE AnswerRequest(a, b)
    BY <2>4, AnswerStep
  <2>5. CASE ReceiveResponse(a, b)
    BY <2>5, ResponseStep
  <2>6. CASE ReceiveReject(a, b)
    BY <2>6, RejectStep
  <2>7. CASE Forward(a, b)
    BY <2>7, ForwardStep
  <2>8. CASE StoreRuleSet(a, b)
    BY <2>8, StoreStep
  <2> QED
    BY <2>1, <2>2, <2>3, <2>4, <2>5, <2>6, <2>7, <2>8 DEF Handle
<1> QED
  BY <1>1, <1>2, <1>3 DEF SetupNext

\* The invariant says what the property asks for.
LEMMA InvReserved == SetupInv => RuleSetsReserved
<1> SUFFICES ASSUME SetupInv, NEW n \in QNode \ EndNode,
                    NEW r \in RuleSetsOf(n), r.kind = "swap"
             PROVE  holder[n][r.lqnic] = r.of /\ holder[n][r.rqnic] = r.of
  BY DEF RuleSetsReserved
<1>1. r \in SoundRuleSet(n)
  <2>1. CASE r \in Installed(n)
    BY <2>1 DEF Installed, SetupInv, ProcessesOK
  <2>2. CASE r \in Coming(n)
    <3>1. PICK m \in InTransit : /\ m.kind \in {"Response", "RuleSet"}
                                 /\ m.to = n /\ m.ruleset = r
      BY <2>2 DEF Coming
    <3>2. PICK a \in QNode, b \in QNode : m \in {line[a][b][i] : i \in DOMAIN line[a][b]}
      BY <3>1 DEF InTransit
    <3>3. line[a][b] \in Seq(Sound)
      BY DEF SetupInv, LineOK, Lines, Out
    <3>4. m \in Sound
      BY <3>2, <3>3
    <3> QED
      BY <3>1, <3>4, CarrierFacts
  <2> QED
    BY <2>1, <2>2 DEF RuleSetsOf
<1> QED
  BY <1>1 DEF SoundRuleSet, Reserved

\* The QNICs a repeater is told to swap between are reserved for that very
\* connection, whatever rivals do and in whatever order messages arrive.
THEOREM SwappersReserved == SetupSpec => []RuleSetsReserved
<1>1. SetupInv /\ [SetupNext]_setupVars => SetupInv'
  BY InvNext
<1> QED
  BY <1>1, InvInit, InvReserved, PTL DEF SetupSpec

\* No step of the setup takes a reserved QNIC away from its connection.
THEOREM ReservationsNeverTaken == SetupSpec => [][ReservationsKept]_setupVars
<1>1. SetupInv /\ [SetupNext]_setupVars => SetupInv' /\ ReservationsKept
  BY InvNext
<1> QED
  BY <1>1, InvInit, PTL DEF SetupSpec
=============================================================================
