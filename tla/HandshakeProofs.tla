---------------------------- MODULE HandshakeProofs ----------------------------
(***************************************************************************)
(* What connection setup promises at every moment, for any number of       *)
(* attempts, minutes and stored packets, proved: types, that a connector   *)
(* stays registered, and that who is connected has a peer that agrees.     *)
(***************************************************************************)
EXTENDS Handshake, TLAPS

\* What an end keeps by itself, in either mode: where its call may be with which flags.
Local(e) ==
  /\ e.pc = "send" => ~ e.connecting /\ ~ e.connected /\ e.entries # {}
  /\ e.pc \in {"send", "wait", "finish"} \/ e.entries # {} \/ e.connecting \/ e.connected => e.isn # 0
  /\ e.isn # 0 => e.reqType # NoType
  /\ e.connected => ~ e.connecting
  /\ e.connecting /\ e.pc # "finish" /\ e.opened => e.entries # {}
  /\ ~ mode.sync => e.pc \in {"idle", "send"} /\ e.result = "none" /\ e.isn \in {0, 1}
  /\ mode.sync /\ e.connected => e.pc = "check" \/ (e.pc = "idle" /\ e.result # "none")

\* Done(e): its peer is set up, or is about to be.
Done(e) == e.connected \/ e.pc = "finish"

\* A regular caller: what it has recorded is an answer of the listener, which has made
\* the connection if it says so, to this attempt if the caller believes in it.
Answered(e) ==
  /\ e.resType = Response => e.resIsn \in made
  /\ Done(e) => e.resType \in {Response, Refusal}
  /\ ~ mode.sync /\ e.resType # NoType => e.resIsn = 1
  /\ mode.sync /\ e.connected /\ e.pc = "idle" /\ e.result = "ok" => e.resIsn = e.isn

\* So is what travels to it.
IsAnswer(m) ==
  m.kind = "handshake" =>
    /\ m.isn # 0 /\ (~ mode.sync => m.isn = 1)
    /\ m.to = "a" => m.type \in {Request, Response, Refusal}
    /\ m.to = "a" /\ m.type = Response => m.isn \in made

Answers == ep["b"] = Opened /\ Answered(ep["a"]) /\ \A m \in net : IsAnswer(m)

\* A caller in rendezvous mode: who answers, or is set up, has heard of the other ...
Met(e) ==
  /\ e.isn # 0 => e.reqType \in {Rendezvous, Response}
  /\ e.reqType = Response \/ Done(e) => e.resType # NoType

HasHeard(p) == ep[p].resType # NoType

\* ... and so have the senders of answers and of data.
IsMeeting(m) ==
  /\ m.kind = "handshake" => m.type \in {Rendezvous, Response, Agreement}
  /\ m.kind = "data" \/ m.type # Rendezvous => HasHeard(Other(m.to))

Meeting ==
  /\ \A p \in Ends : Met(ep[p]) /\ (Done(ep[p]) => HasHeard(Other(p)))
  /\ \A m \in net : IsMeeting(m)

\* What is stored for an end was sent to it.
IsFor(p, stored) == \A i \in DOMAIN stored : stored[i].to = p

IInv ==
  /\ TypeOK
  /\ \A p \in Ends : Local(ep[p]) /\ IsFor(p, ep[p].stored)
  /\ ~ mode.rendezvous => Answers
  /\ mode.rendezvous => Meeting

-----------------------------------------------------------------------------
(* What the operators on an end change                                      *)

\* All but what is recorded of the peer and what is asked of it.
SameCall(e, f) ==
  /\ f.opened = e.opened /\ f.connecting = e.connecting /\ f.connected = e.connected
  /\ f.closing = e.closing /\ f.isn = e.isn /\ f.entries = e.entries /\ f.expired = e.expired
  /\ f.stored = e.stored /\ f.pc = e.pc /\ f.result = e.result

\* A packet that is heard changes what is recorded of the peer and what is asked next.
LEMMA Hearing ==
  ASSUME NEW e \in Endpoint, NEW m \in Packet
  PROVE  /\ Heard(e, m) \in Endpoint
         /\ SameCall(e, Heard(e, m))
         /\ \/ Heard(e, m) = e
            \/ /\ e.connecting /\ m.kind = "handshake"
               /\ Heard(e, m).resType = m.type /\ Heard(e, m).resIsn = m.isn
               /\ Heard(e, m).reqType \in {e.reqType, Response}
<1>1. CASE ~ e.connecting \/ m.kind # "handshake"
  BY <1>1 DEF Heard, SameCall
<1>2. CASE e.connecting /\ m.kind = "handshake"
  <2>1. /\ Recorded(e, m) \in Endpoint
        /\ SameCall(e, Recorded(e, m))
        /\ Recorded(e, m).resType = m.type /\ Recorded(e, m).resIsn = m.isn
        /\ Recorded(e, m).reqType = e.reqType
    BY DEF Recorded, Endpoint, Packet, SameCall
  <2> DEFINE r == Recorded(e, m)
             c == IF mode.rendezvous THEN r.reqCookie ELSE m.cookie
             a == [r EXCEPT !.reqType = Response, !.reqCookie = c]
  <2>2. c \in 0 .. MaxTurns
    BY <2>1 DEF Endpoint, Packet
  <2>3. a \in Endpoint /\ a.resType = m.type /\ a.resIsn = m.isn /\ a.reqType = Response
    BY <2>1, <2>2 DEF Endpoint, Types
  <2>4. SameCall(e, a)
    BY <2>1, <2>2 DEF SameCall, Endpoint
  <2>5. Heard(e, m) = r \/ Heard(e, m) = a
    BY <1>2 DEF Heard
  <2> QED
    BY <1>2, <2>1, <2>3, <2>4, <2>5
<1> QED
  BY <1>1, <1>2 DEF Packet

\* removeConnector forgets an entry and what is stored.
LEMMA Unregistering ==
  ASSUME NEW e \in Endpoint
  PROVE  LET u == Unregistered(e) IN
         /\ u \in Endpoint /\ u.entries \subseteq e.entries /\ u.stored = <<>>
         /\ u.opened = e.opened /\ u.connecting = e.connecting /\ u.connected = e.connected
         /\ u.closing = e.closing /\ u.isn = e.isn /\ u.expired = e.expired /\ u.pc = e.pc
         /\ u.result = e.result /\ u.reqType = e.reqType /\ u.resType = e.resType /\ u.resIsn = e.resIsn
<1> DEFINE rest == IF e.entries = {} THEN e.entries ELSE e.entries \ {Oldest(e.entries)}
           empty == <<>>
<1>1. rest \in SUBSET Attempts /\ rest \subseteq e.entries
  BY DEF Endpoint
<1>2. empty \in Seq(Packet)
  OBVIOUS
<1>3. Unregistered(e) = [e EXCEPT !.entries = rest, !.stored = empty]
  BY DEF Unregistered
<1> HIDE DEF rest, empty
<1>4. /\ Unregistered(e) \in Endpoint
      /\ Unregistered(e).entries = rest /\ Unregistered(e).stored = empty
  BY <1>1, <1>2, <1>3 DEF Endpoint
<1> QED
  BY <1>1, <1>3, <1>4 DEF Endpoint, empty

-----------------------------------------------------------------------------
(* What a step has to keep                                                  *)

\* An end as it may be after a step.
MayBecome(p, e) ==
  /\ e \in Endpoint /\ Local(e)
  /\ Len(e.stored) <= MaxStored /\ \A i \in DOMAIN e.stored : e.stored[i] \in net
  /\ IsFor(p, e.stored)
  /\ ~ mode.rendezvous => p = "a" /\ Answered(e)
  /\ mode.rendezvous => /\ Met(e) /\ (Done(e) => HasHeard(Other(p)))
                        /\ HasHeard(p) => e.resType # NoType

\* A packet that may be sent.
MaySend(m) ==
  /\ m \in Packet
  /\ ~ mode.rendezvous => IsAnswer(m)
  /\ mode.rendezvous => IsMeeting(m)

\* Steps of one end, which may send packets.
LEMMA EndChanges ==
  ASSUME IInv, NEW p \in Ends, NEW e, MayBecome(p, e), Only(p, e), UNCHANGED <<mode, minute, made>>,
         net \subseteq net', \A m \in net' \ net : MaySend(m)
  PROVE  IInv'
<1>1. ep' \in [Ends -> Endpoint] /\ ep'[p] = e /\ \A q \in Ends \ {p} : ep'[q] = ep[q]
  BY DEF IInv, TypeOK, MayBecome, Only
<1>2. TypeOK'
  BY <1>1 DEF IInv, TypeOK, MayBecome, MaySend
<1>3. (\A q \in Ends : Local(ep[q]) /\ IsFor(q, ep[q].stored))'
  BY <1>1 DEF IInv, MayBecome, Local, IsFor
<1>4. ASSUME ~ mode.rendezvous
      PROVE  Answers'
  BY <1>1, <1>4 DEF IInv, MayBecome, MaySend, Answers, Answered, IsAnswer, Done, Ends
<1>5. ASSUME mode.rendezvous
      PROVE  Meeting'
  <2>1. \A q \in Ends : HasHeard(q) => HasHeard(q)'
    BY <1>1, <1>5 DEF MayBecome, HasHeard
  <2>2. \A q \in Ends : Other(q) \in Ends
    BY DEF Other, Ends
  <2>3. \A q \in Ends : Met(ep'[q]) /\ (Done(ep'[q]) => HasHeard(Other(q)))
    BY <1>1, <1>5 DEF IInv, Meeting, MayBecome
  <2>4. \A m \in net' : IsMeeting(m)
    BY <1>5 DEF IInv, Meeting, MaySend
  <2>5. \A m \in net' : m.to \in Ends
    BY DEF IInv, TypeOK, MaySend, Packet
  <2>6. \A m \in net' : IsMeeting(m)'
    BY <2>1, <2>2, <2>4, <2>5 DEF IsMeeting
  <2> QED
    BY <2>1, <2>2, <2>3, <2>6 DEF Meeting, Met, Done
<1> QED
  BY <1>2, <1>3, <1>4, <1>5 DEF IInv

\* Steps that send a packet and change no end; the listener may have made a connection.
LEMMA PacketIsSent ==
  ASSUME IInv, NEW m, MaySend(m)', net' = net \cup {m}, UNCHANGED <<mode, minute, ep>>,
         made \subseteq made', made' \subseteq Attempts
  PROVE  IInv'
<1>1. TypeOK'
  BY DEF IInv, TypeOK, MaySend, Packet
<1>2. (\A q \in Ends : Local(ep[q]) /\ IsFor(q, ep[q].stored))'
  BY DEF IInv, Local
<1>3. ASSUME ~ mode.rendezvous
      PROVE  Answers'
  BY <1>3 DEF IInv, MaySend, Answers, Answered, IsAnswer, Done
<1>4. ASSUME mode.rendezvous
      PROVE  Meeting'
  BY <1>4 DEF IInv, MaySend, Meeting, Met, IsMeeting, HasHeard, Done
<1> QED
  BY <1>1, <1>2, <1>3, <1>4 DEF IInv
\* A caller is what it may become, and the listener is none.
LEMMA CallerIs ==
  ASSUME IInv, NEW p \in Callers
  PROVE  p \in Ends /\ MayBecome(p, ep[p])
BY DEF IInv, TypeOK, MayBecome, Callers, Ends, Answers, Meeting, HasHeard

\* An end that has changed is a caller.
LEMMA OnlyCallers ==
  ASSUME IInv, NEW p \in Ends, ep[p] # Opened
  PROVE  p \in Callers
BY DEF IInv, Answers, Callers, Ends

\* All that an end knows of the other and asks of it, and what is stored for it.
SameKnown(e, f) ==
  /\ f.isn = e.isn /\ f.reqType = e.reqType /\ f.stored = e.stored
  /\ f.resType = e.resType /\ f.resIsn = e.resIsn

\* A change of the call alone, that sets nothing up.
LEMMA CallChanges ==
  ASSUME NEW p \in Callers, NEW f, MayBecome(p, f), NEW e \in Endpoint, Local(e),
         SameKnown(f, e), Done(e) => Done(f),
         mode.sync /\ e.connected /\ e.pc = "idle" /\ e.result = "ok"
           => \/ mode.rendezvous \/ e.resIsn = e.isn
              \/ f.connected /\ f.pc = "idle" /\ f.result = "ok"
  PROVE  MayBecome(p, e)
BY DEF MayBecome, Answered, Met, SameKnown

\* So does a packet that is heard, unless the connection is being set up.
LEMMA HearingKeeps ==
  ASSUME IInv, NEW p \in Callers, NEW m \in net, m.to = p,
         NEW f, MayBecome(p, f), f.pc # "finish"
  PROVE  MayBecome(p, Heard(f, m)) /\ SameCall(f, Heard(f, m))
<1> DEFINE h == Heard(f, m)
<1>1. f \in Endpoint /\ m \in Packet /\ Local(f)
  BY DEF IInv, TypeOK, MayBecome
<1>2. h \in Endpoint /\ SameCall(f, h)
  BY <1>1, Hearing
<1>3. CASE h = f
  BY <1>2, <1>3
<1>4. CASE h # f
  <2>1. /\ f.connecting /\ m.kind = "handshake"
        /\ h.resType = m.type /\ h.resIsn = m.isn /\ h.reqType \in {f.reqType, Response}
    BY <1>1, <1>4, Hearing
  <2> HIDE DEF h
  <2>2. Local(h)
    BY <1>1, <1>2, <2>1 DEF Local, SameCall, Response, NoType
  <2>3. ~ Done(h)
    BY <1>1, <1>2, <2>1 DEF Local, Done, SameCall
  <2>4. ASSUME ~ mode.rendezvous
        PROVE  p = "a" /\ Answered(h)
    BY <1>2, <2>1, <2>3, <2>4 DEF IInv, Answers, IsAnswer, Answered, Callers, Done
  <2>5. ASSUME mode.rendezvous
        PROVE  Met(h) /\ h.resType # NoType
    <3>1. IsMeeting(m) /\ Met(f)
      BY <2>5 DEF IInv, Meeting, MayBecome
    <3> QED
      BY <1>2, <2>1, <2>3, <3>1
         DEF IsMeeting, Met, SameCall, Rendezvous, Response, Agreement, NoType
  <2> QED
    BY <1>2, <2>2, <2>3, <2>4, <2>5 DEF MayBecome, SameCall, h
<1> QED
  BY <1>3, <1>4

\* Who is to be set up has an answer, and in rendezvous mode the other end has heard of it.
LEMMA Decides ==
  ASSUME IInv, NEW p \in Callers, NEW m \in net, m.to = p,
         NEW f, MayBecome(p, f), Verdict(f, m) = 0
  PROVE  /\ f.connecting
         /\ ~ mode.rendezvous => Heard(f, m).resType \in {Response, Refusal}
         /\ mode.rendezvous => Heard(f, m).resType # NoType /\ HasHeard(Other(p))
<1>1. f \in Endpoint /\ m \in Packet /\ f.connecting
  BY DEF IInv, TypeOK, MayBecome, Verdict
<1>2. CASE Implied(f, m)
  <2>1. Heard(f, m) = f /\ mode.rendezvous /\ IsMeeting(m) /\ m.kind = "data"
    BY <1>2 DEF Implied, Heard, IInv, Meeting
  <2> QED
    BY <1>1, <1>2, <2>1 DEF Implied, IsMeeting
<1>3. CASE ~ Implied(f, m)
  <2>1. m.kind = "handshake" /\ ~ AskAgain(f, m)
    BY <1>1, <1>3 DEF Verdict
  <2>2. Heard(f, m) = Recorded(f, m) /\ Heard(f, m).resType = m.type
    BY <1>1, <2>1 DEF Heard, Recorded, Endpoint
  <2>3. CASE ~ mode.rendezvous
    BY <1>1, <2>1, <2>2, <2>3 DEF IInv, Answers, IsAnswer, AskAgain, Callers
  <2>4. CASE mode.rendezvous
    BY <1>1, <2>1, <2>2, <2>4
       DEF IInv, Meeting, IsMeeting, AskAgain, Rendezvous, Response, Agreement, NoType
  <2> QED
    BY <2>3, <2>4
<1> QED
  BY <1>1, <1>2, <1>3

-----------------------------------------------------------------------------
(* The steps of a caller                                                    *)

LEMMA ConnectBegins ==
  ASSUME IInv, NEW p \in Ends, connectBegins(p)
  PROVE  IInv'
<1> DEFINE i == ep[p].isn + 1
           more == ep[p].entries \cup {i}
           type == IF mode.rendezvous THEN Rendezvous ELSE Request
           e == [ep[p] EXCEPT !.entries = more, !.isn = i, !.pc = "send", !.result = "none", !.reqType = type]
<1>1. Only(p, e)
  BY DEF connectBegins, Registered, Only
<1>2. ep[p] \in Endpoint /\ ep[p].isn \in Nat /\ Local(ep[p])
  BY HandshakeAssumption DEF IInv, TypeOK, Endpoint
<1>3. i \in Attempts /\ i \in 0 .. MaxTurns
  BY <1>2, HandshakeAssumption DEF IInv, TypeOK, Attempts, connectBegins, MayCall
<1>4. more \in SUBSET Attempts /\ more # {}
  BY <1>2, <1>3 DEF Endpoint
<1>5. type \in Types /\ type # NoType /\ (mode.rendezvous => type = Rendezvous)
  BY DEF Types, Rendezvous, Request, NoType
<1>6. ep[p].isn = 0 \/ ep[p].result = "timeout"
  BY DEF connectBegins, MayCall
<1> HIDE DEF more, type
<1>7. e \in Endpoint
  BY <1>2, <1>3, <1>4, <1>5 DEF Endpoint
<1>8. /\ e.isn = i /\ e.entries = more /\ e.pc = "send" /\ e.result = "none" /\ e.reqType = type
      /\ e.connecting = ep[p].connecting /\ e.connected = ep[p].connected /\ e.opened = ep[p].opened
      /\ e.resType = ep[p].resType /\ e.resIsn = ep[p].resIsn /\ e.stored = ep[p].stored
  BY <1>2 DEF Endpoint
<1>9. Local(e)
  BY <1>2, <1>3, <1>4, <1>5, <1>6, <1>8 DEF Local, connectBegins, MayCall
<1>10. ASSUME ~ mode.rendezvous
       PROVE  p = "a" /\ Answered(e)
  BY <1>2, <1>8, <1>10 DEF IInv, Answers, Answered, Done, connectBegins, MayCall, Callers
<1>11. ASSUME mode.rendezvous
       PROVE  Met(e) /\ ~ Done(e) /\ (HasHeard(p) => e.resType # NoType)
  BY <1>2, <1>5, <1>8, <1>11
     DEF Met, Done, HasHeard, connectBegins, MayCall, Rendezvous, Response
<1>12. MayBecome(p, e)
  BY <1>7, <1>8, <1>9, <1>10, <1>11 DEF MayBecome, IInv, TypeOK
<1> QED
  BY <1>1, <1>12, EndChanges DEF connectBegins

\* The request of a caller may be sent.
LEMMA RequestMaySend ==
  ASSUME IInv, NEW p \in Callers, ep[p].isn # 0
  PROVE  MaySend(Req(p))
<1> DEFINE e == ep[p]
           id == IF mode.rendezvous /\ e.resType # NoType THEN 1 ELSE 0
<1>1. p \in Ends /\ Other(p) \in Ends /\ e \in Endpoint /\ Local(e)
  BY DEF IInv, TypeOK, Callers, Ends, Other
<1>2. Req(p) = HS(Other(p), id, e.reqType, e.isn, e.reqCookie) /\ id \in {0, 1}
  BY DEF Req
<1> HIDE DEF id
<1>3. Req(p) \in Packet
  BY <1>1, <1>2 DEF HS, Packet, Endpoint
<1>4. /\ Req(p).kind = "handshake" /\ Req(p).to = Other(p)
      /\ Req(p).type = e.reqType /\ Req(p).isn = e.isn
  BY <1>2 DEF HS
<1>5. ASSUME ~ mode.rendezvous
      PROVE  IsAnswer(Req(p))
  BY <1>1, <1>4, <1>5 DEF IsAnswer, Callers, Other, Local
<1>6. ASSUME mode.rendezvous
      PROVE  IsMeeting(Req(p))
  <2>1. Met(e) /\ Other(Other(p)) = p
    BY <1>1, <1>6 DEF IInv, Meeting, Other, Ends
  <2> QED
    BY <1>4, <2>1 DEF IsMeeting, Met, HasHeard, Rendezvous, Response, Agreement
<1> QED
  BY <1>3, <1>5, <1>6 DEF MaySend

LEMMA ConnectSends ==
  ASSUME IInv, NEW p \in Ends, connectSends(p)
  PROVE  IInv'
<1> DEFINE c == IF mode.sync THEN "wait" ELSE "idle"
           e == [ep[p] EXCEPT !.connecting = TRUE, !.pc = c]
<1>1. Only(p, e) /\ net' = net \cup {Req(p)}
  BY DEF connectSends, Only
<1>2. ep[p] \in Endpoint /\ Local(ep[p]) /\ ep[p].pc = "send"
  BY DEF IInv, TypeOK, connectSends
<1>3. p \in Callers /\ MayBecome(p, ep[p])
  BY <1>2, CallerIs, OnlyCallers DEF Opened
<1>4. c \in {"wait", "idle"} /\ (~ mode.sync => c = "idle") /\ (mode.sync => c = "wait")
  OBVIOUS
<1> HIDE DEF c
<1>5. e \in Endpoint
  BY <1>2, <1>4 DEF Endpoint
<1>6. /\ SameKnown(ep[p], e) /\ e.connecting /\ e.pc = c /\ e.entries = ep[p].entries
      /\ e.connected = ep[p].connected /\ e.result = ep[p].result
  BY <1>2 DEF Endpoint, SameKnown
<1>7. Local(e)
  BY <1>2, <1>4, <1>6 DEF Local, SameKnown
<1>8. MayBecome(p, e)
  BY <1>2, <1>3, <1>4, <1>5, <1>6, <1>7, CallChanges DEF Done, Local
<1>9. net \subseteq net' /\ \A m \in net' \ net : MaySend(m)
  BY <1>1, <1>2, <1>3, RequestMaySend DEF Local
<1> QED
  BY <1>1, <1>8, <1>9, EndChanges DEF connectSends

LEMMA Receives ==
  ASSUME IInv, NEW p \in Ends, receives(p)
  PROVE  IInv'
<1> DEFINE m == Head(ep[p].stored)
           tail == Tail(ep[p].stored)
           rest == [ep[p] EXCEPT !.stored = tail]
           h == Heard(rest, m)
<1>1. /\ ep[p] \in Endpoint /\ Local(ep[p]) /\ IsFor(p, ep[p].stored)
      /\ ep[p].pc = "wait" /\ ep[p].stored \in Seq(Packet) \ {<<>>}
  BY DEF IInv, TypeOK, receives, Endpoint
<1>2. p \in Callers /\ MayBecome(p, ep[p])
  BY <1>1, CallerIs, OnlyCallers DEF Opened
<1>3. /\ tail \in Seq(Packet) /\ Len(tail) = Len(ep[p].stored) - 1
      /\ 1 \in DOMAIN ep[p].stored /\ m = ep[p].stored[1]
      /\ \A i \in DOMAIN tail : i + 1 \in DOMAIN ep[p].stored /\ tail[i] = ep[p].stored[i + 1]
  BY <1>1
<1>4. m \in net /\ m.to = p
  BY <1>1, <1>3 DEF IInv, TypeOK, IsFor
<1>5. /\ \A i \in DOMAIN tail : tail[i] \in net /\ tail[i].to = p
      /\ Len(tail) <= MaxStored
  BY <1>1, <1>3, HandshakeAssumption DEF IInv, TypeOK, IsFor
<1> HIDE DEF tail, m
<1>6. MayBecome(p, rest) /\ rest.pc = "wait"
  <2>1. /\ rest \in Endpoint /\ rest.stored = tail /\ rest.pc = "wait"
        /\ rest.opened = ep[p].opened /\ rest.connecting = ep[p].connecting
        /\ rest.connected = ep[p].connected /\ rest.isn = ep[p].isn /\ rest.entries = ep[p].entries
        /\ rest.result = ep[p].result /\ rest.reqType = ep[p].reqType
        /\ rest.resType = ep[p].resType /\ rest.resIsn = ep[p].resIsn
    BY <1>1, <1>3 DEF Endpoint
  <2> HIDE DEF rest
  <2>2. Local(rest)
    BY <1>1, <2>1 DEF Local
  <2>3. ~ mode.rendezvous => p = "a" /\ Answered(rest)
    BY <1>2, <2>1 DEF MayBecome, Answered, Done
  <2>4. mode.rendezvous => /\ Met(rest) /\ (Done(rest) => HasHeard(Other(p)))
                           /\ HasHeard(p) => rest.resType # NoType
    BY <1>2, <2>1 DEF MayBecome, Met, Done
  <2> QED
    BY <1>5, <2>1, <2>2, <2>3, <2>4 DEF MayBecome, IsFor
<1> HIDE DEF rest
<1>7. MayBecome(p, h) /\ SameCall(rest, h)
  BY <1>2, <1>4, <1>6, HearingKeeps
<1>8. h \in Endpoint /\ Local(h) /\ h.pc = "wait"
  BY <1>6, <1>7 DEF MayBecome, SameCall
<1>9. CASE Verdict(ep[p], m) = 1 /\ Only(p, h)
  BY <1>2, <1>7, <1>9, CallerIs, EndChanges DEF receives
<1>10. CASE Verdict(ep[p], m) = -1 /\ Only(p, [h EXCEPT !.pc = "check"])
  <2> DEFINE e == [h EXCEPT !.pc = "check"]
  <2> HIDE DEF h
  <2>1. /\ e \in Endpoint /\ e.pc = "check"
        /\ SameKnown(h, e) /\ e.opened = h.opened /\ e.connecting = h.connecting
        /\ e.connected = h.connected /\ e.entries = h.entries /\ e.result = h.result
    BY <1>8 DEF Endpoint, SameKnown
  <2> HIDE DEF e
  <2>2. Local(e)
    BY <1>8, <2>1 DEF Local, SameKnown
  <2>3. MayBecome(p, e)
    BY <1>2, <1>7, <2>1, <2>2, CallChanges DEF Done
  <2> QED
    BY <1>2, <1>10, <2>3, EndChanges DEF receives, e
<1>11. CASE Verdict(ep[p], m) = 0 /\ Only(p, [Unregistered(h) EXCEPT !.pc = "finish"])
  <2> DEFINE u == Unregistered(h)
             e == [u EXCEPT !.pc = "finish"]
  <2>1. Verdict(rest, m) = 0
    BY <1>1, <1>3, <1>11 DEF rest, Endpoint, Verdict, Implied, AskAgain
  <2>2. /\ rest.connecting
        /\ ~ mode.rendezvous => h.resType \in {Response, Refusal}
        /\ mode.rendezvous => h.resType # NoType /\ HasHeard(Other(p))
    BY <1>2, <1>4, <1>6, <2>1, Decides
  <2> HIDE DEF h
  <2>3. /\ u \in Endpoint /\ u.stored = <<>> /\ u.opened = h.opened
        /\ u.connecting /\ u.connected = h.connected
        /\ u.isn = h.isn /\ u.result = h.result /\ u.reqType = h.reqType
        /\ u.resType = h.resType /\ u.resIsn = h.resIsn
    BY <1>7, <1>8, <2>2, Unregistering DEF SameCall
  <2> HIDE DEF u
  <2>4. /\ e \in Endpoint /\ e.pc = "finish" /\ e.stored = <<>> /\ e.opened = h.opened
        /\ e.connecting /\ e.connected = h.connected
        /\ e.isn = h.isn /\ e.result = h.result /\ e.reqType = h.reqType
        /\ e.resType = h.resType /\ e.resIsn = h.resIsn
    BY <2>3 DEF Endpoint
  <2> HIDE DEF e
  <2>5. Local(e)
    BY <1>8, <2>4 DEF Local
  <2>6. ~ mode.rendezvous => p = "a" /\ Answered(e)
    BY <1>7, <1>8, <2>2, <2>4, <2>5 DEF MayBecome, Answered, Local
  <2>7. mode.rendezvous => /\ Met(e) /\ HasHeard(Other(p)) /\ e.resType # NoType
    BY <1>7, <2>2, <2>4 DEF MayBecome, Met
  <2>8. MayBecome(p, e)
    BY <2>4, <2>5, <2>6, <2>7, HandshakeAssumption DEF MayBecome, IsFor
  <2> QED
    BY <1>2, <1>11, <2>8, EndChanges DEF receives, e, u
<1> QED
  BY <1>9, <1>10, <1>11 DEF receives, h, rest, m, tail

LEMMA SeesClosing ==
  ASSUME IInv, NEW p \in Ends, seesClosing(p)
  PROVE  IInv'
<1> DEFINE e == [ep[p] EXCEPT !.pc = "check"]
<1>1. Only(p, e)
  BY DEF seesClosing, Only
<1>2. ep[p] \in Endpoint /\ Local(ep[p]) /\ ep[p].pc = "wait"
  BY DEF IInv, TypeOK, seesClosing
<1>3. p \in Callers /\ MayBecome(p, ep[p])
  BY <1>2, CallerIs, OnlyCallers DEF Opened
<1>4. /\ e \in Endpoint /\ SameKnown(ep[p], e) /\ e.pc = "check"
      /\ e.opened = ep[p].opened /\ e.connecting = ep[p].connecting /\ e.connected = ep[p].connected
      /\ e.entries = ep[p].entries /\ e.result = ep[p].result
  BY <1>2 DEF Endpoint, SameKnown
<1> HIDE DEF e
<1>5. Local(e)
  BY <1>2, <1>4 DEF Local, SameKnown
<1>6. MayBecome(p, e)
  BY <1>2, <1>3, <1>4, <1>5, CallChanges DEF Done, Local
<1> QED
  BY <1>1, <1>3, <1>6, EndChanges DEF seesClosing

LEMMA Finishes ==
  ASSUME IInv, NEW p \in Ends, finishes(p)
  PROVE  IInv'
<1> DEFINE e == [ep[p] EXCEPT !.connecting = FALSE, !.connected = TRUE, !.pc = "check"]
<1>1. Only(p, e)
  BY DEF finishes, Only, Set
<1>2. ep[p] \in Endpoint /\ Local(ep[p]) /\ ep[p].pc = "finish"
  BY DEF IInv, TypeOK, finishes
<1>3. p \in Callers /\ MayBecome(p, ep[p])
  BY <1>2, CallerIs, OnlyCallers DEF Opened
<1>4. /\ e \in Endpoint /\ SameKnown(ep[p], e) /\ ~ e.connecting /\ e.connected /\ e.pc = "check"
      /\ e.opened = ep[p].opened /\ e.entries = ep[p].entries /\ e.result = ep[p].result
  BY <1>2 DEF Endpoint, SameKnown
<1> HIDE DEF e
<1>5. Local(e)
  BY <1>2, <1>4 DEF Local, SameKnown
<1>6. MayBecome(p, e)
  BY <1>2, <1>3, <1>4, <1>5, CallChanges DEF Done, Local
<1> QED
  BY <1>1, <1>3, <1>6, EndChanges DEF finishes

LEMMA TimesOut ==
  ASSUME IInv, NEW p \in Ends, timesOut(p)
  PROVE  IInv'
<1> DEFINE e == [ep[p] EXCEPT !.pc = "idle", !.result = "timeout"]
<1>1. Only(p, e)
  BY DEF timesOut, Only
<1>2. ep[p] \in Endpoint /\ Local(ep[p]) /\ ep[p].pc = "wait"
  BY DEF IInv, TypeOK, timesOut
<1>3. p \in Callers /\ MayBecome(p, ep[p])
  BY <1>2, CallerIs, OnlyCallers DEF Opened
<1>4. /\ e \in Endpoint /\ SameKnown(ep[p], e) /\ e.pc = "idle" /\ e.result = "timeout"
      /\ e.opened = ep[p].opened /\ e.connecting = ep[p].connecting /\ e.connected = ep[p].connected
      /\ e.entries = ep[p].entries
  BY <1>2 DEF Endpoint, SameKnown
<1> HIDE DEF e
<1>5. Local(e)
  BY <1>2, <1>4 DEF Local, SameKnown
<1>6. MayBecome(p, e)
  BY <1>2, <1>3, <1>4, <1>5, CallChanges DEF Done, Local
<1> QED
  BY <1>1, <1>3, <1>6, EndChanges DEF timesOut

LEMMA Returns ==
  ASSUME IInv, NEW p \in Ends, returns(p)
  PROVE  IInv'
<1> DEFINE e == [ep[p] EXCEPT !.pc = "idle", !.result = Outcome(ep[p])]
<1>1. Only(p, e)
  BY DEF returns, Only
<1>2. ep[p] \in Endpoint /\ Local(ep[p]) /\ ep[p].pc = "check"
  BY DEF IInv, TypeOK, returns
<1>3. p \in Callers /\ MayBecome(p, ep[p])
  BY <1>2, CallerIs, OnlyCallers DEF Opened
<1>4. /\ e \in Endpoint /\ SameKnown(ep[p], e) /\ e.pc = "idle" /\ e.result = Outcome(ep[p])
      /\ e.opened = ep[p].opened /\ e.connecting = ep[p].connecting /\ e.connected = ep[p].connected
      /\ e.entries = ep[p].entries
  BY <1>2 DEF Endpoint, SameKnown, Outcome
<1> HIDE DEF e
<1>5. Local(e)
  BY <1>2, <1>4 DEF Local, SameKnown, Outcome
<1>6. MayBecome(p, e)
  BY <1>2, <1>3, <1>4, <1>5, CallChanges DEF Done, SameKnown, Outcome
<1> QED
  BY <1>1, <1>3, <1>6, EndChanges DEF returns

LEMMA CloseBegins ==
  ASSUME IInv, NEW p \in Ends, closeBegins(p)
  PROVE  IInv'
<1> DEFINE e == [ep[p] EXCEPT !.closing = TRUE]
<1>1. Only(p, e)
  BY DEF closeBegins, Only
<1>2. ep[p] \in Endpoint /\ Local(ep[p]) /\ p \in Callers
  BY DEF IInv, TypeOK, closeBegins
<1>3. p \in Callers /\ MayBecome(p, ep[p])
  BY <1>2, CallerIs, OnlyCallers DEF Opened
<1>4. /\ e \in Endpoint /\ SameKnown(ep[p], e) /\ e.closing
      /\ e.opened = ep[p].opened /\ e.connecting = ep[p].connecting /\ e.connected = ep[p].connected
      /\ e.entries = ep[p].entries /\ e.pc = ep[p].pc /\ e.result = ep[p].result
  BY <1>2 DEF Endpoint, SameKnown
<1> HIDE DEF e
<1>5. Local(e)
  BY <1>2, <1>4 DEF Local, SameKnown
<1>6. MayBecome(p, e)
  BY <1>2, <1>3, <1>4, <1>5, CallChanges DEF Done, Local
<1> QED
  BY <1>1, <1>3, <1>6, EndChanges DEF closeBegins

LEMMA Expires ==
  ASSUME IInv, NEW p \in Ends, expires(p)
  PROVE  IInv'
<1> DEFINE e == [ep[p] EXCEPT !.connecting = FALSE]
<1>1. Only(p, e)
  BY DEF expires, Only, Expired
<1>2. ep[p] \in Endpoint /\ Local(ep[p]) /\ ep[p].connecting
  BY DEF IInv, TypeOK, expires
<1>3. p \in Callers /\ MayBecome(p, ep[p])
  BY <1>2, CallerIs, OnlyCallers DEF Opened
<1>4. /\ e \in Endpoint /\ SameKnown(ep[p], e) /\ ~ e.connecting
      /\ e.opened = ep[p].opened /\ e.connected = ep[p].connected /\ e.entries = ep[p].entries
      /\ e.pc = ep[p].pc /\ e.result = ep[p].result
  BY <1>2 DEF Endpoint, SameKnown
<1> HIDE DEF e
<1>5. Local(e)
  BY <1>2, <1>4 DEF Local, SameKnown
<1>6. MayBecome(p, e)
  BY <1>2, <1>3, <1>4, <1>5, CallChanges DEF Done, Local
<1> QED
  BY <1>1, <1>3, <1>6, EndChanges DEF expires

LEMMA TtlPasses ==
  ASSUME IInv, NEW p \in Ends, ttlPasses(p)
  PROVE  IInv'
<1> DEFINE e == [ep[p] EXCEPT !.expired = @ \cup {ep[p].isn}]
<1>1. Only(p, e)
  BY DEF ttlPasses, Only
<1>2. ep[p] \in Endpoint /\ Local(ep[p]) /\ ep[p].isn # 0
  BY DEF IInv, TypeOK, ttlPasses
<1>3. p \in Callers /\ MayBecome(p, ep[p])
  BY <1>2, CallerIs, OnlyCallers DEF Opened
<1>4. /\ e \in Endpoint /\ SameKnown(ep[p], e)
      /\ e.opened = ep[p].opened /\ e.connecting = ep[p].connecting /\ e.connected = ep[p].connected
      /\ e.entries = ep[p].entries /\ e.pc = ep[p].pc /\ e.result = ep[p].result
  BY <1>2 DEF Endpoint, SameKnown, Attempts
<1> HIDE DEF e
<1>5. Local(e)
  BY <1>2, <1>4 DEF Local, SameKnown
<1>6. MayBecome(p, e)
  BY <1>2, <1>3, <1>4, <1>5, CallChanges DEF Done, Local
<1> QED
  BY <1>1, <1>3, <1>6, EndChanges DEF ttlPasses

LEMMA CloseEnds ==
  ASSUME IInv, NEW p \in Ends, closeEnds(p)
  PROVE  IInv'
<1> DEFINE u == IF ep[p].connecting THEN Unregistered(ep[p]) ELSE ep[p]
           e == [u EXCEPT !.connected = FALSE, !.opened = FALSE]
<1>1. Only(p, e)
  BY DEF closeEnds, Only
<1>2. ep[p] \in Endpoint /\ Local(ep[p]) /\ ep[p].closing /\ ep[p].pc = "idle"
  BY DEF IInv, TypeOK, closeEnds
<1>3. p \in Callers /\ MayBecome(p, ep[p])
  BY <1>2, CallerIs, OnlyCallers DEF Opened
<1>4. /\ u \in Endpoint /\ u.entries \subseteq ep[p].entries
      /\ u.isn = ep[p].isn /\ u.reqType = ep[p].reqType /\ u.resType = ep[p].resType
      /\ u.resIsn = ep[p].resIsn /\ u.stored \in {<<>>, ep[p].stored}
      /\ u.connecting = ep[p].connecting /\ u.pc = "idle" /\ u.result = ep[p].result
  BY <1>2, Unregistering
<1> HIDE DEF u
<1>5. /\ e \in Endpoint /\ ~ e.connected /\ ~ e.opened /\ e.entries = u.entries
      /\ e.isn = ep[p].isn /\ e.reqType = ep[p].reqType /\ e.resType = ep[p].resType
      /\ e.resIsn = ep[p].resIsn /\ e.stored \in {<<>>, ep[p].stored}
      /\ e.connecting = ep[p].connecting /\ e.pc = "idle" /\ e.result = ep[p].result
  BY <1>4 DEF Endpoint
<1> HIDE DEF e
<1>6. Local(e)
  BY <1>2, <1>4, <1>5 DEF Local
<1>7. /\ Len(e.stored) <= MaxStored /\ IsFor(p, e.stored)
      /\ \A i \in DOMAIN e.stored : e.stored[i] \in net
  BY <1>3, <1>5, HandshakeAssumption DEF MayBecome, IsFor
<1>8. ~ mode.rendezvous => p = "a" /\ Answered(e)
  BY <1>3, <1>5 DEF MayBecome, Answered, Done
<1>9. mode.rendezvous => /\ Met(e) /\ ~ Done(e) /\ (HasHeard(p) => e.resType # NoType)
  BY <1>3, <1>5 DEF MayBecome, Met, Done
<1>10. MayBecome(p, e)
  BY <1>5, <1>6, <1>7, <1>8, <1>9 DEF MayBecome
<1> QED
  BY <1>1, <1>3, <1>10, EndChanges DEF closeEnds

-----------------------------------------------------------------------------
(* The steps of the worker                                                  *)

\* A packet is stored for the caller.
LEMMA Stores ==
  ASSUME IInv, NEW p \in Callers, NEW m \in net, m.to = p
  PROVE  MayBecome(p, Stored(ep[p], m))
<1> DEFINE more == Append(ep[p].stored, m)
           e == [ep[p] EXCEPT !.stored = more]
<1>1. MayBecome(p, ep[p]) /\ ep[p] \in Endpoint /\ m \in Packet
  BY CallerIs DEF MayBecome, IInv, TypeOK
<1>2. CASE Len(ep[p].stored) >= MaxStored
  BY <1>1, <1>2 DEF Stored
<1>3. CASE Len(ep[p].stored) < MaxStored
  <2>1. ep[p].stored \in Seq(Packet)
    BY <1>1 DEF Endpoint
  <2>2. /\ more \in Seq(Packet) /\ Len(more) = Len(ep[p].stored) + 1
        /\ \A i \in DOMAIN more : more[i] = m \/ (i \in DOMAIN ep[p].stored /\ more[i] = ep[p].stored[i])
    BY <1>1, <2>1
  <2>3. /\ Len(more) <= MaxStored /\ IsFor(p, more) /\ \A i \in DOMAIN more : more[i] \in net
    BY <1>1, <1>3, <2>1, <2>2, HandshakeAssumption DEF MayBecome, IsFor
  <2> HIDE DEF more
  <2>4. /\ e \in Endpoint /\ e.stored = more /\ e.pc = ep[p].pc
        /\ e.opened = ep[p].opened /\ e.connecting = ep[p].connecting
        /\ e.connected = ep[p].connected /\ e.isn = ep[p].isn /\ e.entries = ep[p].entries
        /\ e.result = ep[p].result /\ e.reqType = ep[p].reqType
        /\ e.resType = ep[p].resType /\ e.resIsn = ep[p].resIsn
    BY <1>1, <2>2 DEF Endpoint
  <2>5. Stored(ep[p], m) = e
    BY <1>1, <1>3, <2>1, HandshakeAssumption DEF Stored, more
  <2> HIDE DEF e
  <2>6. Local(e)
    BY <1>1, <2>4 DEF MayBecome, Local
  <2>7. ~ mode.rendezvous => p = "a" /\ Answered(e)
    BY <1>1, <2>4 DEF MayBecome, Answered, Done
  <2>8. mode.rendezvous => /\ Met(e) /\ (Done(e) => HasHeard(Other(p)))
                           /\ HasHeard(p) => e.resType # NoType
    BY <1>1, <2>4 DEF MayBecome, Met, Done
  <2> QED
    BY <2>3, <2>4, <2>5, <2>6, <2>7, <2>8 DEF MayBecome
<1> QED
  BY <1>1, <1>2, <1>3, HandshakeAssumption DEF Endpoint

LEMMA ConnectorStep ==
  ASSUME IInv, NEW p \in Ends, NEW m \in net, connector(p, m)
  PROVE  IInv'
<1> DEFINE h == Heard(ep[p], m)
<1>1. p \in Callers /\ m.to = p /\ MayBecome(p, ep[p]) /\ Local(ep[p])
  BY CallerIs DEF connector, MayBecome
<1>2. CASE mode.sync
  BY <1>1, <1>2, Stores, EndChanges DEF connector
<1>3. CASE ~ mode.sync
  <2>1. ep[p].pc \in {"idle", "send"}
    BY <1>1, <1>3 DEF Local
  <2>2. MayBecome(p, h) /\ SameCall(ep[p], h)
    BY <1>1, <2>1, HearingKeeps
  <2>3. CASE Verdict(ep[p], m) # 0
    BY <1>1, <1>3, <2>2, <2>3, EndChanges DEF connector
  <2>4. CASE Verdict(ep[p], m) = 0
    <3> DEFINE u == Unregistered(h)
               e == [u EXCEPT !.connecting = FALSE, !.connected = TRUE]
    <3>1. /\ ep[p].connecting
          /\ ~ mode.rendezvous => h.resType \in {Response, Refusal}
          /\ mode.rendezvous => h.resType # NoType /\ HasHeard(Other(p))
      BY <1>1, <2>4, Decides
    <3>2. Only(p, e)
      BY <1>3, <2>4 DEF connector, Set, Only
    <3> HIDE DEF h
    <3>3. h \in Endpoint /\ Local(h) /\ h.pc = "idle" /\ h.isn # 0
      BY <1>1, <2>1, <2>2, <3>1 DEF MayBecome, SameCall, Local
    <3>4. /\ u \in Endpoint /\ u.stored = <<>> /\ u.entries \subseteq h.entries
          /\ u.isn = h.isn /\ u.result = h.result /\ u.reqType = h.reqType
          /\ u.resType = h.resType /\ u.resIsn = h.resIsn /\ u.pc = h.pc
      BY <3>3, Unregistering
    <3> HIDE DEF u
    <3>5. /\ e \in Endpoint /\ e.stored = <<>> /\ e.entries = u.entries
          /\ ~ e.connecting /\ e.connected /\ e.pc = "idle"
          /\ e.isn = h.isn /\ e.result = h.result /\ e.reqType = h.reqType
          /\ e.resType = h.resType /\ e.resIsn = h.resIsn
      BY <3>3, <3>4 DEF Endpoint
    <3> HIDE DEF e
    <3>6. Local(e)
      BY <1>3, <3>3, <3>4, <3>5 DEF Local
    <3>7. ~ mode.rendezvous => p = "a" /\ Answered(e)
      BY <1>3, <2>2, <3>1, <3>5 DEF MayBecome, Answered
    <3>8. mode.rendezvous => Met(e) /\ HasHeard(Other(p)) /\ e.resType # NoType
      BY <2>2, <3>1, <3>5 DEF MayBecome, Met
    <3>9. MayBecome(p, e)
      BY <3>5, <3>6, <3>7, <3>8, HandshakeAssumption DEF MayBecome, IsFor
    <3> QED
      BY <1>1, <3>2, <3>9, EndChanges DEF connector
  <2> QED
    BY <2>3, <2>4
<1> QED
  BY <1>2, <1>3

LEMMA Handshakes ==
  ASSUME NEW p \in Ends, NEW id \in {0, 1}, NEW type \in Types,
         NEW isn \in 0 .. MaxTurns, NEW cookie \in 0 .. MaxTurns
  PROVE  LET m == HS(p, id, type, isn, cookie) IN
         /\ m \in Packet
         /\ m.to = p /\ m.kind = "handshake" /\ m.type = type /\ m.isn = isn
BY DEF HS, Packet

LEMMA Resends ==
  ASSUME IInv, NEW p \in Ends, resends(p)
  PROVE  IInv'
<1>1. ep[p].isn # 0
  BY DEF IInv, Local, resends
<1>2. p \in Callers /\ MaySend(Req(p))
  BY <1>1, RequestMaySend DEF resends
<1>3. PICK r : r = Req(p)
  OBVIOUS
<1>4. MaySend(r)'
  BY <1>2, <1>3 DEF resends, MaySend, IsAnswer, IsMeeting, HasHeard
<1> QED
  BY <1>3, <1>4, PacketIsSent DEF resends, IInv, TypeOK

LEMMA ProcessCtrl ==
  ASSUME IInv, NEW p \in Ends, NEW m \in net, processCtrl(p, m)
  PROVE  IInv'
<1>1. ep[p] \in Endpoint /\ mode.rendezvous /\ HasHeard(p) /\ Other(p) \in Ends /\ Other(Other(p)) = p
  BY DEF IInv, TypeOK, Meeting, Met, Done, HasHeard, processCtrl, AnswersPeer, Established, Other, Ends
<1>2. PICK answer : answer = HS(Other(p), 1, Agreement, ep[p].isn, 0)
  OBVIOUS
<1>3. /\ answer \in Packet /\ answer.type = Agreement /\ answer.kind = "handshake" /\ answer.to = Other(p)
      /\ UNCHANGED <<mode, ep, minute, made>> /\ net' = net \cup {answer}
  <2>1. /\ 1 \in {0, 1} /\ Agreement \in Types /\ ep[p].isn \in 0 .. MaxTurns
        /\ 0 \in 0 .. MaxTurns
    BY <1>1, HandshakeAssumption DEF Endpoint, Types
  <2> QED
    BY <1>1, <1>2, <2>1, Handshakes DEF processCtrl
<1>4. MaySend(answer)'
  BY <1>1, <1>3 DEF MaySend, IsMeeting, HasHeard, Packet
<1> QED
  BY <1>3, <1>4, PacketIsSent DEF IInv, TypeOK

LEMMA SendsData ==
  ASSUME IInv, NEW p \in Ends, sendsData(p)
  PROVE  IInv'
<1>1. /\ Other(p) \in Ends /\ Other(Other(p)) = p
      /\ mode.rendezvous => HasHeard(p)
  BY DEF IInv, Meeting, Met, Done, HasHeard, sendsData, Established, Other, Ends
<1>2. PICK d : d = [HS(Other(p), 1, NoType, 0, 0) EXCEPT !.kind = "data"]
  OBVIOUS
<1>3. /\ d \in Packet /\ d.kind = "data" /\ d.to = Other(p)
      /\ UNCHANGED <<mode, ep, minute, made>> /\ net' = net \cup {d}
  BY <1>1, <1>2, HandshakeAssumption DEF HS, Packet, Types, sendsData
<1>4. MaySend(d)'
  BY <1>1, <1>3 DEF MaySend, IsAnswer, IsMeeting, HasHeard, Packet
<1> QED
  BY <1>3, <1>4, PacketIsSent DEF IInv, TypeOK

LEMMA Listens ==
  ASSUME IInv, NEW m \in net, NEW refuses \in BOOLEAN, listens(m, refuses)
  PROVE  IInv'
<1>1. /\ m \in Packet /\ IsAnswer(m) /\ m.kind = "handshake" /\ ~ mode.rendezvous
      /\ UNCHANGED <<mode, ep, minute>> /\ minute \in 0 .. MaxTurns
  BY HandshakeAssumption DEF IInv, TypeOK, Answers, listens
<1>2. m.isn \in Attempts /\ (~ mode.sync => m.isn = 1)
  BY <1>1, HandshakeAssumption DEF IsAnswer, Packet, Attempts
<1>3. CASE net' = net \cup {HS("a", 1, Request, m.isn, minute)} /\ UNCHANGED made
  <2>1. PICK r : r = HS("a", 1, Request, m.isn, minute)
    OBVIOUS
  <2>2. r \in Packet /\ r.type = Request /\ r.isn = m.isn
    <3>1. 1 \in {0, 1} /\ Request \in Types /\ "a" \in Ends /\ m.isn \in 0 .. MaxTurns
      BY <1>1 DEF Packet, Types, Ends
    <3> QED
      BY <1>1, <2>1, <3>1, Handshakes
  <2>3. MaySend(r)'
    BY <1>1, <1>2, <2>1, <2>2, HandshakeAssumption DEF MaySend, IsAnswer, Attempts, Request, Response
  <2> QED
    BY <1>1, <1>3, <2>1, <2>3, PacketIsSent DEF IInv, TypeOK
<1>4. CASE /\ made' = IF refuses THEN made ELSE made \cup {m.isn}
           /\ net' = net \cup {IF refuses THEN [Answer(m) EXCEPT !.type = Refusal] ELSE Answer(m)}
  <2>1. PICK r : r = IF refuses THEN [Answer(m) EXCEPT !.type = Refusal] ELSE Answer(m)
    OBVIOUS
  <2>2. r \in Packet /\ r.type = (IF refuses THEN Refusal ELSE Response) /\ r.isn = m.isn
    BY <1>1, <2>1, HandshakeAssumption DEF Answer, HS, Packet, Types, Ends
  <2>3. made \subseteq made' /\ made' \subseteq Attempts /\ (~ refuses => m.isn \in made')
    BY <1>2, <1>4 DEF IInv, TypeOK
  <2>4. net' = net \cup {r}
    BY <1>4, <2>1
  <2>5. MaySend(r)'
    BY <1>1, <1>2, <2>1, <2>2, <2>3, HandshakeAssumption
       DEF MaySend, IsAnswer, Attempts, Request, Response, Refusal
  <2> QED
    BY <1>1, <2>3, <2>4, <2>5, PacketIsSent
<1> QED
  BY <1>3, <1>4 DEF listens

LEMMA MinutePasses ==
  ASSUME IInv, minutePasses
  PROVE  IInv'
<1>1. minute' \in 1 .. MaxTurns
  BY HandshakeAssumption DEF IInv, TypeOK, Endpoint, Ends, minutePasses
<1> QED
  BY <1>1 DEF IInv, TypeOK, Local, IsFor, Answers, Answered, IsAnswer, Done, minutePasses

LEMMA Stutters ==
  ASSUME IInv, UNCHANGED vars
  PROVE  IInv'
BY DEF IInv, TypeOK, Local, IsFor, Answers, Answered, IsAnswer, Done, Meeting, Met, IsMeeting, HasHeard, vars

-----------------------------------------------------------------------------
(* The theorems                                                             *)

LEMMA Starts == Init => IInv
<1> SUFFICES ASSUME Init PROVE IInv
  OBVIOUS
<1> DEFINE none == <<>>
<1>1. none \in Seq(Packet) /\ Len(none) = 0 /\ DOMAIN none = {}
  OBVIOUS
<1>2. Opened = [opened |-> TRUE, connecting |-> FALSE, connected |-> FALSE, closing |-> FALSE, isn |-> 0,
                reqType |-> NoType, reqCookie |-> 0, resType |-> NoType, resIsn |-> 0, entries |-> {},
                expired |-> {}, stored |-> none, pc |-> "idle", result |-> "none"]
  BY DEF Opened
<1> HIDE DEF none
<1>3. Opened \in Endpoint
  BY <1>1, <1>2, HandshakeAssumption DEF Endpoint, Types
<1>4. TypeOK
  <2>1. mode \in [rendezvous : BOOLEAN, sync : BOOLEAN, ttl : BOOLEAN]
    BY DEF Init
  <2>2. \A p \in Ends : ep[p] = Opened /\ Opened.stored = none
    BY <1>2 DEF Init
  <2>3. ep \in [Ends -> Endpoint]
    BY <1>3 DEF Init
  <2> QED
    BY <1>1, <2>1, <2>2, <2>3, HandshakeAssumption DEF Init, TypeOK
<1>5. \A p \in Ends : Local(ep[p]) /\ IsFor(p, ep[p].stored)
  BY <1>1, <1>2 DEF Init, Local, IsFor
<1>6. Answers
  BY <1>2 DEF Init, Answers, Answered, Done, Ends, NoType, Response
<1>7. Meeting
  BY <1>2 DEF Init, Meeting, Met, Done, NoType, Response
<1> QED
  BY <1>4, <1>5, <1>6, <1>7 DEF IInv

LEMMA Inductive == IInv /\ [Next]_vars => IInv'
<1> SUFFICES ASSUME IInv, [Next]_vars PROVE IInv'
  OBVIOUS
<1>1. ASSUME NEW p \in Ends, Caller(p)
      PROVE  IInv'
  BY <1>1, ConnectBegins, ConnectSends, Receives, Finishes, SeesClosing, TimesOut, Returns,
     CloseBegins, CloseEnds DEF Caller
<1>2. ASSUME NEW p \in Ends, Worker(p)
      PROVE  IInv'
  BY <1>2, ConnectorStep, ProcessCtrl, Resends, Expires, TtlPasses, SendsData DEF Worker
<1>3. ASSUME NEW m \in net, NEW refuses \in {FALSE, Refusing}, listens(m, refuses)
      PROVE  IInv'
  BY <1>3, Listens, HandshakeAssumption
<1>4. CASE minutePasses
  BY <1>4, MinutePasses
<1>5. CASE UNCHANGED vars
  BY <1>5, Stutters
<1> QED
  BY <1>1, <1>2, <1>3, <1>4, <1>5 DEF Next

\* Whatever the network does, every end keeps its type, and one that is connecting is
\* registered at the worker until it is closed or set up.
THEOREM ConnectorsAreRegistered == Spec => []EntriesAgree
<1>1. IInv => EntriesAgree
  BY DEF IInv, Local, EntriesAgree, ConnectingIsRegistered
<1> QED
  BY <1>1, Starts, Inductive, PTL DEF Spec

\* A regular connection that its caller believes in has been made by the listener, for
\* this attempt.
THEOREM ConnectionsAreSecure == Spec => []SecureIsMade
<1>1. IInv => SecureIsMade
  <2> SUFFICES ASSUME IInv, NEW p \in Ends, ~ mode.rendezvous, ep[p].connected,
                      ep[p].resType # Refusal, ep[p].pc = "idle", ep[p].result \in {"ok", "none"}
               PROVE  ep[p].isn \in made
    BY DEF SecureIsMade
  <2>1. p = "a" /\ Answered(ep[p]) /\ Local(ep[p]) /\ ep[p] \in Endpoint
    BY DEF IInv, TypeOK, Answers, Opened, Ends
  <2>2. ep[p].resIsn \in made
    BY <2>1 DEF Answered, Done
  <2>3. CASE mode.sync
    BY <2>1, <2>2, <2>3 DEF Answered, Local
  <2>4. CASE ~ mode.sync
    BY <2>1, <2>2, <2>4 DEF Answered, Local, Done, Response, Refusal, NoType
  <2> QED
    BY <2>3, <2>4
<1> QED
  BY <1>1, Starts, Inductive, PTL DEF Spec

\* In rendezvous mode the peer of a connected end has heard of it, however the packets
\* of the three-way handshake were lost, repeated or reordered.
THEOREM PeersAreReady == Spec => []PeerIsReady
<1>1. IInv => PeerIsReady
  BY DEF IInv, Meeting, Done, HasHeard, PeerIsReady
<1> QED
  BY <1>1, Starts, Inductive, PTL DEF Spec
=============================================================================
