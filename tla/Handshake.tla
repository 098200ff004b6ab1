------------------------------- MODULE Handshake -------------------------------
(***************************************************************************)
(* Connection setup (core.cpp): a caller and a listener, or two callers in *)
(* rendezvous mode, over a network that loses, duplicates and reorders.    *)
(* A blocking connect answers the handshakes in the caller's thread from   *)
(* the packets that the receive worker has stored for it, another one in   *)
(* the worker itself; the worker repeats the request of every registered   *)
(* connector and ends one whose time is up (queue.cpp).                    *)
(*                                                                         *)
(* Abstracted: an ISN is the number of the attempt, a cookie the minute it *)
(* is made of, sockets have the same MSS and windows.                      *)
(***************************************************************************)
EXTENDS Integers, Sequences, FiniteSets

CONSTANTS
  MaxTurns,      \* bound: calls of a blocking connect, and minutes, together
  MaxStored,     \* bound: packets kept for a blocking connector (17 in storePkt)
  Refusing,      \* BOOLEAN: may the listener refuse?
  Hasty          \* bound: the ends that may close, and whose time may run out

ASSUME HandshakeAssumption ==
  MaxTurns \in Nat \ {0} /\ MaxStored \in Nat \ {0} /\ Refusing \in BOOLEAN
  /\ Hasty \subseteq {"a", "b"}

VARIABLES
  mode,     \* rendezvous: m_bRendezvous; sync: m_bSynRecving; ttl: time runs out
  ep,       \* the two CUDTs; in regular mode "a" calls and "b" listens
  minute,   \* the listener's clock, from which the cookie is made
  made,     \* the ISNs for which newConnection has made a connection
  net       \* every packet sent so far: any may arrive, again and in any order

vars == <<mode, ep, minute, made, net>>

Ends == {"a", "b"}
Other(p) == IF p = "a" THEN "b" ELSE "a"
Attempts == 1 .. MaxTurns

Callers == IF mode.rendezvous THEN Ends ELSE {"a"}

\* m_iReqType; NoType: nothing has been received.
Request == 1   Rendezvous == 0   Response == -1   Agreement == -2   Refusal == 1002   NoType == 2000
Types == {Request, Rendezvous, Response, Agreement, Refusal, NoType}

\* CHandShake, or a packet of an established connection; id is 0 or that of
\* the socket it is for.
Packet ==
  [to : Ends, kind : {"handshake", "data"}, id : {0, 1}, type : Types,
   isn : 0 .. MaxTurns, cookie : 0 .. MaxTurns]

HS(p, id, type, isn, cookie) ==
  [to |-> p, kind |-> "handshake", id |-> id, type |-> type, isn |-> isn, cookie |-> cookie]

Endpoint ==
  [opened : BOOLEAN, connecting : BOOLEAN, connected : BOOLEAN, closing : BOOLEAN,
   isn : 0 .. MaxTurns, reqType : Types, reqCookie : 0 .. MaxTurns,
   resType : Types, resIsn : 0 .. MaxTurns,
   entries : SUBSET Attempts, expired : SUBSET Attempts,
   stored : Seq(Packet), pc : {"idle", "send", "wait", "finish", "check"},
   result : {"none", "ok", "timeout", "closed", "refused", "insecure"}]

TypeOK ==
  /\ mode \in [rendezvous : BOOLEAN, sync : BOOLEAN, ttl : BOOLEAN]
  /\ ep \in [Ends -> Endpoint]
  /\ \A p \in Ends : Len(ep[p].stored) <= MaxStored /\ \A i \in DOMAIN ep[p].stored : ep[p].stored[i] \in net
  /\ minute \in 1 .. MaxTurns
  /\ made \subseteq Attempts
  /\ net \subseteq Packet

-----------------------------------------------------------------------------
Opened ==
  [opened |-> TRUE, connecting |-> FALSE, connected |-> FALSE, closing |-> FALSE, isn |-> 0,
   reqType |-> NoType, reqCookie |-> 0, resType |-> NoType, resIsn |-> 0, entries |-> {},
   expired |-> {}, stored |-> <<>>, pc |-> "idle", result |-> "none"]

Init ==
  /\ mode \in [rendezvous : BOOLEAN, sync : BOOLEAN, ttl : BOOLEAN]
  /\ ep = [p \in Ends |-> Opened]
  /\ minute = 1 /\ made = {} /\ net = {}

Oldest(ids) == CHOOSE i \in ids : \A j \in ids : i <= j

\* removeConnector: the oldest entry, and all that is stored for the socket.
Unregistered(e) ==
  [e EXCEPT !.entries = IF @ = {} THEN @ ELSE @ \ {Oldest(@)}, !.stored = <<>>]

\* The request as it is sent; m_ConnRes.m_iID is known once the peer has been heard.
Req(p) ==
  LET e == ep[p] IN
    HS(Other(p), IF mode.rendezvous /\ e.resType # NoType THEN 1 ELSE 0,
       e.reqType, e.isn, e.reqCookie)

\* registerConnector
Registered(e, i) == [e EXCEPT !.entries = @ \cup {i}]

Only(p, e) == ep' = [ep EXCEPT ![p] = e]

-----------------------------------------------------------------------------
(* connect(response)                                                        *)

Recorded(e, m) == [e EXCEPT !.resType = m.type, !.resIsn = m.isn]

\* Mutant: what the peer's request says does not matter.
AskAgainOwn(e, m) ==
  IF mode.rendezvous THEN e.reqType = Rendezvous ELSE m.type = Request

\* The peer has not heard of this side, or this side's request says so.
AskAgain(e, m) ==
  IF mode.rendezvous THEN e.reqType = Rendezvous \/ m.type = Rendezvous ELSE m.type = Request

\* The peer is connected already: the response recorded before is used.  (m_iType of
\* an agreement is 0, as if there were none.)
Implied(e, m) ==
  mode.rendezvous /\ m.kind = "data" /\ e.resType \notin {NoType, Agreement}

\* What connect(response) returns before it sets anything up: -1, 1 or 0.
Verdict(e, m) ==
  IF ~ e.connecting THEN -1
  ELSE IF Implied(e, m) THEN 0
  ELSE IF m.kind # "handshake" \/ (mode.rendezvous /\ m.type = Request) THEN -1
  ELSE IF AskAgain(e, m) THEN 1
  ELSE 0

Heard(e, m) ==
  IF ~ e.connecting \/ m.kind # "handshake" THEN e
  ELSE IF Verdict(e, m) = 1
    THEN [Recorded(e, m) EXCEPT !.reqType = Response,
                                !.reqCookie = IF mode.rendezvous THEN @ ELSE m.cookie]
  ELSE Recorded(e, m)

\* POST_CONNECT up to the end
Set(e) == [e EXCEPT !.connecting = FALSE, !.connected = TRUE]

-----------------------------------------------------------------------------
(* connect(serv_addr), which keeps m_ConnectionLock while it blocks         *)

\* CUDTUnited::connect has put the status back to OPENED only after a failure.  After
\* one in rendezvous mode the modelled application does not try again.
MayCall(p) ==
  LET e == ep[p] IN
    /\ e.opened /\ ~ e.closing /\ e.pc = "idle" /\ ~ e.connecting /\ ~ e.connected
    /\ e.isn = 0 \/ (e.result = "timeout" /\ ~ mode.rendezvous)
    /\ e.isn + minute < MaxTurns

connectBegins(p) ==
  /\ p \in Callers /\ MayCall(p)
  /\ LET e == ep[p] IN
       Only(p, [Registered(e, e.isn + 1)
                  EXCEPT !.isn = @ + 1, !.pc = "send", !.result = "none",
                         !.reqType = IF mode.rendezvous THEN Rendezvous ELSE Request])
  /\ UNCHANGED <<mode, minute, made, net>>

connectSends(p) ==
  /\ ep[p].pc = "send"
  /\ net' = net \cup {Req(p)}
  /\ Only(p, [ep[p] EXCEPT !.connecting = TRUE, !.pc = IF mode.sync THEN "wait" ELSE "idle"])
  /\ UNCHANGED <<mode, minute, made>>

\* recvfrom has a packet: its thread runs connect(response).
receives(p) ==
  LET e == ep[p] m == Head(e.stored) rest == [e EXCEPT !.stored = Tail(@)] IN
    /\ e.pc = "wait" /\ ~ e.closing /\ e.stored # <<>>
    /\ \/ Verdict(e, m) = 1  /\ Only(p, Heard(rest, m))
       \/ Verdict(e, m) = -1 /\ Only(p, [Heard(rest, m) EXCEPT !.pc = "check"])
       \/ Verdict(e, m) = 0  /\ Only(p, [Unregistered(Heard(rest, m)) EXCEPT !.pc = "finish"])
    /\ UNCHANGED <<mode, minute, made, net>>

finishes(p) ==
  /\ ep[p].pc = "finish"
  /\ Only(p, [Set(ep[p]) EXCEPT !.pc = "check"])
  /\ UNCHANGED <<mode, minute, made, net>>

\* Mutant: the loop does not look at m_bClosing.
StaysInLoop(p) == FALSE

LeavesLoop(p) == ep[p].closing

seesClosing(p) ==
  /\ ep[p].pc = "wait" /\ LeavesLoop(p)
  /\ Only(p, [ep[p] EXCEPT !.pc = "check"])
  /\ UNCHANGED <<mode, minute, made, net>>

TimeIsUp(p) == ep[p].isn \in ep[p].expired

timesOut(p) ==
  /\ ep[p].pc = "wait" /\ TimeIsUp(p)
  /\ Only(p, [ep[p] EXCEPT !.pc = "idle", !.result = "timeout"])
  /\ UNCHANGED <<mode, minute, made, net>>

\* Mutant: the ISN of the response is not compared.
OutcomeUnchecked(e) ==
  IF e.closing THEN "closed" ELSE IF e.resType = Refusal THEN "refused" ELSE "ok"

\* What connect throws, if anything.
Outcome(e) ==
  IF e.closing THEN "closed"
  ELSE IF e.resType = Refusal THEN "refused"
  ELSE IF ~ mode.rendezvous /\ e.isn # e.resIsn THEN "insecure"
  ELSE "ok"

returns(p) ==
  /\ ep[p].pc = "check"
  /\ Only(p, [ep[p] EXCEPT !.pc = "idle", !.result = Outcome(ep[p])])
  /\ UNCHANGED <<mode, minute, made, net>>

-----------------------------------------------------------------------------
(* The receive worker                                                       *)

\* The socket is in the hash table, and works.
Established(e) == e.connected /\ ~ e.closing

\* storePkt
Stored(e, m) == IF Len(e.stored) >= MaxStored THEN e ELSE [e EXCEPT !.stored = Append(@, m)]

\* A packet for a registered connector.
connector(p, m) ==
  LET e == ep[p] IN
    /\ m \in net /\ m.to = p /\ p \in Callers
    /\ ~ (Established(e) /\ m.id # 0) /\ e.entries # {}
    /\ Only(p, IF mode.sync THEN Stored(e, m)
               ELSE IF Verdict(e, m) = 0 THEN Set(Unregistered(Heard(e, m)))
               ELSE Heard(e, m))
    /\ UNCHANGED <<mode, minute, made, net>>

\* Mutant: an established socket does not answer the handshakes of its peer.
UnansweredPeer(p, m) == FALSE

AnswersPeer(p, m) == mode.rendezvous /\ m.type # Agreement

\* A handshake for an established socket: its peer has not got the last one.
processCtrl(p, m) ==
  /\ m \in net /\ m.to = p /\ p \in Callers /\ Established(ep[p]) /\ m.id # 0
  /\ m.kind = "handshake" /\ AnswersPeer(p, m)
  /\ net' = net \cup {HS(Other(p), 1, Agreement, ep[p].isn, 0)}
  /\ UNCHANGED <<mode, ep, minute, made>>

\* connect(peer, hs): the new connection has the ISN of the caller, and sends it back.
Answer(m) == HS("a", 1, Response, m.isn, 0)

\* CUDT::listen: a request gets the cookie of this minute, and one that returns it
\* a connection.  The other cookie that is tried is never that of the minute before.
listens(m, refuses) ==
  /\ ~ mode.rendezvous /\ m \in net /\ m.to = "b" /\ m.kind = "handshake"
  /\ \/ /\ m.type = Request /\ ~ refuses
        /\ net' = net \cup {HS("a", 1, Request, m.isn, minute)}
        /\ UNCHANGED made
     \/ /\ m.type = Response /\ m.cookie = minute
        /\ refuses => m.isn \notin made
        /\ made' = IF refuses THEN made ELSE made \cup {m.isn}
        /\ net' = net \cup {IF refuses THEN [Answer(m) EXCEPT !.type = Refusal] ELSE Answer(m)}
  /\ UNCHANGED <<mode, ep, minute>>

\* The worker and, if it blocks, the caller repeat the request.
resends(p) ==
  /\ p \in Callers
  /\ ep[p].entries \ ep[p].expired # {} \/ (ep[p].pc = "wait" /\ ~ ep[p].closing)
  /\ net' = net \cup {Req(p)}
  /\ UNCHANGED <<mode, ep, minute, made>>

\* Mutant: the entry is removed, the socket stays as it is.
ExpiredErased(e) == [e EXCEPT !.entries = @ \ e.expired]

Expired(e) == [e EXCEPT !.connecting = FALSE]

\* updateConnStatus: the time of an entry is up.  The entry stays.
expires(p) ==
  /\ ep[p].entries \cap ep[p].expired # {} /\ ep[p].connecting
  /\ Only(p, Expired(ep[p]))
  /\ UNCHANGED <<mode, minute, made, net>>

\* Three seconds, or thirty in rendezvous mode, since the attempt began.
ttlPasses(p) ==
  /\ p \in Hasty /\ mode.ttl /\ ep[p].isn \notin ep[p].expired \cup {0}
  /\ Only(p, [ep[p] EXCEPT !.expired = @ \cup {ep[p].isn}])
  /\ UNCHANGED <<mode, minute, made, net>>

minutePasses ==
  /\ ~ mode.rendezvous /\ ep["a"].isn + minute < MaxTurns
  /\ minute' = minute + 1
  /\ UNCHANGED <<mode, ep, made, net>>

\* An established connection sends a packet.
sendsData(p) ==
  /\ IF mode.rendezvous THEN Established(ep[p]) ELSE p = "b" /\ made # {}
  /\ net' = net \cup {[HS(Other(p), 1, NoType, 0, 0) EXCEPT !.kind = "data"]}
  /\ UNCHANGED <<mode, ep, minute, made>>

-----------------------------------------------------------------------------
(* close.  Assumed: not while the worker is in connect(response), whose call of *)
(* connect_complete would throw.                                                *)

closeBegins(p) ==
  /\ p \in Callers \cap Hasty /\ ep[p].opened /\ ~ ep[p].closing
  /\ Only(p, [ep[p] EXCEPT !.closing = TRUE])
  /\ UNCHANGED <<mode, minute, made, net>>

\* m_ConnectionLock is free.
closeEnds(p) ==
  LET e == ep[p] IN
    /\ e.closing /\ e.opened /\ e.pc = "idle"
    /\ Only(p, [(IF e.connecting THEN Unregistered(e) ELSE e)
                  EXCEPT !.connected = FALSE, !.opened = FALSE])
    /\ UNCHANGED <<mode, minute, made, net>>

Caller(p) ==
  \/ connectBegins(p) \/ connectSends(p) \/ receives(p) \/ finishes(p) \/ seesClosing(p)
  \/ timesOut(p) \/ returns(p) \/ closeBegins(p) \/ closeEnds(p)

Worker(p) ==
  \/ \E m \in net : connector(p, m) \/ processCtrl(p, m)
  \/ resends(p) \/ expires(p) \/ ttlPasses(p) \/ sendsData(p)

Next ==
  \/ \E p \in Ends : Caller(p) \/ Worker(p)
  \/ \E m \in net, refuses \in {FALSE, Refusing} : listens(m, refuses)
  \/ minutePasses

Spec == Init /\ [][Next]_vars

\* What the worker and close do without waiting, and the blocked caller's steps.
Prompt ==
  \E p \in Ends :
    closeEnds(p) \/ resends(p) \/ ttlPasses(p) \/ expires(p) \/ processCtrl(p, Req(Other(p)))

Blocked(p) == connectSends(p) \/ receives(p) \/ finishes(p) \/ seesClosing(p) \/ timesOut(p) \/ returns(p)

\* What a caller repeats arrives in the end, and so does the answer; time passes.
\* Each of the prompt steps is taken only finitely often.
Fairness ==
  /\ WF_vars(Prompt)
  /\ \A p \in Ends :
       /\ WF_vars(Blocked(p))
       /\ SF_vars(connector(p, Req(Other(p))))
       /\ SF_vars(connector(p, HS(p, 1, Agreement, 1, 0)))

FairSpec == Spec /\ Fairness

-----------------------------------------------------------------------------
(* Properties                                                               *)

\* A caller that believes in its connection has one: the listener has made one with
\* the ISN of this attempt, though answers to an earlier attempt may come late.
SecureIsMade ==
  \A p \in Ends :
    (~ mode.rendezvous /\ ep[p].connected /\ ep[p].resType # Refusal
     /\ ep[p].pc = "idle" /\ ep[p].result \in {"ok", "none"}) => ep[p].isn \in made

\* The three-way handshake: who is connected has a peer that has heard of it, so that
\* any packet of an established connection is enough to connect the peer too.
PeerIsReady ==
  mode.rendezvous =>
    \A p \in Ends : ep[p].connected => ep[Other(p)].resType # NoType

\* A connector is registered as long as it is connecting: answers reach it, and its
\* time is limited.
ConnectingIsRegistered ==
  \A p \in Ends : ep[p].connecting /\ ep[p].pc # "finish" /\ ep[p].opened => ep[p].entries # {}

\* A blocking connect returns.
ConnectReturns == \A p \in Hasty : mode.ttl /\ ep[p].pc = "send" ~> ep[p].pc = "idle"

\* close gets the lock that a blocking connect keeps.
CloseReturns == \A p \in Hasty : ep[p].closing ~> ~ ep[p].opened

\* Whatever the peer and the worker do, a call of connect or close comes back.
CallsReturn == ConnectReturns /\ CloseReturns

\* Every field keeps its type, and each connector its entry.
EntriesAgree == TypeOK /\ ConnectingIsRegistered

\* Two peers in rendezvous mode both connect, unless one is closed or time runs out:
\* it is never only one of them.
RendezvousCompletes ==
  mode.rendezvous /\ ~ mode.ttl /\ (\A p \in Ends : ep[p].connecting)
    ~> (\A p \in Ends : ep[p].connected) \/ (\E p \in Ends : ep[p].closing)
=============================================================================
