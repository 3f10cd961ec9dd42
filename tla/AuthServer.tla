----------------------------- MODULE AuthServer ------------------------------
(***************************************************************************)
(* The campus authentication server, which is not part of the repository:  *)
(* what the client's code needs it to be.  It answers each request that    *)
(* reaches it, may refuse a login for any reason it likes, and may end a   *)
(* session at any time.  One account, so at most one session: `session' is *)
(* the seed of the login that opened it.                                   *)
(***************************************************************************)
EXTENDS UdpExchange

CONSTANTS
    Rejections,   \* the 0x05 replies: [code, len, after] records
    Strays        \* do datagrams from other hosts reach the socket?

ASSUME ServerAssumption ==
    /\ Rejections \subseteq [code : Codes, len : Nat, after : Nat]
    /\ Strays \in BOOLEAN

VARIABLE session

ServerReply(r, first, second, echo, sixth, len) ==
    Datagram("server", first, second, echo, sixth, len, r.fresh)

WithData(reply, data) == [reply EXCEPT !.data = data]

WithReason(reply, why) ==
    [reply EXCEPT !.code = why.code, !.after = why.after]

Accepted(r) == WithData(ServerReply(r, 4, 0, "other", 0, 39), r.id)

ShortAccept(r) == ServerReply(r, 4, 0, "other", 0, 38)

Rejected(r, why) ==
    WithReason(ServerReply(r, 5, 0, "other", 0, why.len), why)

(* Replies to every request but a login.  The keepalive_1 reply is the one *)
(* that comes closest to passing for the answer to keepalive_2's extra     *)
(* packet; the answer to that packet may be one the client refuses, and so *)
(* may those to the packets of PPPoE mode.                                 *)
Answers(r) ==
    CASE r.kind = "challenge" ->
            {WithData(ServerReply(r, 2, 2, r.id, 0, 8), r.id)}
      [] r.kind = "logoutChallenge" ->
            {WithData(ServerReply(r, 2, 3, r.id, 0, 8), r.id)}
      [] r.kind = "logout" -> {ServerReply(r, 4, 0, "other", 0, 1)}
      [] r.kind = "keepalive1Seed" -> {ServerReply(r, 7, 1, "file", 0, 12)}
      [] r.kind = "keepalive1" -> {ServerReply(r, 7, 0, "file", 0, 12)}
      [] r.kind = "extra" ->
            {ServerReply(r, 7, r.id, e, 6, 40) : e \in {"file", "other"}}
      [] r.kind = "first" -> {ServerReply(r, 7, r.id, "data", 2, 40)}
      [] r.kind = "third" -> {ServerReply(r, 7, r.id, "data", 4, 40)}
      [] r.kind \in {"pppoeChallenge", "pppoeLogin"} ->
            {ServerReply(r, code, r.id, "file", 0, 32) : code \in {7, 0}}
      [] OTHER -> {}

Deliver(reply) == toClient' = Offer(toClient, reply, ReplyCap)

HandleLogin(r) ==
    /\ r.kind = "login"
    /\ \/ Deliver(Accepted(r)) /\ session' = r.id
       \/ Deliver(ShortAccept(r)) /\ UNCHANGED session
       \/ /\ \E why \in Rejections : Deliver(Rejected(r, why))
          /\ UNCHANGED session

HandleOther(r) ==
    /\ r.kind # "login"
    /\ \E reply \in Answers(r) : Deliver(reply)
    /\ session' = IF r.kind = "logout" /\ r.id = session THEN None ELSE session

ServerHandles ==
    /\ \E i \in Arrivals(toServer) :
         /\ toServer' = Without(toServer, i)
         /\ HandleLogin(toServer[i]) \/ HandleOther(toServer[i])
    /\ UNCHANGED xch

(* The server forces the account offline, or forgets it. *)
ServerEndsSession ==
    /\ session # None
    /\ session' = None
    /\ UNCHANGED udpVars

(* Another host sends what looks like an accepted login. *)
Stray ==
    /\ Strays
    /\ Len(toClient) < ReplyCap
    /\ Deliver(Datagram("other", 4, 0, "other", 0, 39, FALSE))
    /\ UNCHANGED <<toServer, xch, session>>

ServerNext == ServerHandles \/ ServerEndsSession
=============================================================================
