----------------------------- MODULE UdpExchange -----------------------------
(***************************************************************************)
(* One UDP socket between the DrCOM client and the authentication server,  *)
(* and the two ways the client waits on it (src/drcom/src/keepalive.c):    *)
(*                                                                         *)
(*   drcom_udp_send_recv_expected_with_retries  sends, waits for a         *)
(*       matching datagram, resends the same packet after a timeout at     *)
(*       most RetryCount times, then fails;                                *)
(*   drcom_udp_recv_expected_packet             only waits (the login      *)
(*       body, sent once by dhcp_login).                                   *)
(*                                                                         *)
(* The client has one thread: `xch' is the call it is in.  The network     *)
(* holds a bounded queue of datagrams each way, drops, duplicates and,     *)
(* where Reorders, overtakes; a datagram offered to a full queue is lost.  *)
(*                                                                         *)
(* A datagram is the bytes the client's filters look at.  `echo' is the    *)
(* pair of bytes 2 and 3: the random bytes of a challenge, or the 0x28 /   *)
(* 0x10 marker of a keepalive reply.  `fresh' is a history bit no guard    *)
(* reads: it holds of what was sent for, or in answer to, the request the  *)
(* client last began, and falls when the client begins the next one.       *)
(***************************************************************************)
EXTENDS Integers, Sequences, FiniteSets

CONSTANTS
    Nonces,          \* random ids of challenges, and of the seeds they get
    None,            \* no seed, no session
    CounterModulus,  \* 0xFF: keepalive packets carry the counter modulo this
    RetryCount,      \* DRCOM_UDP_PACKET_RETRY_COUNT, 3
    RequestCap,      \* bound: datagrams in flight towards the server
    ReplyCap,        \* bound: datagrams in flight towards the client
    Reorders,        \* may a datagram overtake another?
    Duplicates       \* may a reply arrive twice?

ASSUME UdpAssumption ==
    /\ None \notin Nonces
    /\ CounterModulus \in 2 .. 255
    /\ RetryCount \in Nat
    /\ RequestCap \in Nat \ {0}
    /\ ReplyCap \in Nat \ {0}
    /\ {Reorders, Duplicates} \subseteq BOOLEAN

VARIABLES
    toServer,        \* requests in flight
    toClient,        \* replies in flight or in the socket buffer
    xch              \* the exchange the client is in, or its result

udpVars == <<toServer, toClient, xch>>

Byte == 0 .. 255
Counters == 0 .. CounterModulus - 1
Codes == {"none", "WRONG_PASS", "UPDATE_CLIENT", "OTHER"}
Echoes == Nonces \cup {"data", "file", "other"}   \* 0x28, 0x10, any other

(* The wire packets.  A login carries the seed its challenge returned, a   *)
(* keepalive and a logout the authentication data of the session.          *)
Kinds == {"challenge", "login", "keepalive1Seed", "keepalive1", "extra",
          "first", "third", "logoutChallenge", "logout",
          "pppoeChallenge", "pppoeLogin"}
Ids == Nonces \cup Counters \cup {None}
IdsOf(kind) ==
    IF kind \in {"challenge", "logoutChallenge"} THEN Nonces
    ELSE IF kind \in {"extra", "first", "third", "pppoeChallenge", "pppoeLogin"}
    THEN Counters
    ELSE Nonces \cup {None}

Requests ==
    {r \in [kind : Kinds, id : Ids, fresh : BOOLEAN] : r.id \in IdsOf(r.kind)}

Datagrams ==
    [from : {"server", "other"}, first : Byte, second : Byte, echo : Echoes,
     sixth : Byte, len : Nat, data : Nonces \cup {None}, code : Codes,
     after : Nat, fresh : BOOLEAN]

(* A datagram whose body matters to nobody. *)
Datagram(from, first, second, echo, sixth, len, fresh) ==
    [from |-> from, first |-> first, second |-> second, echo |-> echo,
     sixth |-> sixth, len |-> len, data |-> None, code |-> "none", after |-> 0,
     fresh |-> fresh]

NoReply == Datagram("other", 0, 0, "other", 0, 0, FALSE)

(* "wait" is a blocked recvfrom; "got" and "failed" are the call's result  *)
(* until the next one begins.  "notice" is dhcp_login's last recvfrom.     *)
Exchanges ==
    {x \in [st : {"idle", "wait", "got", "failed"},
            kind : Kinds \cup {"none", "notice"}, id : Ids,
            sends : 0 .. RetryCount + 1, got : Datagrams] : x.id \in IdsOf(x.kind)}

Idle == [st |-> "idle", kind |-> "none", id |-> None, sends |-> 0, got |-> NoReply]

UdpTypeOK ==
    /\ toServer \in Seq(Requests)
    /\ toClient \in Seq(Datagrams)
    /\ xch \in Exchanges

-----------------------------------------------------------------------------
(* What a call accepts: drcom_packet_matches_expected and                  *)
(* drcom_packet_source_matches.                                            *)

Filter(first, second, echo, sixth, min) ==
    [from |-> {"server"}, first |-> first, second |-> second, echo |-> echo,
     sixth |-> sixth, min |-> min]

(* The expectations each caller passes. *)
ChallengeExpected(id) == Filter({2}, {2}, {id}, Byte, 8)

LoginExpected == Filter({4, 5}, Byte, Echoes, Byte, 1)

Keepalive1Expected(kind) ==
    Filter({7}, Byte, Echoes, Byte, IF kind = "keepalive1Seed" THEN 12 ELSE 1)

Keepalive2Expected(kind, id) ==
    CASE kind = "extra" -> Filter({7}, {id}, Echoes, Byte, 3)
      [] kind = "first" -> Filter({7}, {id}, {"data"}, {2}, 20)
      [] kind = "third" -> Filter({7}, {id}, {"data"}, {4}, 6)

LogoutExpected(kind, id) ==
    IF kind = "logoutChallenge" THEN Filter({2}, {3}, {id}, Byte, 8)
    ELSE Filter({4}, Byte, Echoes, Byte, 1)

(* A bare recvfrom, of the notice packet and in PPPoE mode of the answers  *)
(* to a challenge and a login: anything, from anyone.                      *)
NoticeExpected ==
    [Filter(Byte, Byte, Echoes, Byte, 0) EXCEPT !.from = {"server", "other"}]

Expected(kind, id) ==
    CASE kind = "challenge" -> ChallengeExpected(id)
      [] kind = "login" -> LoginExpected
      [] kind \in {"keepalive1Seed", "keepalive1"} -> Keepalive1Expected(kind)
      [] kind \in {"extra", "first", "third"} -> Keepalive2Expected(kind, id)
      [] kind \in {"logoutChallenge", "logout"} -> LogoutExpected(kind, id)
      [] kind \in {"notice", "pppoeChallenge", "pppoeLogin"} -> NoticeExpected

(* Mutants: a filter that forgets the source, one that forgets the echo,   *)
(* one that forgets the counter of a keepalive reply.                      *)
MatchesAnySource(d, f) ==
    /\ d.first \in f.first
    /\ d.second \in f.second
    /\ d.echo \in f.echo
    /\ d.sixth \in f.sixth
    /\ d.len >= f.min

MatchesAnyEcho(d, f) ==
    /\ d.from \in f.from
    /\ d.first \in f.first
    /\ d.second \in f.second
    /\ d.sixth \in f.sixth
    /\ d.len >= f.min

MatchesAnyCounter(d, f) ==
    /\ d.from \in f.from
    /\ d.first \in f.first
    /\ d.echo \in f.echo
    /\ d.sixth \in f.sixth
    /\ d.len >= f.min

Matches(d, f) ==
    /\ d.from \in f.from
    /\ d.first \in f.first
    /\ d.second \in f.second
    /\ d.echo \in f.echo
    /\ d.sixth \in f.sixth
    /\ d.len >= f.min

(* Sent without a look at sendto's result, and never again. *)
SentOnce == {"login", "pppoeChallenge", "pppoeLogin"}

Resends(kind) == kind \in Kinds \ SentOnce

-----------------------------------------------------------------------------
(* The network. *)

Offer(queue, d, cap) == IF Len(queue) < cap THEN Append(queue, d) ELSE queue

Arrivals(queue) == {i \in DOMAIN queue : Reorders \/ i = 1}

Without(queue, i) == SubSeq(queue, 1, i - 1) \o SubSeq(queue, i + 1, Len(queue))

Aged(queue) == [i \in DOMAIN queue |-> [queue[i] EXCEPT !.fresh = FALSE]]

LoseRequest ==
    /\ \E i \in DOMAIN toServer : toServer' = Without(toServer, i)
    /\ UNCHANGED <<toClient, xch>>

LoseReply ==
    /\ \E i \in DOMAIN toClient : toClient' = Without(toClient, i)
    /\ UNCHANGED <<toServer, xch>>

DuplicateReply ==
    /\ Duplicates
    /\ toClient # <<>>
    /\ Len(toClient) < ReplyCap
    /\ toClient' = <<Head(toClient)>> \o toClient
    /\ UNCHANGED <<toServer, xch>>

-----------------------------------------------------------------------------
(* The client's calls. *)

(* sendto, then the first recvfrom.  When sendto fails the call returns at *)
(* once, unless it does not look and waits all the same.                   *)
Begin(kind, id) ==
    LET request == [kind |-> kind, id |-> id, fresh |-> TRUE]
        call(st) == [Idle EXCEPT !.st = st, !.kind = kind, !.id = id, !.sends = 1]
    IN  /\ toClient' = Aged(toClient)
        /\ \/ /\ toServer' = Offer(Aged(toServer), request, RequestCap)
              /\ xch' = call("wait")
           \/ /\ toServer' = Aged(toServer)
              /\ xch' = call(IF kind \in SentOnce THEN "wait" ELSE "failed")

(* The bare recvfrom after an accepted login: nothing is sent. *)
Listen(kind) ==
    /\ xch' = [Idle EXCEPT !.st = "wait", !.kind = kind]
    /\ UNCHANGED <<toServer, toClient>>

ReceiveExpected ==
    /\ xch.st = "wait"
    /\ \E i \in Arrivals(toClient) :
         /\ Matches(toClient[i], Expected(xch.kind, xch.id))
         /\ xch' = [xch EXCEPT !.st = "got", !.got = toClient[i]]
         /\ toClient' = Without(toClient, i)
    /\ UNCHANGED toServer

IgnoreUnexpected ==
    /\ xch.st = "wait"
    /\ \E i \in Arrivals(toClient) :
         /\ ~ Matches(toClient[i], Expected(xch.kind, xch.id))
         /\ toClient' = Without(toClient, i)
    /\ UNCHANGED <<toServer, xch>>

(* Mutant: a resend that is not counted. *)
UncountedTimeout ==
    /\ xch.st = "wait"
    /\ UNCHANGED toClient
    /\ LET again == [kind |-> xch.kind, id |-> xch.id, fresh |-> TRUE]
       IN  \/ /\ Resends(xch.kind)
              /\ toServer' = Offer(toServer, again, RequestCap)
              /\ UNCHANGED xch
           \/ /\ ~ Resends(xch.kind)
              /\ xch' = [xch EXCEPT !.st = "failed"]
              /\ UNCHANGED toServer

(* recvfrom returned -1: no datagram for three seconds, or a signal. *)
Timeout ==
    /\ xch.st = "wait"
    /\ UNCHANGED toClient
    /\ LET again == [kind |-> xch.kind, id |-> xch.id, fresh |-> TRUE]
           more == Resends(xch.kind) /\ xch.sends <= RetryCount
       IN  \/ /\ more
              /\ toServer' = Offer(toServer, again, RequestCap)
              /\ xch' = [xch EXCEPT !.sends = @ + 1]
           \/ /\ more              \* this sendto fails
              /\ xch' = [xch EXCEPT !.st = "failed", !.sends = @ + 1]
              /\ UNCHANGED toServer
           \/ /\ ~ more
              /\ xch' = [xch EXCEPT !.st = "failed"]
              /\ UNCHANGED toServer

Wait == ReceiveExpected \/ IgnoreUnexpected \/ Timeout

Network == LoseRequest \/ LoseReply \/ DuplicateReply

-----------------------------------------------------------------------------
(* How long a call still has to wait, in timeouts and an answer, and more  *)
(* than any call has: what the sessions measure their way out with.        *)
WaitLeft == IF xch.st = "wait" THEN RetryCount + 2 - xch.sends ELSE 0

LongestWait == RetryCount + 3
=============================================================================
