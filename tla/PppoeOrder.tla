----------------------------- MODULE PppoeOrder ------------------------------
(***************************************************************************)
(* The inductive invariants behind TypeOK and FreshRoundReplies of         *)
(* PppoeSession.  They are proved in PppoeSessionProofs.                   *)
(*                                                                         *)
(* Nothing in PPPoE mode counts the failed rounds, and keepalive_counter   *)
(* is never reset: what bounds the age of a keepalive answer that is still *)
(* on its way is the way itself.  A round begins only after the answers to *)
(* a challenge and to a login, and to take an answer is to take one        *)
(* datagram of the server out of the pipe.  So each packet number a        *)
(* keepalive takes has been paid for by one place every older datagram     *)
(* moved ahead.                                                            *)
(***************************************************************************)
EXTENDS PppoeSession, ExchangeOrder

(* A pppoe_challenge has been let through by the count of failed ones.     *)
TriesLeft == pc \notin Exited => tries < TryTimes

(* The DHCP login is never sent, so the server's session never opens.      *)
NoDhcpLogin == \A i \in Asked : toServer[i].kind # "login"

(* Where in the loop the client waits, and on what. *)
CallOfPlace ==
    /\ pc \in {"start", "loop", "pause", "nap"} => xch.st = "idle"
    /\ pc = "challenge" => xch.kind = "pppoeChallenge"
    /\ pc = "login" => xch.kind \in {"pppoeLogin", "notice"}
    /\ pc = "round" => xch.kind \in {"extra", "first", "third"}
    /\ xch.st = "wait" => pc \in {"challenge", "login", "round"}

TypeInv == TypeOK /\ TriesLeft /\ NoDhcpLogin /\ CallOfPlace

-----------------------------------------------------------------------------
Places == RequestCap + ReplyCap

QueuesFit == Len(toServer) <= RequestCap /\ Len(toClient) <= ReplyCap

StraysAreNoAnswers ==
    \A i \in 1 .. Len(toClient) : toClient[i].from # "server" => toClient[i].first # 7

(* The datagrams of the server among the first i of a queue; how many      *)
(* there are in the socket up to the i-th, and in all.                     *)
Upto(queue, i) == {j \in 1 .. Len(queue) : queue[j].from = "server" /\ j <= i}
Ahead(i) == Cardinality(Upto(toClient, i))
Replies == Ahead(Len(toClient))

(* Each `first' packet and each answer to one is at most as many packets   *)
(* behind the counter as it has moved ahead of the n-th place.             *)
Paid(n) ==
    /\ \A i \in Asked :
          toServer[i].kind = "first" => Behind(toServer[i].id, n - (Replies + i))
    /\ \A i \in 1 .. Len(toClient) :
          AnswersFirst(toClient[i]) => Behind(toClient[i].second, n - Ahead(i))

(* The answers taken and not yet spent on a keepalive packet.              *)
Earned ==
    CASE pc = "challenge" -> IF Heard("pppoeChallenge") THEN 1 ELSE 0
      [] pc = "login" -> IF xch.kind = "notice" \/ Heard("pppoeLogin") THEN 2 ELSE 1
      [] pc = "round" -> IF xch.kind = "extra" \/ Answered("first") THEN 1 ELSE 0
      [] OTHER -> 0

Due == Places + 1 - Earned

CounterIsNext ==
    pc = "round" /\ xch.kind = "first" => counter = (xch.id + 1) % CounterModulus

RoundInv ==
    /\ PipeInv(Beats)
    /\ QueuesFit /\ StraysAreNoAnswers
    /\ Paid(Due)
    /\ CounterIsNext
=============================================================================
