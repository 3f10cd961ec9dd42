---------------------------- MODULE ExchangeOrder ----------------------------
(***************************************************************************)
(* Why an answer that names its request is no answer to an older one.  The *)
(* filters of keepalive.c let through much that is old; but on a network   *)
(* that keeps the datagrams in order the two queues are one pipe, and when *)
(* an answer to the last request comes out, nothing older is left in it.   *)
(* The invariants of UdpExchange, Keepalive and AuthServer together; see   *)
(* ExchangeProofs.                                                         *)
(***************************************************************************)
EXTENDS Keepalive, AuthServer

Asked == 1 .. Len(toServer)
Said == {i \in 1 .. Len(toClient) : toClient[i].from = "server"}

(* What is fresh is behind what is not. *)
Fifo ==
    /\ \A i, j \in Asked : i < j /\ toServer[i].fresh => toServer[j].fresh
    /\ \A i, j \in Said : i < j /\ toClient[i].fresh => toClient[j].fresh
    /\ \A i \in Said, j \in Asked : toClient[i].fresh => toServer[j].fresh

AllFresh ==
    /\ \A i \in Asked : toServer[i].fresh
    /\ \A i \in Said : toClient[i].fresh

(* The exchanges whose filter names the request: by the random bytes of a  *)
(* challenge, by the counter and the step of a keepalive.                  *)
Challenges == {"challenge", "logoutChallenge"}
Beats == {"first", "third"}
Named == Challenges \cup Beats

Ours(r) == r.kind = xch.kind /\ r.id = xch.id
Fitting(d) == Matches(d, Expected(xch.kind, xch.id))

(* In such an exchange the request on its way and the answer that fits are *)
(* the fresh ones, and the answer received leaves only fresh ones.         *)
Distinct(kinds) ==
    xch.st \in {"wait", "got"} /\ xch.kind \in kinds =>
        /\ \A i \in Asked : toServer[i].fresh <=> Ours(toServer[i])
        /\ \A i \in Said : toClient[i].fresh <=> Fitting(toClient[i])

Cleared(kinds) ==
    xch.st = "got" /\ xch.kind \in kinds =>
        xch.got.fresh /\ Fitting(xch.got) /\ AllFresh

(* A challenge returns its random bytes as the seed. *)
SeedIsEcho(d) == d.from = "server" /\ d.first = 2 => d.data = d.echo

SeedsAreEchoes ==
    /\ \A i \in 1 .. Len(toClient) : SeedIsEcho(toClient[i])
    /\ SeedIsEcho(xch.got)

(* The order kept, for some of the named exchanges. *)
PipeInv(kinds) == Fifo /\ Distinct(kinds) /\ Cleared(kinds) /\ SeedsAreEchoes

(* Nothing on its way looks like the exchange begun next. *)
NothingLike(kind, id) ==
    /\ \A i \in Asked : ~ (toServer[i].kind = kind /\ toServer[i].id = id)
    /\ \A i \in Said : ~ Matches(toClient[i], Expected(kind, id))

-----------------------------------------------------------------------------
(* The counter.  x is up to n packets behind it. *)
Behind(x, n) == \E k \in 1 .. n : (x + k) % CounterModulus = counter

AnswersFirst(d) == d.from = "server" /\ d.first = 7 /\ d.sixth = 2

(* The `first' packets on their way, and the answers to them, are no older *)
(* than n packets. *)
Window(n) ==
    /\ \A i \in Asked : toServer[i].kind = "first" => Behind(toServer[i].id, n)
    /\ \A i \in 1 .. Len(toClient) :
          AnswersFirst(toClient[i]) => Behind(toClient[i].second, n)
=============================================================================
