------------------------------ MODULE DhcpOrder ------------------------------
(***************************************************************************)
(* The inductive invariants behind AuthMatchesLogin, CleanLogoutReleases   *)
(* and FreshRoundReplies of DhcpSession, for a network that keeps the      *)
(* datagrams in order: what may still be on its way at each place of the   *)
(* loop.  They are proved in DhcpSessionProofs.                            *)
(***************************************************************************)
EXTENDS DhcpSession, ExchangeOrder

Holds(kinds, firsts) ==
    /\ \A i \in Asked : toServer[i].kind \in kinds
    /\ \A i \in Said : toClient[i].first \in firsts

NoLogin == \A i \in Asked : toServer[i].kind # "login"

Accepts(d) == d.first = 4 /\ d.len >= 39

(* While a login is out, it is the only one, and what accepts it says so.  *)
LoginIsAlone ==
    pc = "attempt" /\ xch.kind = "login" =>
        /\ seed = xch.id
        /\ Holds({"challenge", "login"}, {2, 4, 5})
        /\ \A i \in Asked : toServer[i].kind = "login" => toServer[i].id = xch.id
        /\ \A i, j \in Asked :
              toServer[i].kind = "login" /\ toServer[j].kind = "login" => i = j

AcceptedOnce(d) ==
    Accepts(d) => d.data = xch.id /\ NoLogin /\ session \in {None, xch.id}

AcceptsAreOurs ==
    pc = "attempt" /\ xch.kind = "login" =>
        /\ \A i \in Said : AcceptedOnce(toClient[i])
        /\ xch.st = "got" => AcceptedOnce(xch.got)

(* From then on the server has this session or none. *)
Noticing == pc = "attempt" /\ xch.kind = "notice"

SessionIsOurs ==
    InSession \/ Noticing => auth = seed /\ session \in {None, auth} /\ NoLogin

NoticeFollowsLogin == Noticing => Holds({"challenge"}, {2, 4, 5})

(* The answer to a logout is said of a session that is gone. *)
LogoutIsAnswered ==
    pc = "logout" /\ xch.kind = "logout" =>
        /\ xch.id = auth
        /\ Holds({"logoutChallenge", "logout"}, {2, 4})
        /\ \A i \in Asked : toServer[i].kind = "logout" => toServer[i].id = auth
        /\ \A i \in Said : toClient[i].first = 4 => session = None
        /\ xch.st = "got" => session = None

QuietAtLoop == pc \in {"start", "loop"} => xch.st = "idle"

(* What holds of the loop, given the order of the pipe. *)
LoopInv ==
    /\ LoginIsAlone /\ AcceptsAreOurs
    /\ SessionIsOurs /\ NoticeFollowsLogin
    /\ LogoutIsAnswered /\ CleanLogoutReleases
    /\ QuietAtLoop

OrderInv == PipeInv(Challenges) /\ LoopInv

-----------------------------------------------------------------------------
(* Each failed round used at most two packets that are not cleared away.   *)
Lag ==
    IF xch.kind \in {"keepalive1Seed", "keepalive1"} THEN 2 * failures
    ELSE IF xch.kind = "extra" THEN 2 * failures + 1
    ELSE 2 * failures + 2

WindowKept ==
    /\ pc = "nap" => Window(0)
    /\ pc = "top" => Window(2 * failures)
    /\ pc = "round" => Window(Lag)

RoundCounts ==
    pc = "round" =>
        /\ xch.kind \in KeepaliveKinds
        /\ xch.kind = "first" => counter = (xch.id + 1) % CounterModulus

RoundInv ==
    /\ PipeInv(Beats)
    /\ WindowKept
    /\ RoundCounts
=============================================================================
