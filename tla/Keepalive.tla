------------------------------ MODULE Keepalive ------------------------------
(***************************************************************************)
(* keepalive_1() and keepalive_2() of src/drcom/src/keepalive.c: the       *)
(* sequence of exchanges that keeps an accepted session alive.  The caller *)
(* (dogcom in auth.c) begins each of the two and reads its result; between *)
(* the exchanges of one call the steps below run on their own.             *)
(***************************************************************************)
EXTENDS UdpExchange, RetryPolicy

CONSTANT Keepalive1Mod    \* drcom_config.keepalive1_mod

ASSUME KeepaliveAssumption == Keepalive1Mod \in BOOLEAN

VARIABLE counter          \* *keepalive_counter, modulo 0xFF as it is sent

KeepaliveKinds == {"keepalive1Seed", "keepalive1", "extra", "first", "third"}

(* Result of the exchange a call of the given kind just made. *)
Answered(kind) == xch.st = "got" /\ xch.kind = kind

-----------------------------------------------------------------------------
(* keepalive_1: with keepalive1_mod a short 07 01 08 packet first asks for *)
(* the seed the 0xff packet is built from.                                 *)
BeginKeepalive1(auth) ==
    /\ Begin(IF Keepalive1Mod THEN "keepalive1Seed" ELSE "keepalive1", auth)
    /\ UNCHANGED counter

Keepalive1Second ==
    /\ Answered("keepalive1Seed")
    /\ Begin("keepalive1", xch.id)
    /\ UNCHANGED counter

(* Mutant: the counter is not advanced. *)
SendKeepalive2Again(kind) ==
    /\ Begin(kind, counter)
    /\ UNCHANGED counter

(* Every keepalive_2 packet takes the counter's value and advances it, and *)
(* keeps the advance whether or not the packet is answered.                *)
SendKeepalive2(kind) ==
    /\ Begin(kind, counter)
    /\ counter' = (counter + 1) % CounterModulus

BeginKeepalive2(extra) ==
    SendKeepalive2(IF extra = "NONE" THEN "first" ELSE "extra")

GoodExtraReply == xch.got.echo \in {"data", "file"}

ExtraAnswered ==
    /\ Answered("extra")
    /\ GoodExtraReply
    /\ SendKeepalive2("first")

FirstAnswered ==
    /\ Answered("first")
    /\ SendKeepalive2("third")

KeepaliveStep == Keepalive1Second \/ ExtraAnswered \/ FirstAnswered

Keepalive1Done == Answered("keepalive1")
Keepalive2Done == Answered("third")

KeepaliveFailed ==
    \/ xch.st = "failed" /\ xch.kind \in KeepaliveKinds
    \/ Answered("extra") /\ ~ GoodExtraReply
=============================================================================
