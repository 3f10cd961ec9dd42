---------------------------- MODULE MCDhcpSession ----------------------------
(* Instances of DhcpSession for TLC.  The rejections below are the reply    *)
(* shapes the retry policy treats differently: no reason at all, a reason   *)
(* without text, a wrong password, a cooldown, an old client, the rest.     *)
EXTENDS DhcpSession, SequencesExt, TLC

Rejection(code, len) == [code |-> code, len |-> len, after |-> 0]

(* A reply whose text begins at byte 20. *)
Explained(code, text) ==
    [code |-> code, len |-> 20 + Len(text), after |-> RetryAfterSeconds(text)]

NinetySeconds == <<120, 57, 48, 32, 115>>    \* "x90 s"
NinetyMinutes == <<57, 48, 32, 109>>         \* "90 m"

ShortRejection == {Rejection("none", 4)}

BothRejections ==
    ShortRejection \cup {Explained("UPDATE_CLIENT", NinetySeconds)}

AllRejections ==
    BothRejections \cup
        {Rejection("WRONG_PASS", 5), Rejection("WRONG_PASS", 20),
         Explained("UPDATE_CLIENT", NinetyMinutes), Explained("OTHER", NinetySeconds)}

NonceSymmetry == Permutations(Nonces)

(* Texts of up to five bytes, and long numbers of seconds. *)
Texts ==
    BoundedSeq({NUL, Blank, 48, 49, 56, 115, 120}, 5)
        \cup {<<a, b, c, d, e, f, g, 115>> :
                a, b, c, d, e, f, g \in {48, 49, 57}}
=============================================================================
