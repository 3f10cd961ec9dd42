---------------------------- MODULE MCConfigParse ----------------------------
(* Command lines and files for ConfigParse: every kind of value, good and   *)
(* bad, every key a profile sets, the options the file overrides, keys of   *)
(* the other mode, and files of up to FileLength lines in any order.        *)
EXTENDS ConfigParse, SequencesExt, TLC

CONSTANT FileLength    \* bound: lines in a file

AllTexts == {"", "1", "0", "FALSE", "tRUE", "maybe", "60", "1801", "a name of 24 characters",
             "6800", "0000", "20", "b025aa851014", "10.0.0.1", "0.0.0.0",
             "jlu-modern", "generic", "jlu", "dhcp", "pppoe", "other", "a", "b"}

Lengths == [t \in AllTexts |-> CASE t = "a name of 24 characters" -> 24
                                 [] t = "" -> 0 [] OTHER -> 10]

LowerCase ==
    [t \in AllTexts |-> CASE t = "FALSE" -> "false" [] t = "tRUE" -> "true" [] OTHER -> t]

Hex(digits, value) == [digits |-> digits, value |-> value]

HexDigitsOf ==
    [t \in AllTexts |-> CASE t = "20" -> Hex(2, "20")
                          [] t \in {"6800", "0000"} -> Hex(4, t)
                          [] t = "b025aa851014" -> Hex(12, t)
                          [] OTHER -> Hex(1, "")]

Numbers == ("0" :> 0) @@ ("1" :> 1) @@ ("60" :> 60) @@ ("1801" :> 1801)

SomeAddresses == {"10.0.0.1", "0.0.0.0"}

Profile(auth, jlu, delay) ==
    [AUTH_VERSION |-> auth, KEEP_ALIVE_VERSION |-> "dc02", jlu_mode |-> jlu,
     ror_version |-> jlu, startup_delay_seconds |-> delay]

AllProfiles ==
    ("jlu-modern" :> Profile("6a00", 1, 60)) @@ ("jlu-legacy" :> Profile("6800", 1, 60))
        @@ ("generic" :> Profile("2c00", 0, 0))

Option(name, arg) == [name |-> name, arg |-> arg]
Dhcp == Option("mode", "dhcp")
Pppoe == Option("mode", "pppoe")
File == Option("conf", "a")

SomeArgvs ==
    {<<>>, <<File>>, <<Dhcp>>, <<Dhcp, File>>, <<Pppoe, File>>,
     <<Dhcp, Pppoe, File, Option("802.1x", "")>>, <<Option("help", "")>>,
     <<Dhcp, Option("conf", "b")>>, <<Option("mode", "other"), File>>,
     <<Dhcp, Option("unknown", ""), File>>,
     <<Dhcp, File, Option("bind_ip", "a name of 24 characters")>>,
     <<Dhcp, File, Option("eternal", ""), Option("bind_ip", "10.0.0.1"),
       Option("log", "a"), Option("log", "b")>>}

Pair(key, text) == [kind |-> "pair", key |-> key, text |-> text]
Comment == [kind |-> "skip", key |-> "", text |-> ""]
Junk == [kind |-> "junk", key |-> "", text |-> ""]

SomeLines ==
    {Comment, Junk, Pair("nonsense", "1"), Pair("SECONDARY_DNS", "maybe"),
     Pair("profile", "jlu-modern"), Pair("profile", "generic"),
     Pair("profile", "jlu"), Pair("profile", ""),
     Pair("profile", "a name of 24 characters"),
     Pair("AUTH_VERSION", "0000"), Pair("KEEP_ALIVE_VERSION", "6800"),
     Pair("jlu_mode", "FALSE"), Pair("jlu_mode", "tRUE"), Pair("ror_version", "maybe"),
     Pair("startup_delay_seconds", "0"), Pair("startup_delay_seconds", "1801"),
     Pair("mac", "b025aa851014"), Pair("server", "10.0.0.1"), Pair("server", "other"),
     Pair("pppoe_flag", "20"), Pair("bind_ip", "0.0.0.0"), Pair("bind_ip", ""),
     Pair("log", ""), Pair("eternal", "0")}

SomeDisks == {"a" :> lines : lines \in BoundedSeq(SomeLines, FileLength)}
=============================================================================
