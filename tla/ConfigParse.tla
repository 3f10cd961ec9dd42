----------------------------- MODULE ConfigParse -----------------------------
(***************************************************************************)
(* How drcom comes by its configuration: the options of main()             *)
(* (src/drcom/src/main.c), then the lines of the file (configparse.c),     *)
(* then what the profile fills in (retry_policy.c), and the address to     *)
(* bind.  It ends in the call of dogcom(5), or in an early exit.  The      *)
(* 802.1X login before that (EapLogin) succeeds or fails here as it likes; *)
(* the daemon's forks (-d) are left out.                                   *)
(*                                                                         *)
(* A text of the command line or of the file is one name; what the parser  *)
(* finds in it is given by the constants.  A line is what one fgets of 256 *)
(* bytes returns, trimmed, split at its first `=' and without the quotes   *)
(* around the value.                                                       *)
(***************************************************************************)
EXTENDS Integers, Sequences

CONSTANTS
    Texts,       \* the values that occur
    LengthOf,    \* their lengths
    LowerOf,     \* the same in lower case
    HexOf,       \* the hex digits of each: how many, and what they read
    NumberOf,    \* what strtol reads, where it reads all of the text
    Addresses,   \* the texts that are IPv4 addresses
    Profiles,    \* drcom_profile_defaults_for_name: what each profile sets
    Argvs,       \* the command lines
    Disks        \* the configuration files there may be, by path

OptionFields == {"mode", "conf", "bind_ip", "log", "eternal"}
OptionNames == OptionFields \cup {"daemon", "802.1x", "verbose", "help", "unknown"}

ASSUME ConfigAssumption ==
    /\ Argvs \subseteq Seq([name : OptionNames, arg : Texts])
    /\ \A d \in Disks :
        /\ "" \notin DOMAIN d
        /\ \A path \in DOMAIN d :
            d[path] \in Seq([kind : {"skip", "junk", "pair"}, key : STRING, text : Texts])
    /\ LengthOf \in [Texts -> Nat]
    /\ LowerOf \in [Texts -> STRING]
    /\ HexOf \in [Texts -> [digits : Nat, value : STRING]]
    /\ "" \notin DOMAIN Profiles

Modes == {"dhcp", "pppoe"}

(* How a value is parsed: read_d_config and read_p_config. *)
DhcpKinds == [
    profile |-> "string", server |-> "address", username |-> "string",
    password |-> "string", CONTROLCHECKSTATUS |-> "byte", ADAPTERNUM |-> "byte",
    host_ip |-> "address", IPDOG |-> "byte", host_name |-> "string",
    PRIMARY_DNS |-> "address", SECONDARY_DNS |-> "ignored",
    dhcp_server |-> "address", AUTH_VERSION |-> "version", mac |-> "mac",
    host_os |-> "string", KEEP_ALIVE_VERSION |-> "version",
    ror_version |-> "flag", keepalive1_mod |-> "flag", jlu_mode |-> "flag",
    startup_delay_seconds |-> "delay", bind_ip |-> "address", log |-> "path",
    eternal |-> "flag"]

PppoeKinds ==
    [server |-> "string", pppoe_flag |-> "byte", keep_alive2_flag |-> "byte"]

KindsIn(mode) == IF mode = "dhcp" THEN DhcpKinds ELSE PppoeKinds

(* The arrays of struct config. *)
SizeOf(key) == IF key = "username" THEN 36 ELSE 20

HexDigits == [byte |-> 2, version |-> 4, mac |-> 12]
LongestDelay == 1800
TrueTexts == {"1"} \cup {t \in Texts : LowerOf[t] = "true"}
FalseTexts == {"0"} \cup {t \in Texts : LowerOf[t] = "false"}

Accepts(kind, key, text) ==
    CASE kind = "string" -> LengthOf[text] < SizeOf(key)
      [] kind = "address" -> text \in Addresses /\ LengthOf[text] < SizeOf(key)
      [] kind \in DOMAIN HexDigits -> HexOf[text].digits = HexDigits[kind]
      [] kind = "flag" -> text \in TrueTexts \cup FalseTexts
      [] kind = "delay" ->
            text \in DOMAIN NumberOf /\ NumberOf[text] \in 0 .. LongestDelay
      [] OTHER -> TRUE

ValueOf(kind, text) ==
    CASE kind \in DOMAIN HexDigits -> HexOf[text].value
      [] kind = "flag" -> (IF text \in TrueTexts THEN 1 ELSE 0)
      [] kind = "delay" -> NumberOf[text]
      [] OTHER -> text

-----------------------------------------------------------------------------
(* What is configured. *)
ProfileKeys == {"AUTH_VERSION", "KEEP_ALIVE_VERSION", "jlu_mode", "ror_version",
                "startup_delay_seconds"}

Fields ==
    OptionFields \cup DOMAIN PppoeKinds \cup (DOMAIN DhcpKinds \ {"SECONDARY_DNS"})

Zero(field) ==
    IF field \in {"pppoe_flag", "keep_alive2_flag"} THEN "00"
    ELSE IF field \notin DOMAIN DhcpKinds THEN ""
    ELSE CASE DhcpKinds[field] = "byte" -> "00"
           [] DhcpKinds[field] = "version" -> "0000"
           [] DhcpKinds[field] = "mac" -> "000000000000"
           [] DhcpKinds[field] \in {"flag", "delay"} -> 0
           [] OTHER -> ""

AnyAddress == "0.0.0.0"

VARIABLES
    argv,      \* the options, each with its argument
    disk,      \* the lines of the configuration files
    phase,
    at,        \* the option or line read next
    setting,   \* drcom_config and the globals beside it
    explicit   \* config_explicit: what was written although a profile sets it

Phases ==
    {"options", "open", "lines", "defaults", "bind", "running", "exit0", "exit1"}

vars == <<argv, disk, phase, at, setting, explicit>>

Asked(option) == \E i \in DOMAIN argv : argv[i].name = option

(* The lines of the file chosen. *)
Lines == IF setting["conf"] \in DOMAIN disk THEN disk[setting["conf"]] ELSE <<>>

Init ==
    /\ argv \in Argvs /\ disk \in Disks
    /\ phase = "options" /\ at = 1
    /\ setting = [f \in Fields |-> Zero(f)]
    /\ explicit = {}

-----------------------------------------------------------------------------
(* The options. *)

OptionGood(o) ==
    CASE o.name = "mode" -> o.arg \in Modes
      [] o.name = "bind_ip" -> LengthOf[o.arg] < 20
      [] o.name \in {"conf", "log"} -> o.arg # ""
      [] OTHER -> o.name # "unknown"

OptionValue(o) == IF o.name = "eternal" THEN 1 ELSE o.arg

ReadOption ==
    /\ phase = "options" /\ at <= Len(argv)
    /\ OptionGood(argv[at]) /\ argv[at].name # "help"
    /\ setting' = IF argv[at].name \in OptionFields
                  THEN [setting EXCEPT ![argv[at].name] = OptionValue(argv[at])]
                  ELSE setting
    /\ at' = at + 1
    /\ UNCHANGED <<argv, disk, phase, explicit>>

PrintHelp ==
    /\ phase = "options" /\ at <= Len(argv) /\ argv[at].name = "help"
    /\ phase' = "exit0"
    /\ UNCHANGED <<argv, disk, at, setting, explicit>>

BadOption ==
    /\ phase = "options" /\ at <= Len(argv) /\ ~ OptionGood(argv[at])
    /\ phase' = "exit1"
    /\ UNCHANGED <<argv, disk, at, setting, explicit>>

OptionsRead ==
    /\ phase = "options" /\ at > Len(argv)
    /\ phase' = IF setting["mode"] = "" \/ setting["conf"] = "" THEN "exit1"
                ELSE "open"
    /\ UNCHANGED <<argv, disk, at, setting, explicit>>

-----------------------------------------------------------------------------
(* The file. *)

OpenFile ==
    /\ phase = "open"
    /\ phase' = IF setting["conf"] \in DOMAIN disk THEN "lines" ELSE "exit1"
    /\ at' = 1
    /\ UNCHANGED <<argv, disk, setting, explicit>>

LineGood(mode, line) ==
    \/ line.kind = "skip"
    \/ /\ line.kind = "pair"
       /\ line.key \in DOMAIN KindsIn(mode)
       /\ Accepts(KindsIn(mode)[line.key], line.key, line.text)

Writes(line, field) == line.kind = "pair" /\ line.key = field

LineValue(mode, line) == ValueOf(KindsIn(mode)[line.key], line.text)

ReadLine ==
    LET line == Lines[at] IN
    /\ phase = "lines" /\ at <= Len(Lines)
    /\ LineGood(setting["mode"], line)
    /\ setting' = IF line.kind = "pair" /\ line.key \in Fields
                  THEN [setting EXCEPT ![line.key] = LineValue(setting["mode"], line)]
                  ELSE setting
    /\ explicit' = explicit \cup {k \in ProfileKeys : Writes(line, k)}
    /\ at' = at + 1
    /\ UNCHANGED <<argv, disk, phase>>

(* Mutant: a line that is not understood is passed over. *)
PassOver ==
    /\ phase = "lines" /\ at <= Len(Lines)
    /\ ~ LineGood(setting["mode"], Lines[at])
    /\ at' = at + 1
    /\ UNCHANGED <<argv, disk, phase, setting, explicit>>

BadLine ==
    /\ phase = "lines" /\ at <= Len(Lines)
    /\ ~ LineGood(setting["mode"], Lines[at])
    /\ phase' = "exit1"
    /\ UNCHANGED <<argv, disk, at, setting, explicit>>

EndOfFile ==
    /\ phase = "lines" /\ at > Len(Lines)
    /\ phase' = "defaults"
    /\ UNCHANGED <<argv, disk, at, setting, explicit>>

-----------------------------------------------------------------------------
(* What was not written. *)

(* Mutant: a value of zero counts as not written. *)
FillZeroes ==
    /\ phase = "defaults" /\ setting["profile"] \in DOMAIN Profiles
    /\ setting' = [f \in Fields |->
                    IF f \in ProfileKeys /\ setting[f] = Zero(f)
                    THEN Profiles[setting["profile"]][f] ELSE setting[f]]
    /\ phase' = "bind"
    /\ UNCHANGED <<argv, disk, at, explicit>>

(* apply_profile_defaults *)
FillFromProfile ==
    /\ phase = "defaults" /\ setting["profile"] \in DOMAIN Profiles
    /\ setting' = [f \in Fields |->
                    IF f \in ProfileKeys \ explicit
                    THEN Profiles[setting["profile"]][f] ELSE setting[f]]
    /\ phase' = "bind"
    /\ UNCHANGED <<argv, disk, at, explicit>>

NoProfile ==
    /\ phase = "defaults" /\ setting["profile"] \notin DOMAIN Profiles
    /\ phase' = IF setting["profile"] = "" THEN "bind" ELSE "exit1"
    /\ UNCHANGED <<argv, disk, at, setting, explicit>>

(* With -x the 802.1X login comes first. *)
EapFails ==
    /\ phase = "bind" /\ Asked("802.1x")
    /\ phase' = "exit1"
    /\ UNCHANGED <<argv, disk, at, setting, explicit>>

Run ==
    /\ phase = "bind"
    /\ setting' = [setting EXCEPT !["bind_ip"] = IF @ = "" THEN AnyAddress ELSE @]
    /\ phase' = "running"
    /\ UNCHANGED <<argv, disk, at, explicit>>

Next ==
    \/ ReadOption \/ PrintHelp \/ BadOption \/ OptionsRead
    \/ OpenFile \/ ReadLine \/ BadLine \/ EndOfFile
    \/ FillFromProfile \/ NoProfile \/ EapFails \/ Run

Spec == Init /\ [][Next]_vars

-----------------------------------------------------------------------------
(* What the configuration should be, from the command line and the file    *)
(* as a whole.                                                             *)

(* v is what the last of the first n options that names the field says. *)
FromOptions(field, n, v) ==
    LET asks == {i \in 1 .. n : argv[i].name = field}
    IN  \/ asks = {} /\ v = Zero(field)
        \/ \E i \in asks : v = OptionValue(argv[i]) /\ \A j \in asks : j <= i

Writers(field, n) == {i \in 1 .. n : Writes(Lines[i], field)}

(* v is what the last of the first n lines that has the field says, and    *)
(* what the options say if none has.                                       *)
FromFile(field, n, v) ==
    \/ Writers(field, n) = {} /\ FromOptions(field, Len(argv), v)
    \/ \E i \in Writers(field, n) :
            v = LineValue(setting["mode"], Lines[i]) /\ \A j \in Writers(field, n) : j <= i

Final(field, v) ==
    IF field \in ProfileKeys /\ Writers(field, Len(Lines)) = {}
            /\ setting["profile"] # ""
    THEN v = Profiles[setting["profile"]][field]
    ELSE \/ FromFile(field, Len(Lines), v)
         \/ field = "bind_ip" /\ FromFile(field, Len(Lines), "") /\ v = AnyAddress

(* What the client runs with is what the file says last, over what the     *)
(* options say last; a profile sets its five fields wherever the file does *)
(* not, whichever of the two comes first in it and whatever value was      *)
(* written, zero included (configparse.c:289).                             *)
SettingsAsWritten ==
    phase = "running" => \A f \in Fields : Final(f, setting[f])

(* Nothing is wrong with what was read. *)
Sound ==
    /\ \A i \in DOMAIN argv : OptionGood(argv[i])
    /\ setting["mode"] \in Modes /\ setting["conf"] \in DOMAIN disk
    /\ \A i \in DOMAIN Lines : LineGood(setting["mode"], Lines[i])
    /\ setting["profile"] \in DOMAIN Profiles \cup {""}

(* The client starts only from a command line and a file it understood to  *)
(* the last line, and refuses to start only for a reason: one of theirs,   *)
(* or a failed 802.1X login (configparse.c:343, main.c:214).               *)
StartsIfSound ==
    /\ phase = "running" => Sound
    /\ phase = "exit1" => ~ Sound \/ Asked("802.1x")
=============================================================================
