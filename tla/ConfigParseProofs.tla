-------------------------- MODULE ConfigParseProofs --------------------------
(***************************************************************************)
(* For command lines and files of any length: what the client runs with is *)
(* what was written last, and it starts only from what it understood.  The *)
(* invariant is that of two loops: what has been read so far says what the *)
(* settings are now.                                                       *)
(***************************************************************************)
EXTENDS ConfigParse, TLAPS

OptionRecords == [name : OptionNames, arg : Texts]
LineRecords == [kind : {"skip", "junk", "pair"}, key : STRING, text : Texts]

Inputs ==
    /\ argv \in Argvs /\ disk \in Disks
    /\ setting = [f \in Fields |-> setting[f]]
    /\ phase \in Phases

(* What the first n options say is how things stand. *)
OptionsRight(n) ==
    /\ \A i \in 1 .. n : OptionGood(argv[i])
    /\ \A f \in Fields : FromOptions(f, n, setting[f])

Chosen ==
    /\ \A i \in DOMAIN argv : OptionGood(argv[i])
    /\ setting["mode"] \in Modes
    /\ setting["conf"] # ""

(* What all the options and the first n lines say is how things stand.     *)
FileRight(n) ==
    /\ \A i \in 1 .. n : LineGood(setting["mode"], Lines[i])
    /\ \A f \in Fields : FromFile(f, n, setting[f])
    /\ explicit = {k \in ProfileKeys : Writers(k, n) # {}}

Filled(f, v) ==
    IF f \in ProfileKeys /\ Writers(f, Len(Lines)) = {} /\ setting["profile"] # ""
    THEN v = Profiles[setting["profile"]][f]
    ELSE FromFile(f, Len(Lines), v)

ConfigInv ==
    /\ Inputs
    /\ phase = "options" =>
        at \in 1 .. Len(argv) + 1 /\ OptionsRight(at - 1) /\ explicit = {}
    /\ phase = "open" => Chosen /\ OptionsRight(Len(argv)) /\ explicit = {}
    /\ phase \in {"lines", "defaults"} => Chosen /\ setting["conf"] \in DOMAIN disk
    /\ phase = "lines" => at \in 1 .. Len(Lines) + 1 /\ FileRight(at - 1)
    /\ phase = "defaults" => FileRight(Len(Lines))
    /\ phase = "bind" => Sound /\ \A f \in Fields : Filled(f, setting[f])
    /\ SettingsAsWritten
    /\ StartsIfSound

LEMMA SequenceTypes ==
    ASSUME NEW S, NEW s \in Seq(S)
    PROVE  Len(s) \in Nat /\ DOMAIN s = 1 .. Len(s)
OBVIOUS

LEMMA ElementType ==
    ASSUME NEW S, NEW s \in Seq(S), NEW i \in 1 .. Len(s)
    PROVE  s[i] \in S
OBVIOUS

LEMMA InputTypes ==
    ASSUME Inputs
    PROVE  /\ argv \in Seq(OptionRecords) /\ Len(argv) \in Nat
           /\ DOMAIN argv = 1 .. Len(argv)
           /\ Lines \in Seq(LineRecords) /\ Len(Lines) \in Nat
           /\ DOMAIN Lines = 1 .. Len(Lines)
           /\ "" \notin DOMAIN disk
<1>1. argv \in Seq(OptionRecords)
  BY ConfigAssumption DEF Inputs, OptionRecords
<1>2. /\ "" \notin DOMAIN disk
      /\ \A path \in DOMAIN disk : disk[path] \in Seq(LineRecords)
  BY ConfigAssumption DEF Inputs, LineRecords
<1>3. Lines \in Seq(LineRecords)
  <2>1. << >> \in Seq(LineRecords)
    OBVIOUS
  <2> QED
    BY <1>2, <2>1, Zenon DEF Lines
<1> QED
  BY <1>1, <1>2, <1>3, SequenceTypes

(* The fields that anything names are fields. *)
LEMMA FieldNames ==
    /\ OptionFields \subseteq Fields /\ ProfileKeys \subseteq Fields
    /\ {"mode", "conf", "profile", "bind_ip"} \subseteq Fields
    /\ {"mode", "conf"} \cap (DOMAIN DhcpKinds \cup DOMAIN PppoeKinds) = {}
    /\ {"mode", "conf", "profile", "bind_ip"} \cap ProfileKeys = {}
    /\ OptionNames \cap Fields \subseteq OptionFields
BY DEF Fields, OptionFields, OptionNames, ProfileKeys, DhcpKinds, PppoeKinds

(* One option more. *)
LEMMA OptionsGrow ==
    ASSUME NEW n \in Nat, NEW f, NEW v, FromOptions(f, n, v)
    PROVE  /\ argv[n + 1].name # f => FromOptions(f, n + 1, v)
           /\ argv[n + 1].name = f => FromOptions(f, n + 1, OptionValue(argv[n + 1]))
<1> DEFINE asks(m) == {i \in 1 .. m : argv[i].name = f}
<1>1. argv[n + 1].name # f => asks(n + 1) = asks(n)
  OBVIOUS
<1>2. argv[n + 1].name = f =>
        n + 1 \in asks(n + 1) /\ \A j \in asks(n + 1) : j <= n + 1
  OBVIOUS
<1> QED
  BY <1>1, <1>2 DEF FromOptions

(* One line more. *)
LEMMA LinesGrow ==
    ASSUME NEW n \in Nat, NEW f, NEW v, FromFile(f, n, v)
    PROVE  /\ ~ Writes(Lines[n + 1], f) => FromFile(f, n + 1, v)
           /\ Writes(Lines[n + 1], f) =>
                FromFile(f, n + 1, LineValue(setting["mode"], Lines[n + 1]))
           /\ ~ Writes(Lines[n + 1], f) => Writers(f, n + 1) = Writers(f, n)
           /\ Writes(Lines[n + 1], f) => Writers(f, n + 1) # {}
<1>1. ~ Writes(Lines[n + 1], f) => Writers(f, n + 1) = Writers(f, n)
  BY DEF Writers
<1>2. Writes(Lines[n + 1], f) =>
        n + 1 \in Writers(f, n + 1) /\ \A j \in Writers(f, n + 1) : j <= n + 1
  BY DEF Writers
<1> QED
  BY <1>1, <1>2 DEF FromFile

-----------------------------------------------------------------------------
(* The loop over the options. *)

LEMMA InitHolds == Init => ConfigInv
<1> SUFFICES ASSUME Init PROVE ConfigInv
  OBVIOUS
<1>1. Inputs
  BY DEF Init, Inputs, Phases
<1>2. Len(argv) \in Nat /\ at = 1
  BY <1>1, InputTypes DEF Init
<1>3. OptionsRight(0)
  BY DEF Init, OptionsRight, FromOptions
<1> QED
  BY <1>1, <1>2, <1>3 DEF Init, ConfigInv, SettingsAsWritten, StartsIfSound

LEMMA ReadOptionKeeps ==
    ASSUME ConfigInv, ReadOption
    PROVE  ConfigInv'
<1> DEFINE o == argv[at]
<1>0. Inputs /\ Len(argv) \in Nat
  BY InputTypes DEF ConfigInv
<1>1. /\ Inputs /\ OptionsRight(at - 1) /\ explicit = {}
      /\ phase = "options" /\ phase' = "options" /\ explicit' = {}
      /\ argv' = argv /\ disk' = disk /\ at' = at + 1
      /\ at \in 1 .. Len(argv) /\ Len(argv) \in Nat
      /\ OptionGood(o)
  BY <1>0 DEF ConfigInv, ReadOption
<1>2. Inputs'
  <2>1. setting' = [f \in Fields |-> setting'[f]]
    BY <1>1 DEF ReadOption, Inputs
  <2> QED
    BY <1>1, <2>1 DEF Inputs
<1>3. ASSUME NEW f \in Fields
      PROVE  setting'[f] = IF o.name = f /\ f \in OptionFields THEN OptionValue(o)
                           ELSE setting[f]
  BY <1>1, <1>3, FieldNames DEF ReadOption, Inputs
<1>4. \A f \in Fields : o.name = f => f \in OptionFields
  <2>1. o.name \in OptionNames
    <3>1. o \in OptionRecords
      BY <1>1, InputTypes, ElementType
    <3> QED
      BY <3>1 DEF OptionRecords
  <2> QED
    BY <2>1, FieldNames
<1>5. \A f \in Fields : FromOptions(f, at, setting'[f])
  <2> SUFFICES ASSUME NEW f \in Fields PROVE FromOptions(f, at, setting'[f])
    OBVIOUS
  <2>1. FromOptions(f, at - 1, setting[f])
    BY <1>1 DEF OptionsRight
  <2>2. at - 1 \in Nat /\ (at - 1) + 1 = at
    BY <1>1
  <2> QED
    BY <1>3, <1>4, <2>1, <2>2, OptionsGrow
<1>6. OptionsRight(at - 1)'
  BY <1>1, <1>5 DEF OptionsRight, FromOptions
<1> QED
  BY <1>1, <1>2, <1>6 DEF ConfigInv, SettingsAsWritten, StartsIfSound

LEMMA OptionsEnd ==
    ASSUME ConfigInv, PrintHelp \/ BadOption \/ OptionsRead
    PROVE  ConfigInv'
<1>0. /\ Inputs /\ Len(argv) \in Nat /\ DOMAIN argv = 1 .. Len(argv)
      /\ "" \notin DOMAIN disk
  BY InputTypes DEF ConfigInv
<1>1. /\ argv' = argv /\ disk' = disk /\ setting' = setting /\ at' = at
      /\ explicit' = explicit /\ Lines' = Lines
  BY DEF PrintHelp, BadOption, OptionsRead, Lines
<1>2. phase = "options" /\ phase' \in {"exit0", "exit1", "open"}
  BY DEF PrintHelp, BadOption, OptionsRead
<1>3. Inputs'
  BY <1>0, <1>1, <1>2 DEF Inputs, Phases
<1>4. OptionsRight(at - 1) /\ explicit = {}
  BY <1>2 DEF ConfigInv
<1>8. /\ at \in 1 .. Len(argv) + 1 /\ Len(argv) \in Nat
      /\ DOMAIN argv = 1 .. Len(argv)
  BY <1>0, <1>2 DEF ConfigInv
<1>5. CASE phase' = "exit0"
  BY <1>3, <1>5 DEF ConfigInv, SettingsAsWritten, StartsIfSound
<1>6. CASE phase' = "exit1"
  <2>1. ~ Sound
    <3>1. CASE BadOption
      <4>1. at \in DOMAIN argv /\ ~ OptionGood(argv[at])
        BY <1>8, <3>1 DEF BadOption
      <4> QED
        BY <4>1, Zenon DEF Sound
    <3>2. CASE OptionsRead
      <4>1. setting["mode"] = "" \/ setting["conf"] = ""
        BY <1>6, <3>2 DEF OptionsRead
      <4> QED
        BY <1>0, <4>1 DEF Sound, Modes
    <3> QED
      BY <1>6, <3>1, <3>2 DEF PrintHelp
  <2>2. ~ Sound'
    BY <1>1, <2>1 DEF Sound
  <2> QED
    BY <1>3, <1>6, <2>2 DEF ConfigInv, SettingsAsWritten, StartsIfSound
<1>7. CASE phase' = "open"
  <2>1. at - 1 = Len(argv) /\ setting["mode"] # "" /\ setting["conf"] # ""
    <3>1. OptionsRead
      BY <1>7 DEF PrintHelp, BadOption
    <3>2. at > Len(argv)
      BY <3>1 DEF OptionsRead
    <3>3. setting["mode"] # "" /\ setting["conf"] # ""
      BY <1>7, <3>1 DEF OptionsRead
    <3> QED
      <4>1. at - 1 = Len(argv)
        BY <1>8, <3>2
      <4> QED
        BY <3>3, <4>1
  <2>2. OptionsRight(Len(argv))
    BY <1>4, <2>1
  <2>3. setting["mode"] \in Modes
    <3>1. FromOptions("mode", Len(argv), setting["mode"])
      BY <2>2, FieldNames DEF OptionsRight
    <3>2. PICK i \in 1 .. Len(argv) :
            argv[i].name = "mode" /\ setting["mode"] = OptionValue(argv[i])
      BY <2>1, <3>1 DEF FromOptions, Zero, DhcpKinds
    <3>3. OptionGood(argv[i])
      BY <2>2, <3>2 DEF OptionsRight
    <3> QED
      BY <3>2, <3>3 DEF OptionGood, OptionValue
  <2>4. Chosen
    BY <1>0, <2>1, <2>2, <2>3 DEF Chosen, OptionsRight
  <2>5. (Chosen /\ OptionsRight(Len(argv)) /\ explicit = {})'
    <3>1. Chosen'
      BY <1>1, <2>4 DEF Chosen
    <3>2. OptionsRight(Len(argv))'
      BY <1>1, <2>2 DEF OptionsRight, FromOptions
    <3> QED
      BY <1>1, <1>4, <3>1, <3>2
  <2> QED
    BY <1>3, <1>7, <2>5 DEF ConfigInv, SettingsAsWritten, StartsIfSound
<1> QED
  BY <1>2, <1>5, <1>6, <1>7

-----------------------------------------------------------------------------
(* The loop over the lines. *)

LEMMA OpenKeeps ==
    ASSUME ConfigInv, OpenFile
    PROVE  ConfigInv'
<1>0. Inputs /\ Len(Lines) \in Nat /\ Len(argv) \in Nat
  BY InputTypes DEF ConfigInv
<1>1. /\ argv' = argv /\ disk' = disk /\ setting' = setting /\ at' = 1
      /\ explicit' = explicit /\ Lines' = Lines
  BY DEF OpenFile, Lines
<1>2. Chosen /\ OptionsRight(Len(argv)) /\ explicit = {}
  BY DEF ConfigInv, OpenFile
<1>3. Inputs'
  BY <1>0, <1>1 DEF Inputs, Phases, OpenFile
<1>4. CASE setting["conf"] \in DOMAIN disk
  <2>1. FileRight(0)
    <3>1. \A f : Writers(f, 0) = {}
      BY DEF Writers
    <3> QED
      BY <1>2, <3>1 DEF FileRight, FromFile, OptionsRight
  <2>2. FileRight(0)'
    BY <1>1, <2>1 DEF FileRight, FromFile, FromOptions, Writers
  <2>3. Chosen' /\ phase' = "lines" /\ (setting["conf"] \in DOMAIN disk)'
    BY <1>1, <1>2, <1>4 DEF Chosen, OpenFile
  <2>4. (at \in 1 .. Len(Lines) + 1 /\ FileRight(at - 1))'
    BY <1>0, <1>1, <2>2
  <2> QED
    BY <1>3, <2>3, <2>4 DEF ConfigInv, SettingsAsWritten, StartsIfSound
<1>5. CASE setting["conf"] \notin DOMAIN disk
  <2>1. phase' = "exit1" /\ ~ Sound'
    BY <1>1, <1>5 DEF OpenFile, Sound
  <2> QED
    BY <1>3, <2>1 DEF ConfigInv, SettingsAsWritten, StartsIfSound
<1> QED
  BY <1>4, <1>5

LEMMA ReadLineKeeps ==
    ASSUME ConfigInv, ReadLine
    PROVE  ConfigInv'
<1> DEFINE line == Lines[at]
<1> DEFINE mode == setting["mode"]
<1>0. /\ Inputs /\ Len(Lines) \in Nat /\ Len(argv) \in Nat
      /\ Lines \in Seq(LineRecords)
  BY InputTypes DEF ConfigInv
<1>1. /\ argv' = argv /\ disk' = disk /\ at' = at + 1
      /\ phase = "lines" /\ phase' = "lines"
      /\ at \in 1 .. Len(Lines)
      /\ LineGood(mode, line)
  BY <1>0 DEF ConfigInv, ReadLine
<1>2. FileRight(at - 1) /\ Chosen /\ setting["conf"] \in DOMAIN disk
  BY <1>1 DEF ConfigInv
<1>3. ASSUME NEW f \in Fields
      PROVE  setting'[f] = IF Writes(line, f) THEN LineValue(mode, line) ELSE setting[f]
  BY <1>0, <1>3 DEF ReadLine, Inputs, Writes
<1>4. setting'["mode"] = mode /\ setting'["conf"] = setting["conf"]
  <2>1. \A f \in {"mode", "conf"} : ~ Writes(line, f)
    BY <1>1, FieldNames DEF LineGood, Writes, KindsIn
  <2> QED
    BY <1>3, <2>1, FieldNames
<1>5. Lines' = Lines
  BY <1>1, <1>4 DEF Lines
<1>6. Inputs'
  <2>1. setting' = [f \in Fields |-> setting'[f]]
    BY <1>0 DEF ReadLine, Inputs
  <2> QED
    BY <1>0, <1>1, <2>1 DEF Inputs
<1>7. at - 1 \in Nat /\ (at - 1) + 1 = at
  BY <1>1
<1>8. \A f \in Fields : FromFile(f, at, setting'[f])
  <2> SUFFICES ASSUME NEW f \in Fields PROVE FromFile(f, at, setting'[f])
    OBVIOUS
  <2>1. FromFile(f, at - 1, setting[f])
    BY <1>2 DEF FileRight
  <2> QED
    BY <1>3, <1>7, <2>1, LinesGrow
<1>9. \A f \in Fields :
        Writers(f, at) # {} <=> Writers(f, at - 1) # {} \/ Writes(line, f)
  BY <1>1, <1>7 DEF Writers
<1>10. explicit' = {k \in ProfileKeys : Writers(k, at) # {}}
  BY <1>2, <1>9, FieldNames DEF ReadLine, FileRight
<1>11. \A i \in 1 .. at : LineGood(mode, Lines[i])
  BY <1>1, <1>2 DEF FileRight
<1>12. (at \in 1 .. Len(Lines) + 1 /\ FileRight(at - 1))'
  <2>1. (at - 1)' = at
    BY <1>1
  <2>2. (at \in 1 .. Len(Lines) + 1)'
    BY <1>0, <1>1, <1>5
  <2>3. (\A f \in Fields : FromFile(f, at - 1, setting[f]))'
    BY <1>1, <1>4, <1>5, <1>8, <2>1 DEF FromFile, FromOptions, Writers
  <2>4. (explicit = {k \in ProfileKeys : Writers(k, at - 1) # {}})'
    BY <1>5, <1>10, <2>1 DEF Writers
  <2>5. (\A i \in 1 .. at - 1 : LineGood(setting["mode"], Lines[i]))'
    BY <1>4, <1>5, <1>11, <2>1
  <2> QED
    BY <2>2, <2>3, <2>4, <2>5 DEF FileRight
<1>13. Chosen' /\ (setting["conf"] \in DOMAIN disk)'
  BY <1>1, <1>2, <1>4 DEF Chosen
<1> QED
  BY <1>1, <1>6, <1>12, <1>13 DEF ConfigInv, SettingsAsWritten, StartsIfSound

LEMMA LinesEnd ==
    ASSUME ConfigInv, BadLine \/ EndOfFile
    PROVE  ConfigInv'
<1>0. Inputs /\ Len(Lines) \in Nat /\ DOMAIN Lines = 1 .. Len(Lines)
  BY InputTypes DEF ConfigInv
<1>1. /\ argv' = argv /\ disk' = disk /\ setting' = setting /\ at' = at
      /\ explicit' = explicit /\ Lines' = Lines /\ phase = "lines"
  BY DEF BadLine, EndOfFile, Lines
<1>2. /\ at \in 1 .. Len(Lines) + 1 /\ FileRight(at - 1)
      /\ Chosen /\ setting["conf"] \in DOMAIN disk
  BY <1>1 DEF ConfigInv
<1>3. Inputs'
  BY <1>0, <1>1 DEF Inputs, Phases, BadLine, EndOfFile
<1>4. CASE BadLine
  <2>1. ~ Sound'
    <3>1. at \in DOMAIN Lines /\ ~ LineGood(setting["mode"], Lines[at])
      BY <1>0, <1>2, <1>4 DEF BadLine
    <3>2. ~ Sound
      BY <3>1, Zenon DEF Sound
    <3> QED
      BY <1>1, <3>2 DEF Sound
  <2>2. phase' = "exit1"
    BY <1>4 DEF BadLine
  <2> QED
    BY <1>3, <2>1, <2>2 DEF ConfigInv, SettingsAsWritten, StartsIfSound
<1>5. CASE EndOfFile
  <2>1. at - 1 = Len(Lines) /\ phase' = "defaults"
    BY <1>0, <1>2, <1>5 DEF EndOfFile
  <2>2. FileRight(Len(Lines))
    BY <1>2, <2>1
  <2>3. FileRight(Len(Lines))'
    BY <1>1, <2>2 DEF FileRight, FromFile, FromOptions, Writers
  <2>4. (Chosen /\ setting["conf"] \in DOMAIN disk)'
    BY <1>1, <1>2 DEF Chosen
  <2> QED
    BY <1>3, <2>1, <2>3, <2>4 DEF ConfigInv, SettingsAsWritten, StartsIfSound
<1> QED
  BY <1>4, <1>5

-----------------------------------------------------------------------------
(* What was not written. *)

LEMMA DefaultsKeep ==
    ASSUME ConfigInv, FillFromProfile \/ NoProfile
    PROVE  ConfigInv'
<1>0. Inputs /\ DOMAIN Lines = 1 .. Len(Lines) /\ DOMAIN argv = 1 .. Len(argv)
  BY InputTypes DEF ConfigInv
<1>1. /\ argv' = argv /\ disk' = disk /\ phase = "defaults"
  BY DEF FillFromProfile, NoProfile
<1>2. FileRight(Len(Lines)) /\ Chosen /\ setting["conf"] \in DOMAIN disk
  BY <1>1 DEF ConfigInv
<1>3. \A f \in Fields : FromFile(f, Len(Lines), setting[f])
  BY <1>2 DEF FileRight
<1>4. \A k \in ProfileKeys : k \in explicit <=> Writers(k, Len(Lines)) # {}
  BY <1>2 DEF FileRight
<1>5. setting["profile"] \in DOMAIN Profiles \cup {""} => Sound
  BY <1>0, <1>2 DEF Chosen, FileRight, Sound
<1>6. CASE FillFromProfile
  <2>1. ASSUME NEW f \in Fields
        PROVE  setting'[f] = IF f \in ProfileKeys \ explicit
                             THEN Profiles[setting["profile"]][f] ELSE setting[f]
    BY <1>6, <2>1 DEF FillFromProfile
  <2>2. \A k \in {"mode", "conf", "profile"} : setting'[k] = setting[k]
    BY <2>1, FieldNames
  <2>3. Lines' = Lines
    BY <1>1, <2>2 DEF Lines
  <2>4. setting["profile"] \in DOMAIN Profiles /\ setting["profile"] # ""
    BY <1>6, ConfigAssumption DEF FillFromProfile
  <2>5. Sound'
    BY <1>1, <1>5, <2>2, <2>3, <2>4 DEF Sound
  <2>6. \A f \in Fields : Filled(f, setting'[f])
    BY <1>3, <1>4, <2>1, <2>4 DEF Filled
  <2>7. (\A f \in Fields : Filled(f, setting[f]))'
    BY <1>1, <2>2, <2>3, <2>6 DEF Filled, FromFile, FromOptions, Writers
  <2>8. phase' = "bind" /\ Inputs'
    BY <1>0, <1>1, <1>6, <2>1 DEF FillFromProfile, Inputs, Phases
  <2> QED
    BY <2>5, <2>7, <2>8 DEF ConfigInv, SettingsAsWritten, StartsIfSound
<1>7. CASE NoProfile
  <2>1. setting' = setting /\ Lines' = Lines /\ setting["profile"] \notin DOMAIN Profiles
    BY <1>1, <1>7 DEF NoProfile, Lines
  <2>2. Inputs' /\ phase' = IF setting["profile"] = "" THEN "bind" ELSE "exit1"
    BY <1>0, <1>1, <1>7 DEF NoProfile, Inputs, Phases
  <2>3. CASE setting["profile"] = ""
    <3>1. Sound'
      BY <1>1, <1>5, <2>1, <2>3 DEF Sound
    <3>2. \A f \in Fields : Filled(f, setting[f])
      BY <1>3, <2>3 DEF Filled
    <3>3. (\A f \in Fields : Filled(f, setting[f]))'
      BY <1>1, <2>1, <3>2 DEF Filled, FromFile, FromOptions, Writers
    <3> QED
      BY <2>2, <2>3, <3>1, <3>3 DEF ConfigInv, SettingsAsWritten, StartsIfSound
  <2>4. CASE setting["profile"] # ""
    <3>1. ~ Sound'
      BY <2>1, <2>4 DEF Sound
    <3> QED
      BY <2>2, <2>4, <3>1 DEF ConfigInv, SettingsAsWritten, StartsIfSound
  <2> QED
    BY <2>3, <2>4
<1> QED
  BY <1>6, <1>7

LEMMA RunKeeps ==
    ASSUME ConfigInv, Run \/ EapFails
    PROVE  ConfigInv'
<1>1. /\ argv' = argv /\ disk' = disk /\ phase = "bind" /\ Inputs
      /\ Sound /\ \A f \in Fields : Filled(f, setting[f])
  BY DEF ConfigInv, Run, EapFails
<1>2. CASE EapFails
  <2>1. phase' = "exit1" /\ Inputs' /\ Asked("802.1x")'
    BY <1>1, <1>2 DEF EapFails, Inputs, Phases, Asked
  <2> QED
    BY <2>1 DEF ConfigInv, SettingsAsWritten, StartsIfSound
<1>3. CASE Run
  <2>1. ASSUME NEW f \in Fields
        PROVE  setting'[f] = IF f = "bind_ip" /\ setting[f] = "" THEN AnyAddress
                             ELSE setting[f]
    BY <1>1, <1>3, <2>1 DEF Run, Inputs
  <2>2. \A k \in {"mode", "conf", "profile"} : setting'[k] = setting[k]
    BY <2>1, FieldNames
  <2>3. Lines' = Lines
    BY <1>1, <2>2 DEF Lines
  <2>4. Sound'
    BY <1>1, <2>2, <2>3 DEF Sound
  <2>5. \A f \in Fields : Final(f, setting'[f])
    <3> SUFFICES ASSUME NEW f \in Fields PROVE Final(f, setting'[f])
      OBVIOUS
    <3>1. Filled(f, setting[f])
      BY <1>1
    <3>2. f = "bind_ip" => f \notin ProfileKeys
      BY FieldNames
    <3> QED
      BY <2>1, <3>1, <3>2 DEF Filled, Final
  <2>6. (\A f \in Fields : Final(f, setting[f]))'
    <3>1. \A f, v : FromFile(f, Len(Lines), v)' <=> FromFile(f, Len(Lines), v)
      BY <1>1, <2>2, <2>3 DEF FromFile, FromOptions, Writers
    <3>2. \A f : Writers(f, Len(Lines))' = Writers(f, Len(Lines))
      BY <2>3 DEF Writers
    <3>3. ASSUME NEW f \in Fields PROVE Final(f, setting[f])'
      <4>1. Final(f, setting'[f])
        BY <2>5
      <4> QED
        BY <2>2, <3>1, <3>2, <4>1 DEF Final
    <3> QED
      BY <3>3
  <2>7. phase' = "running" /\ Inputs'
    BY <1>1, <1>3 DEF Run, Inputs, Phases
  <2> QED
    BY <2>4, <2>6, <2>7 DEF ConfigInv, SettingsAsWritten, StartsIfSound
<1> QED
  BY <1>2, <1>3

LEMMA StutterKeeps ==
    ASSUME ConfigInv, UNCHANGED vars
    PROVE  ConfigInv'
<1>1. /\ argv' = argv /\ disk' = disk /\ phase' = phase /\ at' = at
      /\ setting' = setting /\ explicit' = explicit /\ Lines' = Lines
  BY DEF vars, Lines
<1>2. /\ \A f, n, v : FromFile(f, n, v)' <=> FromFile(f, n, v)
      /\ \A f, n, v : FromOptions(f, n, v)' <=> FromOptions(f, n, v)
      /\ \A f, n : Writers(f, n)' = Writers(f, n)
  BY <1>1 DEF FromFile, FromOptions, Writers
<1>3. /\ \A n : OptionsRight(n)' <=> OptionsRight(n)
      /\ \A n : FileRight(n)' <=> FileRight(n)
      /\ (\A f \in Fields : Filled(f, setting[f]))'
            <=> \A f \in Fields : Filled(f, setting[f])
  BY <1>1, <1>2 DEF OptionsRight, FileRight, Filled
<1>4. /\ Inputs' <=> Inputs
      /\ Chosen' <=> Chosen
      /\ Sound' <=> Sound
      /\ StartsIfSound' <=> StartsIfSound
      /\ SettingsAsWritten' <=> SettingsAsWritten
  BY <1>1, <1>2 DEF Inputs, Chosen, Sound, StartsIfSound, Asked, SettingsAsWritten, Final
<1> QED
  BY <1>1, <1>3, <1>4 DEF ConfigInv

LEMMA Invariance == Spec => []ConfigInv
<1>1. ConfigInv /\ [Next]_vars => ConfigInv'
  BY ReadOptionKeeps, OptionsEnd, OpenKeeps, ReadLineKeeps, LinesEnd, DefaultsKeep,
     RunKeeps, StutterKeeps
  DEF Next
<1> QED
  BY InitHolds, <1>1, PTL DEF Spec

(* Whatever the command line and the file, however long: the client runs   *)
(* with the value written last, over the options, and with the profile's   *)
(* where a profile is chosen and the file is silent.                       *)
THEOREM RunsAsWritten == Spec => []SettingsAsWritten
<1>1. ConfigInv => SettingsAsWritten
  BY DEF ConfigInv
<1> QED
  BY Invariance, <1>1, PTL

(* It starts only from a command line and a file without a fault, and      *)
(* turns down no other.                                                    *)
THEOREM RefusesForCause == Spec => []StartsIfSound
<1>1. ConfigInv => StartsIfSound
  BY DEF ConfigInv
<1> QED
  BY Invariance, <1>1, PTL
=============================================================================
