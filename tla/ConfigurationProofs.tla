------------------------ MODULE ConfigurationProofs ------------------------
(***************************************************************************)
(* The invariants of Configuration for any names, keys, addresses, numbers *)
(* and room for networks.                                                  *)
(***************************************************************************)
EXTENDS Configuration, TLAPS

\* What the wizard has asked by each of its questions is in the configuration;
\* the fields not yet asked are whatever they were.
Asked ==
  /\ pc \in Wizard \ {"scan", "ssid"} => config.ssid = typed.ssid
  /\ pc \in Wizard \ {"scan", "ssid", "auth"} => config.auth = Auth(typed.security)
  /\ pc \in Wizard \ {"scan", "ssid", "auth", "key"} => config.psk = typed.psk
  /\ pc \in {"type", "pins", "create", "write"} => config.server = typed.server
  /\ pc = "pins" => config.hardwaremode = typed.type * Two24
  /\ pc \in {"create", "write"} =>
       Wired(config.hardwaremode) = Line(typed)

Whole(c, t) == Agrees(c, t) /\ Wired(c.hardwaremode) = Line(t)

\* A file of this version is what was saved last.  While nothing has failed
\* since, that is also what was typed last, and is not asked for again; and
\* where there is no such file, nothing was saved.
Saved ==
  /\ file.ver = CONFIG_VER => Whole(file.config, saved)
  /\ file.ver # CONFIG_VER => file \in {NoFile, Unwritten, Foreign}
  /\ ~failed /\ file.ver = CONFIG_VER => pc \notin Wizard /\ saved = typed
  /\ ~failed /\ file.ver # CONFIG_VER => saved = Nothing

\* Past the wizard the configuration is what was typed, or what was saved, or
\* what was read of that.
AtWork ==
  /\ pc \in {"connect", "startup", "loop"} =>
       \/ Whole(config, typed)
       \/ failed /\ Whole(config, saved)
       \/ short /\ \E n \in 0 .. 4 : config = Part(Entered(saved), n)
  /\ pc = "loop" => uart = Wired(config.hardwaremode)
  /\ pc = "boot" => config = Zeroed

Erased ==
  erased => file = NoFile /\ pc \in (Wizard \ {"create", "write"}) \cup {"boot"}

ConfInv == ConfTypeOK /\ Asked /\ Saved /\ AtWork /\ Erased

-----------------------------------------------------------------------------
LEMMA AuthOfOpen == Auth(0) = 0
BY SMT DEF Auth

LEMMA ZeroedIsConfig == Zeroed \in Configs /\ Foreign.config \in Configs
BY AuthOfOpen DEF Zeroed, Configs, Foreign, File

LEMMA NothingIsTyping == Nothing \in Typings
BY DEF Nothing, Typings

LEMMA FilesDiffer == NoFile.ver = -1 /\ Unwritten.ver = 0 /\ Foreign.ver = 2
BY DEF NoFile, Unwritten, Foreign, File, CONFIG_VER

LEMMA FilesAreFiles ==
  {NoFile, Unwritten, Foreign} \subseteq
    [ver : {-1, 0, CONFIG_VER - 1, CONFIG_VER}, config : Configs]
BY ZeroedIsConfig, FilesDiffer DEF NoFile, Unwritten, Foreign, File, CONFIG_VER

\* What is read of a file is a configuration; all five fields are the file's.
LEMMA PartIsConfig ==
  ASSUME NEW c \in Configs, NEW n \in 0 .. 5
  PROVE  Part(c, n) \in Configs /\ (n = 5 => Part(c, n) = c)
<1>1. c.auth \in {1} \cup {Auth(a) : a \in 0 .. 2} /\ 0 \in {Auth(a) : a \in 0 .. 2}
  BY AuthOfOpen DEF Configs
<1>2. Part(c, n) \in Configs
  BY <1>1 DEF Part, Configs
<1>3. n = 5 => Part(c, n) = c
  BY DEF Part, Configs
<1> QED BY <1>2, <1>3

\* And fewer fields are those of what was saved.
LEMMA PartOfSaved ==
  ASSUME NEW c \in Configs, NEW t, Agrees(c, t), NEW n \in 0 .. 4
  PROVE  Part(c, n) = Part(Entered(t), n)
<1>1. /\ c.ssid = Entered(t).ssid /\ c.psk = Entered(t).psk
      /\ c.auth = Entered(t).auth /\ c.server = Entered(t).server
  <2>1. [c EXCEPT !.hardwaremode = 0] = Entered(t)
    BY DEF Agrees
  <2> QED BY <2>1 DEF Configs
<1> QED BY <1>1 DEF Part

LEMMA NothingRead ==
  ASSUME NEW c
  PROVE  Part(c, 0) = Zeroed
BY DEF Part, Zeroed

\* Fields that agree one by one are an agreement.
LEMMA FieldsAgree ==
  ASSUME NEW c \in Configs, NEW t, c.ssid = t.ssid, c.psk = t.psk,
         c.auth = Auth(t.security), c.server = t.server
  PROVE  Agrees(c, t)
BY DEF Agrees, Entered, Configs

LEMMA NoNetworks ==
  ASSUME NEW n, n = <<>>
  PROVE  /\ n \in Seq(Ssids) /\ Len(n) <= MaxNetworks
         /\ \A j, k \in DOMAIN n : n[j] = n[k] => j = k
BY EntriesAssumption

\* Two numbers of pins put into hardwaremode come out of it again.
LEMMA PinsComeBack ==
  ASSUME NEW t \in 2 .. 3, NEW tx \in 0 .. 29, NEW rx \in 0 .. 29
  PROVE  Wired(t * Two24 + (tx * 256 + rx)) = [type |-> t, tx |-> tx, rx |-> rx]
<1>1. (t * Two24 + (tx * 256 + rx)) \div Two24 = t
  BY SMT DEF Two24
<1>2. (t * Two24 + (tx * 256 + rx)) % Two24 = tx * 256 + rx
  BY SMT DEF Two24
<1>3. ((tx * 256 + rx) \div 256) % 32 = tx /\ (tx * 256 + rx) % 32 = rx
  OBVIOUS
<1> QED BY <1>1, <1>2, <1>3 DEF Wired, UartPins, Type

\* So does a choice of the pins of a hardware UART.
LEMMA ChoiceComesBack ==
  ASSUME NEW t \in 0 .. 1, NEW n \in 0 .. 3
  PROVE  Wired(t * Two24 + n) =
           [type |-> t, tx |-> Offered(t)[n + 1], rx |-> Offered(t)[n + 1] + 1]
<1>1. (t * Two24 + n) \div Two24 = t
  BY SMT DEF Two24
<1>2. (t * Two24 + n) % Two24 = n /\ n % 4 = n
  BY SMT DEF Two24
<1>3. UartPins(t, n) = [type |-> t, tx |-> Offered(t)[n + 1], rx |-> Offered(t)[n + 1] + 1]
  BY <1>2 DEF UartPins, Offered
<1> QED BY <1>1, <1>2, <1>3 DEF Wired, Type

LEMMA TypeComesBack ==
  ASSUME NEW t \in 0 .. 3
  PROVE  Type(t * Two24) = t /\ t * Two24 \in Nat
BY SMT DEF Type, Two24

-----------------------------------------------------------------------------
LEMMA ConfInit == ConfStart => ConfInv
<1> SUFFICES ASSUME ConfStart PROVE ConfInv
  OBVIOUS
<1> USE DEF ConfStart
<1>1. ConfTypeOK
  <2>1. file \in [ver : {-1, 0, CONFIG_VER - 1, CONFIG_VER}, config : Configs]
    BY FilesAreFiles
  <2> QED BY <2>1, NothingIsTyping, ZeroedIsConfig, NoNetworks DEF ConfTypeOK
<1>2. Asked /\ Saved /\ AtWork /\ Erased
  BY FilesDiffer DEF Asked, Saved, AtWork, Erased, Wizard, CONFIG_VER
<1> QED BY <1>1, <1>2 DEF ConfInv

LEMMA BootKeepsConfInv ==
  ASSUME ConfInv, MountFails \/ NotConfigured \/ ReadNothing \/ ReadConfig
  PROVE  ConfInv'
<1> USE DEF ConfInv
<1>1. /\ pc = "boot" /\ config = Zeroed /\ Zeroed \in Configs
      /\ UNCHANGED <<networks, tftp, uart, typed, saved, erased>>
      /\ mounted' \in BOOLEAN /\ configured' \in BOOLEAN
  BY ZeroedIsConfig DEF AtWork, Booted, MountFails, NotConfigured, ReadNothing, ReadConfig,
     Mounted
<1>2. CASE MountFails
  <2> USE <1>2 DEF MountFails, Booted
  <2>1. pc' = "scan" /\ config' = Zeroed /\ file' \in {NoFile, file} /\ failed' = TRUE
    BY <1>1
  <2>2. ConfTypeOK'
    BY <1>1, <2>1, FilesAreFiles DEF ConfTypeOK, Wizard
  <2>3. Asked' /\ AtWork'
    BY <2>1 DEF Asked, AtWork, Wizard
  <2>4. Saved' /\ Erased'
    BY <1>1, <2>1, FilesDiffer DEF Saved, Erased, Wizard, Whole, CONFIG_VER
  <2> QED BY <2>2, <2>3, <2>4
<1>3. CASE NotConfigured
  <2> USE <1>3 DEF NotConfigured, Mounted, Booted
  <2>1. pc' = "scan" /\ config' = Zeroed /\ file' = file
        /\ (~failed' => ~failed /\ file = NoFile) /\ failed' \in BOOLEAN
    BY <1>1, Zenon
  <2>2. ConfTypeOK'
    BY <1>1, <2>1 DEF ConfTypeOK, Wizard
  <2>3. Asked' /\ AtWork'
    BY <2>1 DEF Asked, AtWork, Wizard
  <2>4. Saved' /\ Erased'
    BY <1>1, <2>1, FilesDiffer DEF ConfTypeOK, Saved, Erased, Wizard, Whole, CONFIG_VER
  <2> QED BY <2>2, <2>3, <2>4
<1>4. CASE ReadNothing
  <2> USE <1>4 DEF ReadNothing, Mounted, Booted
  <2>1. /\ pc' \in {"scan", "connect"} /\ config' = Zeroed /\ file' = file
        /\ file # NoFile /\ (~failed' => ~failed /\ file = Unwritten) /\ failed' \in BOOLEAN
        /\ short' \in BOOLEAN /\ (pc' = "connect" => short' = TRUE)
    BY <1>1, Zenon
  <2>2. ConfTypeOK'
    BY <1>1, <2>1 DEF ConfTypeOK, Wizard
  <2>3. Asked' /\ AtWork'
    BY <1>1, <2>1, NothingRead DEF Asked, AtWork, Wizard
  <2>4. Saved' /\ Erased'
    BY <1>1, <2>1, FilesDiffer DEF ConfTypeOK, Saved, Erased, Wizard, Whole, CONFIG_VER
  <2> QED BY <2>2, <2>3, <2>4
<1>5. CASE ReadConfig
  <2>1. PICK n \in 0 .. 5 :
           /\ short' = (file.ver = CONFIG_VER /\ n < 5)
           /\ Booted(Part(file.config, n), file.ver = CONFIG_VER)
    BY <1>5 DEF ReadConfig
  <2>2. /\ pc' = (IF file.ver = CONFIG_VER THEN "connect" ELSE "scan")
        /\ config' = Part(file.config, n) /\ file' = file /\ failed' = failed
        /\ file \notin {NoFile, Unwritten}
    BY <1>5, <2>1 DEF ReadConfig, Mounted, Booted
  <2>3. file.config \in Configs /\ config' \in Configs
    BY <2>2, PartIsConfig DEF ConfTypeOK
  <2>4. ConfTypeOK'
    BY <1>1, <2>1, <2>2, <2>3 DEF ConfTypeOK, Wizard
  <2>5. Asked'
    BY <2>2 DEF Asked, Wizard
  <2>6. Saved' /\ Erased'
    BY <1>1, <2>2, FilesDiffer DEF Saved, Erased, Wizard, Whole, CONFIG_VER
  <2>7. AtWork'
    <3> SUFFICES ASSUME pc' = "connect"
                 PROVE  \/ Whole(config, typed)'
                        \/ failed' /\ Whole(config, saved)'
                        \/ short' /\ \E m \in 0 .. 4 : config' = Part(Entered(saved'), m)
      BY <2>2 DEF AtWork, Wizard
    <3>1. file.ver = CONFIG_VER /\ Whole(file.config, saved)
      BY <2>2 DEF Saved
    <3>2. CASE n = 5
      <4>1. config' = file.config /\ saved' = saved /\ typed' = typed
        BY <1>1, <2>2, <2>3, <3>2, PartIsConfig
      <4>2. Whole(config', saved)
        BY <3>1, <4>1
      <4>3. failed \/ saved = typed
        BY <3>1 DEF Saved
      <4> QED BY <2>2, <4>1, <4>2, <4>3
    <3>3. CASE n < 5
      <4>1. n \in 0 .. 4 /\ short' = TRUE
        <5>1. short' = TRUE
          BY <2>1, <3>1, <3>3, Zenon
        <5>2. n \in 0 .. 4
          BY <3>3
        <5> QED BY <5>1, <5>2
      <4>2. config' = Part(Entered(saved'), n)
        BY <1>1, <2>2, <2>3, <3>1, <4>1, PartOfSaved DEF Whole
      <4> QED BY <4>1, <4>2
    <3> QED BY <3>2, <3>3
  <2> QED BY <2>4, <2>5, <2>6, <2>7
<1> QED BY <1>2, <1>3, <1>4, <1>5

LEMMA ResetKeepsConfInv ==
  ASSUME ConfInv, Reboot \/ Reconfigure \/ PowerLoss
  PROVE  ConfInv'
<1> USE DEF ConfInv, Reboot, Reconfigure, Removes, PowerLoss, Reset
<1>1. \/ UNCHANGED <<file, saved, erased>>
      \/ file' = NoFile /\ saved' = Nothing /\ erased' = TRUE
  OBVIOUS
<1>2. /\ pc' = "boot" /\ config' = Zeroed /\ networks' = <<>> /\ UNCHANGED <<typed, failed>>
      /\ {mounted', configured', tftp', failed', short', erased'} \subseteq BOOLEAN
  BY DEF ConfTypeOK
<1>3. ConfTypeOK'
  <2>1. file' \in [ver : {-1, 0, CONFIG_VER - 1, CONFIG_VER}, config : Configs]
    BY <1>1, FilesAreFiles DEF ConfTypeOK
  <2>2. saved' \in Typings
    BY <1>1, NothingIsTyping DEF ConfTypeOK
  <2> QED BY <1>2, <2>1, <2>2, ZeroedIsConfig, NoNetworks DEF ConfTypeOK
<1>4. Asked' /\ AtWork' /\ Erased'
  BY <1>1, <1>2 DEF Asked, AtWork, Erased, Wizard
<1>5. Saved'
  BY <1>1, <1>2, FilesDiffer DEF Saved, Wizard, Whole, CONFIG_VER
<1> QED BY <1>3, <1>4, <1>5

\* The steps of the wizard that leave the file alone.
LEMMA EntryKeepsConfInv ==
  ASSUME ConfInv,
         \/ \E s \in Ssids : ScanResult(s) \/ EnterSsid(s)
         \/ ScanDone \/ EnterNone \/ Join
         \/ \E a \in 0 .. 2 : EnterAuth(a)
         \/ \E k \in Keys : EnterKey(k)
         \/ \E s \in Servers : EnterServer(s)
         \/ \E t \in 0 .. 3 : EnterType(t)
  PROVE  ConfInv'
<1> USE DEF ConfInv, Rest, Kept, At
<1>1. ASSUME NEW s \in Ssids, ScanResult(s)
      PROVE  ConfInv'
  <2> USE <1>1 DEF ScanResult
  <2>1. networks' \in Seq(Ssids) /\ Len(networks') <= MaxNetworks
    BY EntriesAssumption DEF ConfTypeOK
  <2>2. \A j, k \in DOMAIN networks' : networks'[j] = networks'[k] => j = k
    BY DEF ConfTypeOK
  <2>3. ConfTypeOK'
    BY <2>1, <2>2 DEF ConfTypeOK
  <2>4. Asked' /\ Saved' /\ AtWork' /\ Erased'
    BY DEF Asked, Saved, AtWork, Erased, Whole, Wizard
  <2> QED BY <2>3, <2>4
<1>2. ASSUME NEW s \in Ssids, EnterSsid(s)
      PROVE  ConfInv'
  <2> USE <1>2 DEF EnterSsid
  <2>1. ConfTypeOK'
    <3>1. config' \in Configs
      BY DEF ConfTypeOK, Configs
    <3>2. typed' \in Typings
      BY DEF Nothing, Typings
    <3> QED BY <3>1, <3>2 DEF ConfTypeOK, Wizard
  <2>2. Asked' /\ Saved' /\ AtWork' /\ Erased'
    BY DEF Nothing, ConfTypeOK, Asked, Saved, AtWork, Erased, Wizard, Configs, Typings
  <2> QED BY <2>1, <2>2
<1>3. CASE ScanDone \/ EnterNone \/ Join
  <2> USE <1>3 DEF ScanDone, EnterNone, Join
  <2>1. ConfTypeOK'
    BY NoNetworks DEF ConfTypeOK, Wizard, Configs
  <2>2. Asked' /\ Saved' /\ AtWork' /\ Erased'
    BY DEF ConfTypeOK, Asked, Saved, AtWork, Erased, Wizard, Whole
  <2> QED BY <2>1, <2>2
<1>4. ASSUME NEW a \in 0 .. 2, EnterAuth(a)
      PROVE  ConfInv'
  <2> USE <1>4 DEF EnterAuth
  <2>1. ConfTypeOK'
    <3>1. config' \in Configs
      BY DEF ConfTypeOK, Configs
    <3>2. typed' \in Typings
      BY DEF ConfTypeOK, Typings
    <3> QED BY <3>1, <3>2 DEF ConfTypeOK, Wizard
  <2>2. Asked'
    BY DEF ConfTypeOK, Asked, Wizard, Configs, Typings
  <2>3. Saved' /\ AtWork' /\ Erased'
    BY DEF Saved, AtWork, Erased, Wizard
  <2> QED BY <2>1, <2>2, <2>3
<1>5. ASSUME NEW k \in Keys, EnterKey(k)
      PROVE  ConfInv'
  <2> USE <1>5 DEF EnterKey
  <2>1. ConfTypeOK'
    <3>1. config' \in Configs
      BY DEF ConfTypeOK, Configs
    <3>2. typed' \in Typings
      BY DEF ConfTypeOK, Typings
    <3> QED BY <3>1, <3>2 DEF ConfTypeOK, Wizard
  <2>2. Asked'
    BY DEF ConfTypeOK, Asked, Wizard, Configs, Typings
  <2>3. Saved' /\ AtWork' /\ Erased'
    BY DEF Saved, AtWork, Erased, Wizard
  <2> QED BY <2>1, <2>2, <2>3
<1>6. ASSUME NEW s \in Servers, EnterServer(s)
      PROVE  ConfInv'
  <2> USE <1>6 DEF EnterServer
  <2>1. ConfTypeOK'
    <3>1. config' \in Configs
      BY DEF ConfTypeOK, Configs
    <3>2. typed' \in Typings
      BY DEF ConfTypeOK, Typings
    <3> QED BY <3>1, <3>2 DEF ConfTypeOK, Wizard
  <2>2. Asked'
    BY DEF ConfTypeOK, Asked, Wizard, Configs, Typings
  <2>3. Saved' /\ AtWork' /\ Erased'
    BY DEF Saved, AtWork, Erased, Wizard
  <2> QED BY <2>1, <2>2, <2>3
<1>7. ASSUME NEW t \in 0 .. 3, EnterType(t)
      PROVE  ConfInv'
  <2> USE <1>7 DEF EnterType
  <2>1. ConfTypeOK'
    <3>1. config' \in Configs
      BY TypeComesBack DEF ConfTypeOK, Configs
    <3>2. typed' \in Typings
      BY DEF ConfTypeOK, Typings
    <3> QED BY <3>1, <3>2 DEF ConfTypeOK, Wizard
  <2>2. Asked'
    BY DEF ConfTypeOK, Asked, Wizard, Configs, Typings
  <2>3. Saved' /\ AtWork' /\ Erased'
    BY DEF Saved, AtWork, Erased, Wizard
  <2> QED BY <2>1, <2>2, <2>3
<1> QED BY <1>1, <1>2, <1>3, <1>4, <1>5, <1>6, <1>7

LEMMA RetypedPins ==
  ASSUME typed \in Typings, NEW t \in Nat, NEW r \in Nat,
         typed' = [typed EXCEPT !.tx = t, !.rx = r]
  PROVE  typed' \in Typings /\ typed'.type = typed.type /\ typed'.tx = t /\ typed'.rx = r
BY DEF Typings

\* The pins, which end what the wizard asks.
LEMMA PinsKeepConfInv ==
  ASSUME ConfInv,
         \/ \E n \in Numbers : EnterChoice(n)
         \/ \E tx, rx \in Numbers : EnterPins(tx, rx)
  PROVE  ConfInv'
<1>1. pc = "pins" /\ config \in Configs /\ typed \in Typings /\ typed.type \in 0 .. 3
      /\ config.hardwaremode = typed.type * Two24 /\ config.hardwaremode \in Nat
      /\ Type(config.hardwaremode) = typed.type
  <2>1. pc = "pins" /\ config \in Configs /\ typed \in Typings
    BY DEF ConfInv, ConfTypeOK, EnterChoice, EnterPins, Pins, At
  <2>2. config.hardwaremode = typed.type * Two24 /\ typed.type \in 0 .. 3
    BY <2>1 DEF ConfInv, Asked, Typings
  <2> QED BY <2>1, <2>2, TypeComesBack
<1>2. ASSUME NEW n \in Numbers, EnterChoice(n)
      PROVE  /\ config' \in Configs /\ typed' \in Typings
             /\ Wired(config'.hardwaremode) =
                  Line(typed')
  <2>1. n \in 0 .. 3 /\ typed.type \in 0 .. 1
    <3>1. n <= 3 /\ Type(config.hardwaremode) \in {0, 1}
      BY <1>2 DEF EnterChoice
    <3> QED BY <1>1, <3>1, EntriesAssumption
  <2>2. config'.hardwaremode = typed.type * Two24 + n /\ n \in Nat
    <3>1. config' = [config EXCEPT !.hardwaremode = config.hardwaremode + n]
      BY <1>2 DEF EnterChoice, Pins
    <3> QED BY <1>1, <2>1, <3>1 DEF Configs
  <2>3. Offered(typed.type)[n + 1] \in Nat
    BY <2>1 DEF Offered
  <2>4. typed' = [typed EXCEPT !.tx = Offered(typed.type)[n + 1],
                              !.rx = Offered(typed.type)[n + 1] + 1]
    BY <1>1, <1>2 DEF EnterChoice
  <2>5. typed' \in Typings /\ typed'.type = typed.type
        /\ typed'.tx = Offered(typed.type)[n + 1]
        /\ typed'.rx = Offered(typed.type)[n + 1] + 1
    <3>1. Offered(typed.type)[n + 1] + 1 \in Nat
      BY <2>3
    <3> QED BY <1>1, <2>3, <2>4, <3>1, RetypedPins
  <2>6. config' \in Configs
    <3>1. config' = [config EXCEPT !.hardwaremode = config.hardwaremode + n]
      BY <1>2 DEF EnterChoice, Pins
    <3> QED BY <1>1, <2>1, <3>1 DEF Configs
  <2> QED BY <2>1, <2>2, <2>5, <2>6, ChoiceComesBack DEF Line
<1>3. ASSUME NEW tx \in Numbers, NEW rx \in Numbers, EnterPins(tx, rx)
      PROVE  /\ config' \in Configs /\ typed' \in Typings
             /\ Wired(config'.hardwaremode) =
                  Line(typed')
  <2>1. tx \in 0 .. 29 /\ rx \in 0 .. 29 /\ typed.type \in 2 .. 3
    <3>1. tx <= 29 /\ rx <= 29 /\ Type(config.hardwaremode) \in {2, 3}
      <4>1. tx \in Nat /\ rx \in Nat
        BY EntriesAssumption
      <4>2. /\ Type(config.hardwaremode) \in {2, 3}
            /\ tx <= (IF Type(config.hardwaremode) = 2 THEN 28 ELSE 29)
            /\ rx <= (IF Type(config.hardwaremode) = 2 THEN 28 ELSE 29)
        BY <1>3, Zenon DEF EnterPins
      <4> QED BY <4>1, <4>2
    <3> QED BY <1>1, <3>1, EntriesAssumption
  <2>2. config' = [config EXCEPT !.hardwaremode = config.hardwaremode + (tx * 256 + rx)]
        /\ tx * 256 + rx \in Nat
    <3>1. tx * 256 + rx \in Nat
      BY <2>1
    <3> QED BY <1>3, <3>1 DEF EnterPins, Pins
  <2>3. typed' \in Typings /\ typed'.type = typed.type /\ typed'.tx = tx /\ typed'.rx = rx
    <3>1. typed' = [typed EXCEPT !.tx = tx, !.rx = rx]
      BY <1>3 DEF EnterPins
    <3>2. tx \in Nat /\ rx \in Nat
      BY <2>1
    <3> QED BY <1>1, <3>1, <3>2, RetypedPins
  <2>4. config' \in Configs
        /\ config'.hardwaremode = typed.type * Two24 + (tx * 256 + rx)
    BY <1>1, <2>2 DEF Configs
  <2>5. Wired(typed.type * Two24 + (tx * 256 + rx)) = [type |-> typed.type, tx |-> tx, rx |-> rx]
    <3>1. PICK t \in 2 .. 3 : t = typed.type
      BY <2>1, Zenon
    <3>2. Wired(t * Two24 + (tx * 256 + rx)) = [type |-> t, tx |-> tx, rx |-> rx]
      BY <2>1, PinsComeBack, ZenonT(60)
    <3> QED
      BY <3>1, <3>2, Zenon
  <2> QED BY <2>3, <2>4, <2>5 DEF Line
<1>4. /\ pc' = "create" /\ erased' = FALSE
      /\ UNCHANGED <<mounted, file, configured, tftp, uart, networks, saved, failed, short>>
      /\ \E low : config' = [config EXCEPT !.hardwaremode = @ + low]
      /\ \E t, r : typed' = [typed EXCEPT !.tx = t, !.rx = r]
  BY DEF EnterChoice, EnterPins, Pins, Kept, At
<1>5. ConfTypeOK'
  BY <1>2, <1>3, <1>4 DEF ConfInv, ConfTypeOK, Wizard
<1>6. Asked'
  <2>1. Wired(config'.hardwaremode) =
          Line(typed')
    BY <1>2, <1>3
  <2>2. /\ config'.ssid = config.ssid /\ config'.auth = config.auth
        /\ config'.psk = config.psk /\ config'.server = config.server
    BY <1>1, <1>4 DEF Configs
  <2>3. /\ typed'.ssid = typed.ssid /\ typed'.security = typed.security
        /\ typed'.psk = typed.psk /\ typed'.server = typed.server
    BY <1>1, <1>4 DEF Typings
  <2> QED BY <1>1, <1>4, <2>1, <2>2, <2>3 DEF ConfInv, Asked, Wizard
<1>7. Saved' /\ AtWork' /\ Erased'
  BY <1>1, <1>4 DEF ConfInv, Saved, AtWork, Erased, Wizard
<1> QED BY <1>5, <1>6, <1>7 DEF ConfInv

LEMMA WriteKeepsConfInv ==
  ASSUME ConfInv, OpenConfig \/ WriteConfig
  PROVE  ConfInv'
<1> USE DEF ConfInv, OpenConfig, WriteConfig, Saves, Configured, Unasked
<1>1. pc \in {"create", "write"} /\ ~erased /\ Whole(config, typed)
  BY FieldsAgree DEF ConfTypeOK, Asked, Whole, Erased, Wizard
<1>2. pc' \in {"startup", "write"}
      /\ UNCHANGED <<mounted, config, networks, tftp, uart, typed, short, erased>>
      /\ configured' \in BOOLEAN
  BY DEF ConfTypeOK
<1>3. CASE file' = File(CONFIG_VER, config) /\ saved' = typed /\ failed' = FALSE
           /\ pc' = "startup"
  <2>1. file'.ver = CONFIG_VER /\ file'.config = config
        /\ file' \in [ver : {-1, 0, CONFIG_VER - 1, CONFIG_VER}, config : Configs]
    BY <1>3 DEF File, ConfTypeOK
  <2>2. ConfTypeOK'
    BY <1>2, <1>3, <2>1 DEF ConfTypeOK
  <2>3. Asked' /\ Erased'
    BY <1>1, <1>2, <1>3 DEF Asked, Erased, Wizard
  <2>4. Saved'
    BY <1>1, <1>2, <1>3, <2>1 DEF Saved, Wizard, Whole
  <2>5. AtWork'
    BY <1>1, <1>2, <1>3 DEF AtWork, Whole
  <2> QED BY <2>2, <2>3, <2>4, <2>5
<1>4. CASE UNCHANGED <<saved, failed>>
           /\ (file' = file \/ (file = NoFile /\ file' = Unwritten))
           /\ (pc' = "write" => pc = "create")
  <2>1. ConfTypeOK'
    BY <1>2, <1>4, FilesAreFiles DEF ConfTypeOK, Wizard
  <2>2. Asked' /\ Erased'
    BY <1>1, <1>2, <1>4 DEF Asked, Erased, Wizard
  <2>3. Saved'
    BY <1>1, <1>2, <1>4, FilesDiffer DEF Saved, Wizard, Whole, CONFIG_VER
  <2>4. AtWork'
    BY <1>1, <1>2 DEF AtWork, Whole
  <2> QED BY <2>1, <2>2, <2>3, <2>4
<1>5. CASE OpenConfig
  <2>1. UNCHANGED <<saved, failed>> /\ pc = "create"
    BY <1>5
  <2>2. file' = file \/ (file = NoFile /\ file' = Unwritten)
    BY <1>5
  <2> QED BY <1>4, <2>1, <2>2
<1>6. CASE WriteConfig
  <2>1. pc' = "startup"
    BY <1>6
  <2>2. CASE UNCHANGED <<file, saved, failed>>
    BY <1>4, <2>1, <2>2
  <2>3. CASE file' = File(CONFIG_VER, config) /\ saved' = typed /\ failed' = FALSE
    BY <1>3, <2>1, <2>3
  <2> QED BY <1>6, <2>2, <2>3
<1> QED BY <1>5, <1>6

LEMMA WorkKeepsConfInv ==
  ASSUME ConfInv, Connect \/ Startup
  PROVE  ConfInv'
<1> USE DEF ConfInv, Connect, Startup, At, history
<1>1. tftp' \in BOOLEAN
  BY DEF ConfTypeOK
<1>2. /\ pc \in {"connect", "startup"} /\ pc' \in {"startup", "loop"}
      /\ UNCHANGED <<mounted, file, config, configured, networks, typed, saved, failed, short,
                     erased>>
      /\ pc' = "loop" => uart' = Wired(config.hardwaremode)
  BY DEF ConfTypeOK
<1>3. ConfTypeOK'
  BY <1>1, <1>2 DEF ConfTypeOK
<1>4. Asked' /\ Saved' /\ AtWork' /\ Erased'
  BY <1>2 DEF Asked, Saved, AtWork, Erased, Whole, Wizard
<1> QED BY <1>3, <1>4

-----------------------------------------------------------------------------
LEMMA ConfStep == ConfInv /\ [ConfNext]_conf_vars => ConfInv'
<1> SUFFICES ASSUME ConfInv, [ConfNext]_conf_vars PROVE ConfInv'
  OBVIOUS
<1>1. CASE UNCHANGED conf_vars
  BY <1>1 DEF conf_vars, history, ConfInv, ConfTypeOK, Asked, Saved, AtWork, Erased, Whole
<1>2. CASE ConfNext
  BY <1>2, BootKeepsConfInv, ResetKeepsConfInv, EntryKeepsConfInv, PinsKeepConfInv,
     WriteKeepsConfInv, WorkKeepsConfInv DEF ConfNext, WizardStep
<1> QED BY <1>1, <1>2

LEMMA Always == ConfSpec => []ConfInv
BY ConfInit, ConfStep, PTL DEF ConfSpec

\* The configuration, in RAM and on the flash, is well formed, and scan_result
\* lists no network twice, whatever is typed, fails or loses power (src/config.c,
\* src/wifi.c).
THEOREM ConfTypeCorrect == ConfSpec => []ConfTypeOK
BY Always, PTL DEF ConfInv

\* A gateway at work has the whole of what was last typed, and its line on the
\* pins that were asked for, or after a failure of the flash the whole of what was
\* saved; or it has a first part of that, when the rest could not be read: the
\* wizard, writeConfig, readConfig and duart_init together (src/config.c,
\* src/duart.c).
THEOREM WorksAsTyped == ConfSpec => []AsTyped
<1>1. ConfInv => AsTyped
  <2> SUFFICES ASSUME ConfInv, pc = "loop" PROVE AsTyped
    BY DEF AsTyped
  <2>1. uart = Wired(config.hardwaremode)
    BY DEF ConfInv, AtWork
  <2>2. ASSUME NEW n \in 0 .. 4, config = Part(Entered(saved), n)
        PROVE  uart = Wired(0)
    BY <2>1, <2>2 DEF Part
  <2> QED BY <2>1, <2>2 DEF ConfInv, AtWork, AsTyped, WorksWith, Whole
<1> QED BY <1>1, Always, PTL

\* With a configuration saved and not removed, the wizard asks only after a
\* failure of the flash since (readConfig and writeConfig, src/config.c).
THEOREM AskedOnce == ConfSpec => []NotAskedAgain
<1>1. ConfInv => NotAskedAgain
  BY DEF ConfInv, Saved, NotAskedAgain
<1> QED BY <1>1, Always, PTL

\* After key c has removed the file, no restart, failure or loss of power leads
\* past the wizard (src/main.c).
THEOREM WizardAfterErase == ConfSpec => []EraseRestartsWizard
<1>1. ConfInv => EraseRestartsWizard
  BY DEF ConfInv, Erased, EraseRestartsWizard
<1> QED BY <1>1, Always, PTL
=============================================================================
