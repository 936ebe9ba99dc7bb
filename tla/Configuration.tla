---------------------------- MODULE Configuration ----------------------------
(***************************************************************************)
(* From power-up to adapterLoop: main of src/main.c, the configuration and *)
(* its wizard (src/config.c), the scan, the network and tftpStartup        *)
(* (src/wifi.c), and duart_init (src/duart.c), around losses of power and  *)
(* the console's r and c.                                                  *)
(*                                                                         *)
(* The flash file system is external.  Any call to it may fail; one that   *)
(* is not mounted opens and removes nothing.  A file comes into being,     *)
(* empty, when it is opened for writing, and what is written to it becomes *)
(* its content when it is closed, all at once.  A pico_read gives its      *)
(* whole field or nothing, and after one that fails nothing more is read.  *)
(***************************************************************************)
EXTENDS Integers, Sequences

CONSTANTS
  Ssids, Keys,       \* what may be typed for the network and its key
  Servers,           \* and for the server's address: seven characters or more
  Addresses,         \* those of Servers that ipaddr_aton understands
  Numbers,           \* and for a pin or a choice of pins
  MaxNetworks,       \* entries of networks: 16
  Blank, Other,      \* nothing, and what an earlier version has put there
  NoUart

ASSUME EntriesAssumption ==
  /\ Blank \notin Ssids \cup Keys \cup Servers
  /\ Other \notin Ssids \cup Keys \cup Servers \cup {Blank}
  /\ Addresses \subseteq Servers
  /\ Numbers \subseteq Nat
  /\ MaxNetworks \in Nat

VARIABLES
  pc,           \* where main is
  mounted,      \* the flash file system is
  file,         \* the file "config"
  config,       \* wifi_ssid, wifi_psk, wifi_auth, tftp_server_ip, hardwaremode
  configured,
  networks,     \* the names in networks, wifi_network_count of them
  tftp,         \* the engine was started
  uart,         \* what duart_init set up
  typed,        \* history: what was last typed in the wizard
  saved,        \* history: what was saved last, and not removed by c
  failed,       \* history: a mount failed since, or an open, or no version was read
  short,        \* history: main has gone to work with fields it did not read
  erased        \* history: c was pressed, pico_remove did not fail, and no
                \* wizard was answered since

history == <<typed, saved, failed, short, erased>>
conf_vars ==
  <<pc, mounted, file, config, configured, networks, tftp, uart, history>>

Two24 == 16777216
CONFIG_VER == 3

Zeroed == [ssid |-> Blank, psk |-> Blank, auth |-> 0, server |-> Blank, hardwaremode |-> 0]
File(ver, c) == [ver |-> ver, config |-> c]
NoFile == File(-1, Zeroed)
Unwritten == File(0, Zeroed)     \* created, and never written
Foreign == File(CONFIG_VER - 1,
  [ssid |-> Other, psk |-> Other, auth |-> 1, server |-> Other, hardwaremode |-> 1])

Wizard == {"scan", "ssid", "auth", "key", "join", "server", "type", "pins",
           "create", "write"}

Nothing == [ssid |-> Blank, security |-> 0, psk |-> Blank, server |-> Blank,
            type |-> 0, tx |-> 0, rx |-> 0]

ConfStart ==
  /\ pc = "boot" /\ mounted = FALSE
  /\ file \in {NoFile, Foreign}
  /\ config = Zeroed /\ configured = FALSE /\ networks = <<>>
  /\ tftp = FALSE /\ uart = NoUart
  /\ typed = Nothing /\ saved = Nothing
  /\ failed = FALSE /\ short = FALSE /\ erased = FALSE

-----------------------------------------------------------------------------
\* main: the flash is mounted, or formatted first, and readConfig's outcome
\* decides between the wizard and the network.
Booted(c, whole) ==
  /\ pc = "boot"
  /\ config' = c /\ configured' = whole
  /\ pc' = IF whole THEN "connect" ELSE "scan"
  /\ UNCHANGED <<networks, tftp, uart, typed, saved, erased>>

\* Whatever was the matter with the flash, it is formatted; this may fail too,
\* before the file is gone or after.
MountFails ==
  /\ \/ mounted' = TRUE /\ file' = NoFile
     \/ mounted' = FALSE /\ file' \in {NoFile, file}
  /\ failed' = TRUE /\ UNCHANGED short
  /\ Booted(config, FALSE)

Mounted == mounted' = TRUE /\ UNCHANGED file

\* Any failure to open the file: there is none, or it cannot be read.
NotConfigured ==
  /\ Mounted
  /\ failed' = (failed \/ file # NoFile) /\ UNCHANGED short
  /\ Booted(config, FALSE)

\* Not even the version is read, from an unwritten file or because the read
\* fails: the configuration stays zeroed, and the version compared is whatever
\* the stack held.
ReadNothing ==
  /\ file # NoFile /\ Mounted
  /\ failed' = (failed \/ file # Unwritten)
  /\ \E whole \in BOOLEAN : short' = whole /\ Booted(config, whole)

\* The first n fields of c, in the order they are read.
Part(c, n) ==
  [ssid |-> IF n >= 1 THEN c.ssid ELSE Blank,
   psk |-> IF n >= 2 THEN c.psk ELSE Blank,
   auth |-> IF n >= 3 THEN c.auth ELSE 0,
   server |-> IF n >= 4 THEN c.server ELSE Blank,
   hardwaremode |-> IF n >= 5 THEN c.hardwaremode ELSE 0]

\* The version is read; of the five fields after it perhaps not all are, which
\* nobody notices.
ReadConfig ==
  /\ file \notin {NoFile, Unwritten} /\ Mounted
  /\ \E n \in 0 .. 5 :
       LET whole == file.ver = CONFIG_VER
       IN  short' = (whole /\ n < 5) /\ Booted(Part(file.config, n), whole)
  /\ UNCHANGED failed

-----------------------------------------------------------------------------
\* configWizard, one entry a step; an entry that is not accepted asks again.  With
\* the network's name all that was typed before is forgotten.
At(here, there) == pc = here /\ pc' = there
Kept == UNCHANGED <<mounted, file, configured, tftp, uart, saved, failed, short>>
Rest == Kept /\ UNCHANGED erased

\* scan_result: a network that is new, while there is room.
ScanResultAny(s) ==      \* mutant: the names are not compared
  /\ pc = "scan" /\ Len(networks) < MaxNetworks
  /\ networks' = Append(networks, s)
  /\ Rest /\ UNCHANGED <<pc, config, typed>>

ScanResult(s) ==
  /\ pc = "scan" /\ Len(networks) < MaxNetworks
  /\ \A k \in DOMAIN networks : networks[k] # s
  /\ networks' = Append(networks, s)
  /\ Rest /\ UNCHANGED <<pc, config, typed>>

ScanDone == At("scan", "ssid") /\ Rest /\ UNCHANGED <<config, networks, typed>>

EnterSsid(s) ==
  /\ At("ssid", "auth")
  /\ config' = [config EXCEPT !.ssid = s] /\ typed' = [Nothing EXCEPT !.ssid = s]
  /\ Rest /\ UNCHANGED networks

\* Only [CR]: a scan again.
EnterNone ==
  /\ At("ssid", "scan")
  /\ config' = [config EXCEPT !.ssid = Blank] /\ networks' = <<>>
  /\ Rest /\ UNCHANGED typed

Auth(a) == a * 2097152 + a * 2      \* (a << 21) | (a << 1)

EnterAuthKeep(a) ==      \* mutant: wifi_psk is not cleared
  /\ At("auth", IF a = 0 THEN "join" ELSE "key")
  /\ config' = [config EXCEPT !.auth = Auth(a)]
  /\ typed' = [typed EXCEPT !.security = a, !.psk = Blank]
  /\ Rest /\ UNCHANGED networks

EnterAuth(a) ==
  /\ At("auth", IF a = 0 THEN "join" ELSE "key")
  /\ config' = [config EXCEPT !.auth = Auth(a), !.psk = IF a = 0 THEN Blank ELSE @]
  /\ typed' = [typed EXCEPT !.security = a, !.psk = Blank]
  /\ Rest /\ UNCHANGED networks

EnterKey(k) ==
  /\ At("key", "join")
  /\ config' = [config EXCEPT !.psk = k] /\ typed' = [typed EXCEPT !.psk = k]
  /\ Rest /\ UNCHANGED networks

\* wifiConnect; when it fails everything is asked anew.
Join ==
  /\ \/ At("join", "server") /\ UNCHANGED networks
     \/ At("join", "scan") /\ networks' = <<>>
  /\ Rest /\ UNCHANGED <<config, typed>>

EnterServer(s) ==
  /\ At("server", "type")
  /\ config' = [config EXCEPT !.server = s] /\ typed' = [typed EXCEPT !.server = s]
  /\ Rest /\ UNCHANGED networks

EnterType(t) ==
  /\ At("type", "pins")
  /\ config' = [config EXCEPT !.hardwaremode = t * Two24]
  /\ typed' = [typed EXCEPT !.type = t]
  /\ Rest /\ UNCHANGED networks

\* Nothing was or-ed into hardwaremode before an entry is accepted.
Type(hardwaremode) == hardwaremode \div Two24
Pins(low) ==
  /\ At("pins", "create") /\ erased' = FALSE
  /\ config' = [config EXCEPT !.hardwaremode = @ + low]
  /\ Kept /\ UNCHANGED networks

\* The pins the wizard prints for each choice of a hardware UART.
Offered(t) == IF t = 0 THEN <<0, 12, 16, 28>> ELSE <<4, 8, 20, 24>>

EnterChoice(n) ==
  LET t == Type(config.hardwaremode)
      first == Offered(t)[n + 1]
  IN  /\ t \in {0, 1} /\ n <= 3
      /\ Pins(n)
      /\ typed' = [typed EXCEPT !.tx = first, !.rx = first + 1]

EnterPins(tx, rx) ==
  LET t == Type(config.hardwaremode)
      most == IF t = 2 THEN 28 ELSE 29
  IN  /\ t \in {2, 3} /\ tx <= most /\ rx <= most
      /\ Pins(tx * 256 + rx)
      /\ typed' = [typed EXCEPT !.tx = tx, !.rx = rx]

-----------------------------------------------------------------------------
\* writeConfig: pico_open, which may fail; then the writes and pico_close.  If
\* one of these fails nobody notices, and the file stays as it was.
Configured == pc' = "startup" /\ configured' = TRUE
Unasked == UNCHANGED <<mounted, config, networks, tftp, uart, typed, short, erased>>

OpenConfig ==
  /\ pc = "create"
  /\ \/ Configured /\ UNCHANGED file
     \/ /\ mounted /\ pc' = "write" /\ UNCHANGED configured
        /\ file' = IF file = NoFile THEN Unwritten ELSE file
  /\ Unasked /\ UNCHANGED <<saved, failed>>

Saves(ver) ==
  /\ pc = "write" /\ Configured
  /\ \/ UNCHANGED <<file, saved, failed>>
     \/ file' = File(ver, config) /\ saved' = typed /\ failed' = FALSE
  /\ Unasked

WriteConfigOld == Saves(CONFIG_VER - 1)      \* mutant: not the version readConfig wants

WriteConfig == Saves(CONFIG_VER)

WizardStep ==
  \/ \E s \in Ssids : ScanResult(s) \/ EnterSsid(s)
  \/ ScanDone \/ EnterNone \/ Join \/ OpenConfig \/ WriteConfig
  \/ \E a \in 0 .. 2 : EnterAuth(a)
  \/ \E k \in Keys : EnterKey(k)
  \/ \E s \in Servers : EnterServer(s)
  \/ \E t \in 0 .. 3 : EnterType(t)
  \/ \E n \in Numbers : EnterChoice(n)
  \/ \E tx, rx \in Numbers : EnterPins(tx, rx)

-----------------------------------------------------------------------------
\* wifiConnect of a configured gateway: main does not look at its outcome.
Connect ==
  /\ At("connect", "startup")
  /\ UNCHANGED <<mounted, file, config, configured, networks, tftp, uart, history>>

\* duart_init: what it makes of hardwaremode.
UartPins(t, low) ==
  LET first == (IF t = 0 THEN <<0, 12, 16, 28>> ELSE <<4, 8, 20, 24>>)[(low % 4) + 1]
  IN  IF t <= 1 THEN [type |-> t, tx |-> first, rx |-> first + 1]
      ELSE [type |-> t, tx |-> (low \div 256) % 32, rx |-> low % 32]
Wired(hardwaremode) == UartPins(Type(hardwaremode), hardwaremode % Two24)

\* tftpStartup, which gives up on an address it cannot read and may fail to
\* start the engine, then duart_init.
Startup ==
  /\ At("startup", "loop")
  /\ tftp' \in BOOLEAN /\ (tftp' => config.server \in Addresses)
  /\ uart' = Wired(config.hardwaremode)
  /\ UNCHANGED <<mounted, file, config, configured, networks, history>>

\* A reset: what is in RAM is gone.
Reset ==
  /\ pc' = "boot" /\ mounted' = FALSE /\ config' = Zeroed /\ configured' = FALSE
  /\ networks' = <<>> /\ tftp' = FALSE /\ uart' = NoUart /\ short' = FALSE
  /\ UNCHANGED <<typed, failed>>

Reboot == pc = "loop" /\ Reset /\ UNCHANGED <<file, saved, erased>>

\* Key c: pico_remove, whose outcome main does not look at, then the same.
Removes(after) ==
  /\ pc = "loop" /\ Reset
  /\ \/ mounted /\ file' = after /\ saved' = Nothing /\ erased' = TRUE
     \/ UNCHANGED <<file, saved, erased>>

ReconfigureKeep == Removes(file)      \* mutant: it is not "config" that is removed

Reconfigure == Removes(NoFile)

PowerLoss == pc # "boot" /\ Reset /\ UNCHANGED <<file, saved, erased>>

ConfNext ==
  \/ MountFails \/ NotConfigured \/ ReadNothing \/ ReadConfig
  \/ WizardStep \/ Connect \/ Startup
  \/ Reboot \/ Reconfigure \/ PowerLoss

ConfSpec == ConfStart /\ [][ConfNext]_conf_vars

-----------------------------------------------------------------------------
Configs ==
  [ssid : Ssids \cup {Blank, Other}, psk : Keys \cup {Blank, Other},
   auth : {1} \cup {Auth(a) : a \in 0 .. 2},
   server : Servers \cup {Blank, Other}, hardwaremode : Nat]

Typings ==
  [ssid : Ssids \cup {Blank}, security : 0 .. 2, psk : Keys \cup {Blank},
   server : Servers \cup {Blank}, type : 0 .. 3, tx : Nat, rx : Nat]

\* Type invariant of the configuration, in RAM and on the flash; the list of
\* networks has no name twice.
ConfTypeOK ==
  /\ pc \in Wizard \cup {"boot", "connect", "startup", "loop"}
  /\ file \in [ver : {-1, 0, CONFIG_VER - 1, CONFIG_VER}, config : Configs]
  /\ config \in Configs
  /\ typed \in Typings /\ saved \in Typings
  /\ {mounted, configured, tftp, failed, short, erased} \subseteq BOOLEAN
  /\ networks \in Seq(Ssids) /\ Len(networks) <= MaxNetworks
  /\ \A j, k \in DOMAIN networks : networks[j] = networks[k] => j = k

\* What the wizard makes of t, its hardwaremode apart, and what a line is for t.
Entered(t) ==
  [ssid |-> t.ssid, psk |-> t.psk, auth |-> Auth(t.security), server |-> t.server,
   hardwaremode |-> 0]
Agrees(c, t) == [c EXCEPT !.hardwaremode = 0] = Entered(t)
Line(t) == [type |-> t.type, tx |-> t.tx, rx |-> t.rx]

WorksWith(t) == Agrees(config, t) /\ uart = Line(t)

\* A gateway at work has the configuration last typed in, whole, and its serial
\* line on the pins that were typed or offered: never a key left over from a
\* network tried before, nor part of another version's file, whatever was
\* refused, failed or lost in between.  There are two ways out.  If the flash
\* has failed since the configuration was saved, it may be that one, again
\* whole, and not what the wizard was told later.  And if main has gone to work
\* with fields it did not read, it is a first part of the saved one.
AsTyped ==
  pc = "loop" =>
    \/ WorksWith(typed)
    \/ failed /\ WorksWith(saved)
    \/ /\ short /\ uart = Wired(0)
       /\ \E n \in 0 .. 4 : config = Part(Entered(saved), n)

\* What the wizard has saved is kept: it asks again only after c has removed the
\* file, or when since the file was saved a mount or an open of it failed, or
\* its version could not be read.
NotAskedAgain == pc \in Wizard => saved = Nothing \/ failed

\* "Press C to erase the config and reboot, restarting the wizard": unless
\* pico_remove fails, the gateway is not at work again before the wizard was
\* answered to its end, whatever else fails and even if power is lost meanwhile.
EraseRestartsWizard == erased => pc \in Wizard \cup {"boot"}
=============================================================================
