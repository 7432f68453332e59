----------------------------- MODULE NetMonitor -----------------------------
(***************************************************************************)
(* Ethernet or WiFi: what app_main brings up at boot and what the network  *)
(* monitor task switches afterwards (main/main.cpp).  WiFi is a PPP link   *)
(* to the ESP32-C6 coprocessor and a control UART over which the           *)
(* coprocessor is told which network to join; the web interface can tell   *)
(* it too.                                                                 *)
(*                                                                         *)
(* Setting the PPP link up waits for the coprocessor and an address;       *)
(* without a coprocessor it does not come to an end.                       *)
(***************************************************************************)
EXTENDS Naturals

VARIABLES
  coprocessor, (* there is a coprocessor that answers; never changes        *)
  linkFails,(* setting up link or UART or a command may fail, and the link  *)
            (* may lose its address; never changes                          *)
  eth,      (* Ethernet has an address                                      *)
  cred,     (* a WiFi network is stored (wifi_enabled and an SSID)          *)
  wifi,     (* the PPP link is set up (wifi_c6.cpp's s_initialized)         *)
  ip,       (* ... and has an address                                       *)
  ctrl,     (* the control UART is set up (wifi_c6_ctrl.cpp's)              *)
  told,     (* the coprocessor has been told the network since the link is  *)
            (* up                                                           *)
  mdns,     (* mdns_start has been called                                   *)
  boot,     (* where app_main is                                            *)
  monitor,  (* where the monitor task is                                    *)
  ethWas,   (* eth_was_connected                                            *)
  wifiWas,  (* wifi_was_active                                              *)
  web       (* where the web request to join a network is                   *)

world == <<coprocessor, linkFails>>
link  == <<wifi, ip, ctrl, told>>
vars  == <<world, eth, cred, link, mdns, boot, monitor, ethWas, wifiWas, web>>

Init ==
  /\ coprocessor \in BOOLEAN
  /\ linkFails \in BOOLEAN
  /\ eth \in BOOLEAN
  /\ cred \in BOOLEAN
  /\ wifi = FALSE /\ ip = FALSE /\ ctrl = FALSE /\ told = FALSE /\ mdns = FALSE
  /\ boot = "wait"
  /\ monitor = "none"
  /\ ethWas = FALSE /\ wifiWas = FALSE
  /\ web = "idle"

(* The cable, at any time.                                                 *)
Cable ==
  /\ eth' = ~eth
  /\ UNCHANGED <<world, cred, link, mdns, boot, monitor, ethWas, wifiWas, web>>

(* The PPP link loses its address and gets one again.                      *)
Address ==
  /\ wifi /\ linkFails
  /\ ip' = ~ip
  /\ UNCHANGED <<world, eth, cred, wifi, ctrl, told, mdns, boot, monitor,
                 ethWas, wifiWas, web>>

-----------------------------------------------------------------------------
(* wifi_c6_init, which does nothing if done before, and wifi_c6_ctrl_init, *)
(* whose result nobody looks at.                                           *)
LinkUp ==
  /\ coprocessor
  /\ wifi' = TRUE
  /\ ip' = (wifi => ip)
  /\ ctrl' = TRUE \/ (linkFails /\ ctrl' = ctrl)

(* wifi_c6_init reports an error.                                          *)
LinkFailed == coprocessor /\ linkFails /\ ~wifi

(* wifi_c6_sta_start, if a network is stored: it sets the UART up if need  *)
(* be; the coprocessor may have got a command that fails, or not.          *)
TellNetwork ==
  \/ cred /\ ctrl' = TRUE /\ told' = TRUE
  \/ cred /\ linkFails /\ ctrl' \in {ctrl, TRUE} /\ told' \in {told, ctrl'}
  \/ ~cred /\ UNCHANGED <<ctrl, told>>

-----------------------------------------------------------------------------
(* app_main.                                                               *)

(* Up to ten seconds of waiting for Ethernet end with or without it.       *)
BootEth ==
  /\ boot = "wait"
  /\ eth
  /\ mdns' = TRUE
  /\ boot' = "rest"
  /\ UNCHANGED <<world, eth, cred, link, monitor, ethWas, wifiWas, web>>

(* Then WiFi is brought up.                                                *)
BootNoEth ==
  /\ boot = "wait"
  /\ ~eth
  /\ boot' = "wifi"
  /\ UNCHANGED <<world, eth, cred, link, mdns, monitor, ethWas, wifiWas, web>>

BootWifi ==
  /\ boot = "wifi"
  /\ LinkUp
  /\ boot' = "join"
  /\ UNCHANGED <<world, eth, cred, told, mdns, monitor, ethWas, wifiWas, web>>

(* Mutation: app_main gives up when WiFi does.                             *)
BootWifiFailReturns ==
  /\ boot = "wifi"
  /\ LinkFailed
  /\ boot' = "done"
  /\ UNCHANGED <<world, eth, cred, link, mdns, monitor, ethWas, wifiWas, web>>

(* The boot goes on without WiFi.                                          *)
BootWifiFail ==
  /\ boot = "wifi"
  /\ LinkFailed
  /\ boot' = "rest"
  /\ UNCHANGED <<world, eth, cred, link, mdns, monitor, ethWas, wifiWas, web>>

(* Join the stored network, wait 3 s, and announce the name if the link    *)
(* has an address.                                                         *)
BootJoin ==
  /\ boot = "join"
  /\ TellNetwork
  /\ mdns' = ip
  /\ boot' = "rest"
  /\ UNCHANGED <<world, eth, cred, wifi, ip, monitor, ethWas, wifiWas, web>>

(* Discovery, the Snapcast client, effects, MQTT, and the monitor task.    *)
BootRest ==
  /\ boot = "rest"
  /\ boot' = "done"
  /\ monitor' = "sleep"
  /\ UNCHANGED <<world, eth, cred, link, mdns, ethWas, wifiWas, web>>

-----------------------------------------------------------------------------
(* network_monitor_task, every five seconds.                               *)

(* wifi_c6_deinit and wifi_c6_ctrl_deinit.                                 *)
LinkDown == wifi' = FALSE /\ ip' = FALSE /\ ctrl' = FALSE /\ told' = FALSE

(* Mutations: WiFi is left up next to Ethernet; the name is announced only *)
(* when there was WiFi before.                                             *)
SeeEthKeepingLink ==
  /\ monitor = "sleep"
  /\ eth /\ ~ethWas
  /\ ethWas' = TRUE
  /\ mdns' = TRUE
  /\ UNCHANGED <<world, eth, cred, link, boot, monitor, wifiWas, web>>

SeeEthUnnamed ==
  /\ monitor = "sleep"
  /\ eth /\ ~ethWas
  /\ IF wifiWas THEN LinkDown ELSE UNCHANGED link
  /\ wifiWas' = FALSE
  /\ ethWas' = TRUE
  /\ mdns' = (mdns \/ wifiWas)
  /\ UNCHANGED <<world, eth, cred, boot, monitor, web>>

(* Ethernet has come: a link the monitor knows of is taken down.           *)
SeeEth ==
  /\ monitor = "sleep"
  /\ eth /\ ~ethWas
  /\ IF wifiWas THEN LinkDown ELSE UNCHANGED link
  /\ wifiWas' = FALSE
  /\ ethWas' = TRUE
  /\ mdns' = TRUE
  /\ UNCHANGED <<world, eth, cred, boot, monitor, web>>

(* Ethernet has gone.                                                      *)
SeeNoEth ==
  /\ monitor = "sleep"
  /\ ~eth /\ ethWas
  /\ ethWas' = FALSE
  /\ monitor' = IF wifiWas THEN "sleep" ELSE "enable"
  /\ UNCHANGED <<world, eth, cred, link, mdns, boot, wifiWas, web>>

(* Neither is there.                                                       *)
SeeNothing ==
  /\ monitor = "sleep"
  /\ ~eth /\ ~ethWas /\ ~wifiWas
  /\ monitor' = "try"
  /\ UNCHANGED <<world, eth, cred, link, mdns, boot, ethWas, wifiWas, web>>

MonitorWifi ==
  /\ monitor \in {"enable", "try"}
  /\ LinkUp
  /\ wifiWas' = TRUE
  /\ monitor' = IF monitor = "enable" THEN "join" ELSE "tryjoin"
  /\ UNCHANGED <<world, eth, cred, told, mdns, boot, ethWas, web>>

(* Mutation: the flag is set before the result is known.                   *)
MonitorWifiFailActive ==
  /\ monitor \in {"enable", "try"}
  /\ LinkFailed
  /\ wifiWas' = TRUE
  /\ monitor' = "sleep"
  /\ UNCHANGED <<world, eth, cred, link, mdns, boot, ethWas, web>>

(* The next look tries again.                                              *)
MonitorWifiFail ==
  /\ monitor \in {"enable", "try"}
  /\ LinkFailed
  /\ monitor' = "sleep"
  /\ UNCHANGED <<world, eth, cred, link, mdns, boot, ethWas, wifiWas, web>>

(* Mutation: the network is told only after Ethernet has gone.             *)
MonitorJoinOnce ==
  /\ monitor \in {"join", "tryjoin"}
  /\ IF monitor = "join" THEN TellNetwork ELSE UNCHANGED <<ctrl, told>>
  /\ mdns' = (mdns \/ (monitor = "join" /\ ip))
  /\ monitor' = "sleep"
  /\ UNCHANGED <<world, eth, cred, wifi, ip, boot, ethWas, wifiWas, web>>

(* Only after Ethernet has gone is the name announced again, if the link   *)
(* has an address.                                                         *)
MonitorJoin ==
  /\ monitor \in {"join", "tryjoin"}
  /\ TellNetwork
  /\ mdns' = (mdns \/ (monitor = "join" /\ ip))
  /\ monitor' = "sleep"
  /\ UNCHANGED <<world, eth, cred, wifi, ip, boot, ethWas, wifiWas, web>>

-----------------------------------------------------------------------------
(* POST /api/wifi/connect, in the web server's task: nothing keeps the     *)
(* monitor from taking link and UART down between its steps.               *)

(* Is the control UART there?                                              *)
WebCheck ==
  /\ web = "idle"
  /\ ctrl
  /\ web' = "start"
  /\ UNCHANGED <<world, eth, cred, link, mdns, boot, monitor, ethWas, wifiWas>>

(* wifi_c6_sta_start: is the link there?  The UART is set up if it has     *)
(* gone.                                                                   *)
WebStart ==
  /\ web = "start"
  /\ wifi
  /\ ctrl' = TRUE
  /\ web' = "send"
  /\ UNCHANGED <<world, eth, cred, wifi, ip, told, mdns, boot, monitor,
                 ethWas, wifiWas>>

WebSend ==
  /\ web = "send"
  /\ ctrl
  /\ told' = wifi
  /\ web' = "answer"
  /\ UNCHANGED <<world, eth, cred, wifi, ip, ctrl, mdns, boot, monitor, ethWas,
                 wifiWas>>

(* There is an answer; the handler waits 5 s and stores the network.       *)
WebAnswer ==
  /\ web = "answer"
  /\ ctrl
  /\ web' = "save"
  /\ UNCHANGED <<world, eth, cred, link, mdns, boot, monitor, ethWas, wifiWas>>

WebFail ==
  /\ \/ web = "start" /\ (~wifi \/ (~ctrl /\ linkFails))
     \/ web = "send" /\ (~ctrl \/ linkFails)
     \/ web = "answer"
  /\ web' = "idle"
  /\ UNCHANGED <<world, eth, cred, link, mdns, boot, monitor, ethWas, wifiWas>>

WebSave ==
  /\ web = "save"
  /\ cred' = TRUE
  /\ web' = "idle"
  /\ UNCHANGED <<world, eth, link, mdns, boot, monitor, ethWas, wifiWas>>

-----------------------------------------------------------------------------
Boot == BootEth \/ BootNoEth \/ BootWifi \/ BootWifiFail \/ BootJoin \/ BootRest
Monitor ==
  SeeEth \/ SeeNoEth \/ SeeNothing \/ MonitorWifi \/ MonitorWifiFail \/ MonitorJoin
Web == WebCheck \/ WebStart \/ WebSend \/ WebAnswer \/ WebFail \/ WebSave

Next == Cable \/ Address \/ Boot \/ Monitor \/ Web

Spec == Init /\ [][Next]_vars

(* Tasks are scheduled; a link that is set up again and again comes up.    *)
LiveSpec == Spec /\ WF_vars(Boot) /\ WF_vars(Monitor) /\ SF_vars(MonitorWifi)
-----------------------------------------------------------------------------
(* Types, and where the boot is over before the monitor starts.            *)
TypeOK ==
  /\ {coprocessor, linkFails, eth, cred, wifi, ip, ctrl, told, mdns, ethWas,
      wifiWas} \subseteq BOOLEAN
  /\ boot \in {"wait", "wifi", "join", "rest", "done"}
  /\ monitor \in {"none", "sleep", "enable", "try", "join", "tryjoin"}
  /\ web \in {"idle", "start", "send", "answer", "save"}
  /\ boot = "done" <=> monitor # "none"

(* Without Ethernet the WiFi link comes up and stays, however the cable    *)
(* was plugged before and whatever failed, if there is a coprocessor       *)
(* (main.cpp:143-216).                                                     *)
WifiWithoutEth == coprocessor /\ <>[]~eth => <>[]wifi

(* Once the monitor has known a link, WiFi goes off when Ethernet comes to *)
(* stay (main.cpp:157-166).  The link of boot is not known to it: see      *)
(* README, disagreements.                                                  *)
WifiOffWithEth == <>wifiWas /\ <>[]eth => <>[]~wifi

(* IMPLEMENTATION_PLAN.md:7: without Ethernet the coprocessor joins the    *)
(* stored network; here: it is told it, at boot or when the link comes up  *)
(* again, if telling works (main.cpp:96-109, 165-205) and no request that  *)
(* stores a network meets a link taken down after it was told.             *)
NetworkTold ==
  /\ [](web = "save" => told)
  /\ <>[](coprocessor /\ ~linkFails /\ ~eth /\ cred)
  => <>[]told

(* README.md:63: the device is found at http://ledbrain.local; here:       *)
(* mdns_start is called once Ethernet has come for good and boot is over,  *)
(* whatever became of WiFi before (main.cpp:73-76, 157-175).               *)
NamedOnEthernet == <>(boot = "done") /\ <>[]eth => <>mdns
=============================================================================
