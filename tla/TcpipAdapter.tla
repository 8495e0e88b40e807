----------------------------- MODULE TcpipAdapter -----------------------------
(***************************************************************************)
(* The TCP/IP adapter (espressif_code/tcpip_adapter/tcpip_adapter.c): what *)
(* the Wi-Fi library (external) believes is lwIP, in a program that runs   *)
(* FreeRTOS+TCP.  Little more than up, down and the old address is behind  *)
(* it; the address a lease brings goes around it, from the network event   *)
(* hook of main.c to the event loop.                                       *)
(***************************************************************************)
EXTENDS Naturals, Sequences

CONSTANTS
    Addresses,   \* bound: the addresses a lease may bring
    Stations,    \* bound: the stations of a soft access point
    EventLoop    \* bound: events that wait to be handled

(* tcpip_adapter_if_t; IF_MAX is what a caller may pass by mistake.        *)
Interfaces == {"STA", "AP", "ETH"}
InterfaceArgs == Interfaces \cup {"IF_MAX"}

(* tcpip_adapter_dhcp_status_t                                             *)
DhcpStatus == {"INIT", "STARTED", "STOPPED"}

NoAddress == "none"

VARIABLES
    tcpip_inited,
    esp_ip_old,   \* of each interface
    network,      \* the IP task of FreeRTOS+TCP: "down", "asking", "up"
    events,       \* the addresses of the GOT_IP events that wait
    out           \* what the last call gave its caller

netVars == <<tcpip_inited, esp_ip_old, network, events, out>>

Ok(value) == [err |-> "ESP_OK", value |-> value]
Invalid == [err |-> "INVALID_PARAMS", value |-> {}]
NotReady == [err |-> "IF_NOT_READY", value |-> {}]

NetInit ==
    /\ tcpip_inited = FALSE
    /\ esp_ip_old = [i \in Interfaces |-> NoAddress]
    /\ network = "down"
    /\ events = <<>>
    /\ out = Ok({})

(* Variables nothing in the file assigns.                                  *)
dhcps_status == "INIT"
dhcpc_status == [i \in Interfaces |-> "INIT"]
esp_netif == [i \in Interfaces |-> "NULL"]

Returns(result) ==
    /\ out' = result
    /\ UNCHANGED <<tcpip_inited, esp_ip_old, network, events>>

-----------------------------------------------------------------------------
(* The adapter                                                             *)

AdapterInit ==
    /\ tcpip_inited' = TRUE
    /\ UNCHANGED <<esp_ip_old, network, events, out>>

(* start, stop and their variants; DHCP options, DNS, IP information; the  *)
(* DHCP client; the host name: ESP_OK, and nothing behind it.              *)
InterfaceStubs == Returns(Ok({}))
InfoStubs == Returns(Ok({}))
DhcpcStubs == Returns(Ok({}))
HostnameStubs == Returns(Ok({}))

AdapterUp ==
    /\ network' = IF network = "down" THEN "asking" ELSE network
    /\ out' = Ok({})
    /\ UNCHANGED <<tcpip_inited, esp_ip_old, events>>

AdapterDown ==
    /\ network' = "down"
    /\ out' = Ok({})
    /\ UNCHANGED <<tcpip_inited, esp_ip_old, events>>

(* The form for the TCP/IP task stores the address.                        *)
SetOldIpInfoApi ==
    \E i \in Interfaces, a \in Addresses :
        /\ esp_ip_old' = [esp_ip_old EXCEPT ![i] = a]
        /\ out' = Ok({})
        /\ UNCHANGED <<tcpip_inited, network, events>>

(* The form for everyone else only looks at its parameters.                *)
SetOldIpInfo ==
    \E i \in InterfaceArgs : Returns(IF i \in Interfaces THEN Ok({}) ELSE Invalid)

GetOldIpInfo ==
    \E i \in InterfaceArgs :
        Returns(IF i \in Interfaces THEN Ok({esp_ip_old[i]}) ELSE Invalid)

DhcpsGetStatus == Returns(Ok({dhcps_status}))

(* The interface is not checked; nobody passes one that is not there.      *)
DhcpcGetStatus == \E i \in Interfaces : Returns(Ok({dhcpc_status[i]}))

(* sta_input and ap_input: wlanif_input (external) gets a null pointer and *)
(* hands the buffer to FreeRTOS+TCP.                                       *)
Input == \E i \in {"STA", "AP"} : Returns(Ok({}))

(* Every interface is NULL: a device that is NULL is the station, any      *)
(* other is none.                                                          *)
GetEspIf ==
    \E dev \in {"NULL", "other"} :
        Returns(Ok({IF dev = esp_netif["STA"] THEN "ESP_IF_WIFI_STA"
                    ELSE IF dev = esp_netif["AP"] THEN "ESP_IF_WIFI_AP"
                    ELSE IF dev = esp_netif["ETH"] THEN "ESP_IF_ETH"
                    ELSE "ESP_IF_MAX"}))

(* The MAC addresses are copied; no IP address is there to be looked up.   *)
GetStaList ==
    \/ Returns(Invalid)
    \/ \E list \in SUBSET Stations : Returns(Ok(list))

GetNetif ==
    \E i \in InterfaceArgs :
        Returns(CASE i \notin Interfaces -> Invalid
                  [] i \in Interfaces /\ esp_netif[i] = "NULL" -> NotReady
                  [] OTHER -> Ok({esp_netif[i]}))

-----------------------------------------------------------------------------
(* main.c: vApplicationIPNetworkEventHook, called by the IP task.  It does *)
(* not look at what esp_event_send returns: an event may be lost.          *)

NetworkEventHook(eNetworkUp) ==
    IF eNetworkUp
    THEN \E a \in Addresses :
            \/ Len(events) < EventLoop /\ events' = Append(events, a)
            \/ UNCHANGED events
    ELSE UNCHANGED events

(* The IP task (external) got a lease, or lost the network.                *)
InterfaceUp ==
    /\ network = "asking" /\ network' = "up"
    /\ NetworkEventHook(TRUE)
    /\ UNCHANGED <<tcpip_inited, esp_ip_old, out>>

NetworkDown ==
    /\ network = "up" /\ network' = "down"
    /\ NetworkEventHook(FALSE)
    /\ UNCHANGED <<tcpip_inited, esp_ip_old, out>>

(* The event loop (external) takes the address.                            *)
HandleEvent ==
    /\ events # <<>>
    /\ events' = Tail(events)
    /\ UNCHANGED <<tcpip_inited, esp_ip_old, network, out>>

NetNext ==
    \/ AdapterInit \/ AdapterUp \/ AdapterDown
    \/ InterfaceStubs \/ InfoStubs \/ DhcpcStubs \/ HostnameStubs
    \/ SetOldIpInfoApi \/ SetOldIpInfo \/ GetOldIpInfo
    \/ DhcpsGetStatus \/ DhcpcGetStatus
    \/ Input \/ GetEspIf \/ GetStaList \/ GetNetif
    \/ InterfaceUp \/ NetworkDown \/ HandleEvent
===============================================================================
