---------------------------- MODULE DeviceClient ----------------------------
(***************************************************************************)
(* The phone's library: client/nfc-device-client.js.  An NFCDeviceClient   *)
(* opens a WebSocket, registers on it with a hello, heartbeats while it is *)
(* registered and opens another when one closes.  The phone's bridge, the  *)
(* other end, is RemoteSessions.                                           *)
(*                                                                         *)
(* One JavaScript thread, as ClientSession; but here no handler asks       *)
(* whether its socket is still the client's, so a socket put aside goes on *)
(* writing the client's state.  Left out: delays, event handlers, payloads,*)
(* the promises of connect and register, and what is sent while registered *)
(* (scans, removals, answers, heartbeats), which changes nothing here.     *)
(***************************************************************************)
EXTENDS Integers, Sequences, FiniteSets

CONSTANTS
    MaxTries,       \* maxReconnectAttempts
    MaxLinks        \* bound: the sockets the client opens

ASSUME TriesOK == MaxTries \in Nat

VARIABLES
    links,          \* links[s]: the s-th socket: [state, v1, hello]
    link,           \* NFCDeviceClient.ws, 0 for null
    up,             \* connected
    deviceID,       \* the socket it was given on stands for the ID, 0 for null
    version,        \* protocolVersion
    beating,        \* _heartbeatTimer is set
    leaving,        \* intentionalDisconnect, which nothing clears
    tries,          \* reconnectAttempts
    retries,        \* reconnect timers that have yet to fire
    registering,    \* _pendingRequests: the hellos (by socket) that wait
    drops           \* history: closes since a socket last opened

deviceVars == <<links, link, up, deviceID, version, beating, leaving, tries,
                retries, registering, drops>>

(* hello: what the agent has of this socket's registration.                *)
Link == [state : {"connecting", "open", "closing", "closed"}, v1 : BOOLEAN,
         hello : {"none", "asked", "answered"}]

DeviceTypeOK ==
    /\ links \in Seq(Link) /\ Len(links) <= MaxLinks
    /\ link \in 0..Len(links) /\ deviceID \in 0..Len(links)
    /\ up \in BOOLEAN /\ beating \in BOOLEAN /\ leaving \in BOOLEAN
    /\ version \in {0, 1}
    /\ tries \in 0..MaxTries /\ retries \in Nat /\ drops \in Nat
    /\ registering \subseteq 1..Len(links)

DeviceInit ==
    /\ links = <<>> /\ link = 0
    /\ up = FALSE /\ deviceID = 0 /\ version = 0
    /\ beating = FALSE /\ leaving = FALSE
    /\ tries = 0 /\ retries = 0 /\ registering = {}
    /\ drops = 0

IsOpen(s) == s # 0 /\ links[s].state = "open"

(* connect; the agent it will reach speaks version 1 or does not.          *)
NewLink ==
    /\ Len(links) < MaxLinks
    /\ \E v1 \in BOOLEAN :
           links' = Append(links, [state |-> "connecting", v1 |-> v1, hello |-> "none"])
    /\ link' = Len(links) + 1
    /\ UNCHANGED <<up, deviceID, version, beating, leaving, tries, registering, drops>>

ConnectDevice == NewLink /\ UNCHANGED retries

RetryDue == retries > 0 /\ NewLink /\ retries' = retries - 1

(* Mutant: an opening leaves the attempts counted. *)
LinkOpenedTired(s) ==
    /\ links[s].state = "connecting"
    /\ links' = [links EXCEPT ![s].state = "open"]
    /\ up' = TRUE
    /\ drops' = 0
    /\ UNCHANGED <<link, deviceID, version, beating, leaving, tries, retries, registering>>

(***************************************************************************)
(* onopen: whichever socket opened, the hello goes out on the client's.    *)
(* On one that is still connecting the send throws.                        *)
(***************************************************************************)
LinkOpened(s) ==
    /\ links[s].state = "connecting"
    /\ LET opened == [links EXCEPT ![s].state = "open"]
           helloes == link # 0 /\ opened[link].state = "open"
       IN  /\ links' = IF helloes THEN [opened EXCEPT ![link].hello = "asked"] ELSE opened
           /\ registering' = IF helloes THEN registering \cup {link} ELSE registering
           /\ version' = IF helloes /\ opened[link].v1 THEN 1 ELSE 0
    /\ up' = TRUE
    /\ tries' = 0 /\ drops' = 0
    /\ UNCHANGED <<link, deviceID, beating, leaving, retries>>

(* _handleMessage: the answer to a hello, or its refusal; an answer to one *)
(* that timed out is dropped.                                              *)
HelloAnswered(s) ==
    /\ IsOpen(s) /\ links[s].hello = "asked"
    /\ links' = [links EXCEPT ![s].hello = "answered"]
    /\ registering' = registering \ {s}
    /\ IF s \in registering
       THEN \/ deviceID' = s /\ beating' = TRUE /\ UNCHANGED version    \* _startHeartbeat
            \/ UNCHANGED <<deviceID, beating, version>>
       ELSE UNCHANGED <<deviceID, beating, version>>
    /\ UNCHANGED <<link, up, leaving, tries, retries, drops>>

(* Ten seconds without an answer.                                          *)
HelloTimeout(s) ==
    /\ s \in registering
    /\ registering' = registering \ {s}
    /\ UNCHANGED <<links, link, up, deviceID, version, beating, leaving, tries,
                   retries, drops>>

(***************************************************************************)
(* onclose and _attemptReconnect, whichever socket closed.                 *)
(***************************************************************************)
LinkClosing(s) ==   \* the agent closes
    /\ IsOpen(s)
    /\ links' = [links EXCEPT ![s].state = "closing"]
    /\ UNCHANGED <<link, up, deviceID, version, beating, leaving, tries, retries,
                   registering, drops>>

LinkClosed(s) ==
    /\ links[s].state # "closed"
    /\ links' = [links EXCEPT ![s].state = "closed"]
    /\ up' = FALSE /\ deviceID' = 0 /\ version' = 0
    /\ beating' = FALSE         \* _stopHeartbeat
    /\ drops' = IF drops > MaxTries THEN drops ELSE drops + 1
    /\ IF ~leaving /\ tries < MaxTries
       THEN tries' = tries + 1 /\ retries' = retries + 1
       ELSE UNCHANGED <<tries, retries>>
    /\ UNCHANGED <<link, leaving, registering>>

(* disconnect: the close, after a goodbye if the agent understands one.     *)
DisconnectDevice ==
    /\ leaving' = TRUE
    /\ links' = IF link # 0 /\ links[link].state # "closed"
                THEN [links EXCEPT ![link].state = "closing"] ELSE links
    /\ up' = FALSE /\ deviceID' = 0 /\ version' = 0 /\ beating' = FALSE
    /\ link' = 0
    /\ UNCHANGED <<tries, retries, registering, drops>>

DeviceNext ==
    \/ ConnectDevice \/ RetryDue \/ DisconnectDevice
    \/ \E s \in 1..Len(links) :
           LinkOpened(s) \/ LinkClosing(s) \/ LinkClosed(s) \/ HelloAnswered(s) \/ HelloTimeout(s)

DeviceSpec == DeviceInit /\ [][DeviceNext]_deviceVars

(***************************************************************************)
(* Properties                                                              *)
(***************************************************************************)

(* A phone left without a socket and that never disconnected has a timer   *)
(* that opens another, until MaxTries of them in a row failed.  The events *)
(* of a socket put aside count as its own, so it takes all of them to be   *)
(* closed: one that opens late is taken for the client's (onclose, onopen, *)
(* _attemptReconnect).                                                     *)
PhoneKeepsTrying ==
    links # <<>> /\ ~leaving /\ (\A s \in 1..Len(links) : links[s].state = "closed") =>
        retries > 0 \/ drops > MaxTries

=============================================================================
