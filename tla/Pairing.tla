------------------------------ MODULE Pairing ------------------------------
(* Pairing, admission and revocation of devices, and the allowlist of      *)
(* browser origins, over restarts, crashes and saves that fail:            *)
(* secure/pairing, secure/tls/bootstrap.go and pairing.go, server/auth.go, *)
(* server/origin.go and origins.go, agent/pairingplugin and                *)
(* agent/serverplugin/origins.go.                                          *)
(*                                                                         *)
(* Both stores keep a set in memory, under a lock they also save it in,    *)
(* and write the whole of it over the file. A file cut short, by a write   *)
(* that failed or a crash, cannot be read back, and one that is whole may  *)
(* fail to be read at a start; the program then keeps what it has in       *)
(* memory and saves nothing more until it is started again.                *)
EXTENDS Integers, FiniteSets

CONSTANTS Devices,      \* identities, each minted once
          Conns,        \* device connections
          Handlers,     \* requests to the PIN gate
          Origins,      \* browser origins
          Shipped,      \* the origins allowed out of the box
          MaxFailures,  \* bootstrapMaxFailures
          Torn,         \* a file that cannot be parsed
          None

ASSUME PairingAssumption ==
    /\ Shipped \subseteq Origins
    /\ MaxFailures \in Nat \ {0}
    /\ IsFiniteSet(Handlers) /\ Handlers # {}
    /\ None \notin Devices
    /\ \A S \in (SUBSET Devices) \cup (SUBSET Origins) : S # Torn

VARIABLES devices,   \* the registry's map
          devFile,   \* paired-devices.json
          told,      \* devices that were answered with their token
          fleeting,  \* devices paired by a registry that ran without its file
          revoked,   \* devices whose revocation returned without an error
          asked,     \* devices whose revocation was asked for
          origins,   \* the allowlist
          orgFile,   \* allowed-origins.json
          barred,    \* origins whose revocation returned without an error
          unsaved,   \* those a store revoked that ran without its file
          volatile,  \* the stores that run without a file
          failed,    \* the gate's count of wrong PINs
          guesses,   \* wrong PINs answered since the PIN was set
          rotating,  \* the PIN is new and the count not yet reset
          handler,   \* where each request is, and the device it paired
          conn,      \* where each device connection is, and as whom
          revoking   \* a revocation between the registry and the sessions

devVars == <<devices, devFile, told, fleeting>>
orgVars == <<origins, orgFile, barred, unsaved>>
gateVars == <<failed, guesses, rotating>>
sessVars == <<conn, revoking, revoked, asked>>
vars == <<devVars, orgVars, volatile, gateVars, handler, sessVars>>

Idle == [at |-> "idle", dev |-> None]
Away == [at |-> "away", dev |-> None]
Nobody == [ids |-> {}, saved |-> TRUE]

Init ==
    /\ devices = {} /\ devFile = {} /\ told = {} /\ fleeting = {} /\ revoked = {} /\ asked = {}
    /\ origins = Shipped /\ orgFile = Shipped /\ barred = {} /\ unsaved = {}
    /\ volatile = {}
    /\ failed = 0 /\ guesses = 0 /\ rotating = FALSE
    /\ handler = [h \in Handlers |-> Idle]
    /\ conn = [c \in Conns |-> Away]
    /\ revoking = Nobody

(* saveLocked: what the file holds afterwards, and whether it was saved.   *)
(* The file is truncated before it is written, so a failure leaves it as   *)
(* it was or cut short.                                                    *)
Saves(store, content, file) ==
    IF store \in volatile THEN {[file |-> file, saved |-> TRUE]}
    ELSE {[file |-> content, saved |-> TRUE], [file |-> file, saved |-> FALSE], [file |-> Torn, saved |-> FALSE]}

---------------------------------------------------------------------------
(* The PIN gate.                                                           *)

(* A gate that allows as many failures as its maximum, and one more. *)
GateOneMore(h) ==
    /\ handler[h] = Idle
    /\ failed <= MaxFailures
    /\ handler' = [handler EXCEPT ![h].at = "counted"]
    /\ UNCHANGED <<devVars, orgVars, volatile, gateVars, sessVars>>

(* requirePIN as far as the count of failures. *)
Gate(h) ==
    /\ handler[h] = Idle
    /\ failed < MaxFailures
    /\ handler' = [handler EXCEPT ![h].at = "counted"]
    /\ UNCHANGED <<devVars, orgVars, volatile, gateVars, sessVars>>

(* A wrong PIN, counted when it has been compared. *)
WrongPIN(h) ==
    /\ handler[h].at = "counted"
    /\ failed' = failed + 1
    /\ guesses' = guesses + 1
    /\ handler' = [handler EXCEPT ![h] = Idle]
    /\ UNCHANGED <<devVars, orgVars, volatile, rotating, sessVars>>

(* The right PIN: to collect the certificate authority, which changes      *)
(* nothing, or to pair.                                                    *)
RightPIN(h) ==
    /\ handler[h].at = "counted"
    /\ \E next \in {"idle", "pairing"} : handler' = [handler EXCEPT ![h].at = next]
    /\ UNCHANGED <<devVars, orgVars, volatile, gateVars, sessVars>>

(* RotatePIN: the PIN first, the count after it. *)
SetPIN ==
    /\ ~rotating
    /\ rotating' = TRUE
    /\ guesses' = 0
    /\ UNCHANGED <<devVars, orgVars, volatile, failed, handler, sessVars>>

ResetFailures ==
    /\ rotating
    /\ rotating' = FALSE
    /\ failed' = 0
    /\ UNCHANGED <<devVars, orgVars, volatile, guesses, handler, sessVars>>

(* A pairing that answers without asking whether the device was saved. *)
PairAnyway(h) ==
    /\ handler[h].at = "pairing"
    /\ \E d \in Devices :
        /\ d \notin devices \cup told \cup asked /\ ~\E g \in Handlers : handler[g].dev = d
        /\ devFile # Torn => d \notin devFile
        /\ devices' = devices \cup {d}
        /\ fleeting' = IF "devices" \in volatile THEN fleeting \cup {d} ELSE fleeting \ {d}
        /\ \E s \in Saves("devices", devices', devFile) : devFile' = s.file
        /\ handler' = [handler EXCEPT ![h] = [at |-> "paired", dev |-> d]]
    /\ UNCHANGED <<told, orgVars, volatile, gateVars, sessVars>>

(* Registry.Pair: the device is in the registry whether or not it was      *)
(* saved; its token is answered only when it was.                          *)
Pair(h) ==
    /\ handler[h].at = "pairing"
    /\ \E d \in Devices :
        /\ d \notin devices \cup told \cup asked /\ ~\E g \in Handlers : handler[g].dev = d
        /\ devFile # Torn => d \notin devFile
        /\ devices' = devices \cup {d}
        /\ fleeting' = IF "devices" \in volatile THEN fleeting \cup {d} ELSE fleeting \ {d}
        /\ \E s \in Saves("devices", devices', devFile) :
            /\ devFile' = s.file
            /\ handler' = [handler EXCEPT ![h] = IF s.saved THEN [at |-> "paired", dev |-> d] ELSE Idle]
    /\ UNCHANGED <<told, orgVars, volatile, gateVars, sessVars>>

(* The answer that carries the token, which may be lost on its way. *)
Answer(h) ==
    /\ handler[h].at = "paired"
    /\ told' = told \cup {handler[h].dev} \/ UNCHANGED told
    /\ handler' = [handler EXCEPT ![h] = Idle]
    /\ UNCHANGED <<devices, devFile, fleeting, orgVars, volatile, gateVars, sessVars>>

---------------------------------------------------------------------------
(* Admission and revocation.                                               *)

(* VerifyToken: the devices whose token it recognises. *)
Recognised == told \cap devices

(* The gate admits a device on the token it presents. The shared secret    *)
(* and the loopback bypass name nobody.                                    *)
Verify(c) ==
    /\ conn[c] = Away
    /\ \E d \in Recognised : conn' = [conn EXCEPT ![c] = [at |-> "admitted", dev |-> d]]
    /\ UNCHANGED <<devVars, orgVars, volatile, gateVars, handler, revoking, revoked, asked>>

(* The device is registered under the identity it was admitted under, over *)
(* any session it held.                                                    *)
Register(c) ==
    /\ conn[c].at = "admitted"
    /\ conn' = [x \in Conns |->
                  IF x = c THEN [conn[c] EXCEPT !.at = "session"]
                  ELSE IF conn[x] = [at |-> "session", dev |-> conn[c].dev] THEN Away ELSE conn[x]]
    /\ UNCHANGED <<devVars, orgVars, volatile, gateVars, handler, revoking, revoked, asked>>

Leave(c) ==
    /\ conn[c] # Away
    /\ conn' = [conn EXCEPT ![c] = Away]
    /\ UNCHANGED <<devVars, orgVars, volatile, gateVars, handler, revoking, revoked, asked>>

(* An origin removed from memory after the list was saved. *)
RevokeOriginLate(o) ==
    /\ origins' = origins \ {o}
    /\ \E s \in Saves("origins", origins, orgFile) :
        /\ orgFile' = s.file
        /\ barred' = IF s.saved THEN barred \cup {o} ELSE barred
        /\ unsaved' = IF "origins" \in volatile THEN unsaved \cup {o}
                      ELSE IF s.saved THEN unsaved \ {o} ELSE unsaved
    /\ UNCHANGED <<devVars, volatile, gateVars, handler, sessVars>>

(* Revoke of one device, known or not, or RevokeAll: out of the registry,  *)
(* and saved, by the one operator there is.                                *)
Revoke(ids) ==
    /\ revoking = Nobody
    /\ devices' = devices \ ids
    /\ asked' = asked \cup (ids \cap devices)
    /\ \E s \in Saves("devices", devices', devFile) :
        /\ devFile' = s.file
        /\ revoking' = [ids |-> ids \cap devices, saved |-> s.saved]
    /\ UNCHANGED <<told, fleeting, orgVars, volatile, gateVars, handler, conn, revoked>>

(* The sessions of the devices revoked end, and Revoke returns. *)
EndSessions ==
    /\ revoking # Nobody
    /\ conn' = [c \in Conns |->
                  IF conn[c].at = "session" /\ conn[c].dev \in revoking.ids THEN Away ELSE conn[c]]
    /\ revoked' = IF revoking.saved THEN revoked \cup revoking.ids ELSE revoked
    /\ revoking' = Nobody
    /\ UNCHANGED <<devVars, orgVars, volatile, gateVars, handler, asked>>

---------------------------------------------------------------------------
(* The allowlist.                                                          *)

AllowOrigin(o) ==
    /\ origins' = origins \cup {o}
    /\ \E s \in Saves("origins", origins', orgFile) : orgFile' = s.file
    /\ barred' = barred \ {o} /\ unsaved' = unsaved \ {o}
    /\ UNCHANGED <<devVars, volatile, gateVars, handler, sessVars>>

RevokeOrigin(o) ==
    /\ origins' = origins \ {o}
    /\ \E s \in Saves("origins", origins', orgFile) :
        /\ orgFile' = s.file
        /\ barred' = IF s.saved THEN barred \cup {o} ELSE barred
        /\ unsaved' = IF "origins" \in volatile THEN unsaved \cup {o}
                      ELSE IF s.saved THEN unsaved \ {o} ELSE unsaved
    /\ UNCHANGED <<devVars, volatile, gateVars, handler, sessVars>>

---------------------------------------------------------------------------
(* The program ends, at any point, and is started again: NewRegistry and   *)
(* NewOriginStore read the files.  A file cut short cannot be parsed, and  *)
(* any file may fail to be read; a store that could not is replaced by one *)
(* without a file, which for the origins holds those shipped, and leaves   *)
(* the file as it is for the next start.                                   *)
Unreadable == {s \in {"devices", "origins"} : (IF s = "devices" THEN devFile ELSE orgFile) = Torn}
DevicesRead(unread) == IF "devices" \in unread THEN {} ELSE devFile
OriginsRead(unread) == IF "origins" \in unread THEN Shipped ELSE orgFile

Restart ==
    /\ \E unread \in SUBSET {"devices", "origins"} :
        /\ Unreadable \subseteq unread
        /\ devices' = DevicesRead(unread)
        /\ origins' = OriginsRead(unread)
        /\ volatile' = unread
    /\ failed' = 0 /\ guesses' = 0 /\ rotating' = FALSE
    /\ handler' = [h \in Handlers |-> Idle]
    /\ conn' = [c \in Conns |-> Away]
    /\ revoking' = Nobody
    /\ UNCHANGED <<devFile, told, fleeting, revoked, asked, orgFile, barred, unsaved>>

---------------------------------------------------------------------------
Next ==
    \/ \E h \in Handlers : Gate(h) \/ WrongPIN(h) \/ RightPIN(h) \/ Pair(h) \/ Answer(h)
    \/ SetPIN \/ ResetFailures
    \/ \E c \in Conns : Verify(c) \/ Register(c) \/ Leave(c)
    \/ \E ids \in {{d} : d \in Devices} \cup {devices} : Revoke(ids)
    \/ EndSessions
    \/ \E o \in Origins : AllowOrigin(o) \/ RevokeOrigin(o)
    \/ Restart

Spec == Init /\ [][Next]_vars

---------------------------------------------------------------------------
Files(S) == (SUBSET S) \cup {Torn}

(* The type invariant. *)
TypeOK ==
    /\ devices \subseteq Devices /\ devFile \in Files(Devices)
    /\ told \subseteq Devices /\ fleeting \subseteq Devices /\ revoked \subseteq asked /\ asked \subseteq Devices
    /\ origins \subseteq Origins /\ orgFile \in Files(Origins) /\ barred \subseteq Origins
    /\ unsaved \subseteq Origins
    /\ volatile \subseteq {"devices", "origins"}
    /\ failed \in Nat /\ guesses \in Nat /\ rotating \in BOOLEAN
    /\ handler \in [Handlers -> [at : {"idle", "counted", "pairing", "paired"}, dev : Devices \cup {None}]]
    /\ conn \in [Conns -> [at : {"away", "admitted", "session"}, dev : Devices \cup {None}]]
    /\ revoking \in [ids : SUBSET Devices, saved : BOOLEAN]

(* What an operator was told is revoked stays out: neither a pairing or a  *)
(* revocation whose save failed, nor a crash, nor a file that could not be *)
(* read brings it back.  A device never comes back; an origin does in two  *)
(* cases only: one shipped, in a store that could not read its file, and   *)
(* one revoked by such a store, once a later start reads the file again    *)
(* (secure/pairing/registry.go, Revoke; server/origins.go, Revoke and      *)
(* NewOriginStore; agent/serverplugin/origins.go, loadOrigins).            *)
RevokedStaysOut ==
    /\ revoked \cap devices = {}
    /\ devFile # Torn => revoked \cap devFile = {}
    /\ barred \cap origins \subseteq IF "origins" \in volatile THEN Shipped ELSE unsaved

(* A device that was answered its token is known until its revocation is   *)
(* asked for, over restarts, runs that could not read the file and         *)
(* whatever other saves failed in the meantime, in every run that has read *)
(* the file; those paired by a registry without its file are forgotten     *)
(* (secure/pairing/registry.go, Pair and NewRegistry;                      *)
(* secure/pairing/manager.go, New).                                        *)
PairedSurvives == "devices" \notin volatile => told \ fleeting \subseteq devices \cup asked

(* What an operator or a device was told of a pairing stays so.            *)
AnswersStand == RevokedStaysOut /\ PairedSurvives

(* The number of wrong PINs answered for one PIN is bounded although the   *)
(* gate compares after it has looked at the count and a rotation resets    *)
(* the count after it has set the PIN (secure/tls/bootstrap.go, requirePIN *)
(* and RotatePIN).                                                         *)
GuessesBounded == guesses <= 2 * (MaxFailures + Cardinality(Handlers) - 1)

=============================================================================
