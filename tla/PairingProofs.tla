---------------------------- MODULE PairingProofs ----------------------------
(* What pairing and revocation guarantee for every number of devices,      *)
(* connections, requests and origins, and what the console's page is told  *)
(* for every number of loggers and sizes of the queues.                    *)
EXTENDS Pairing, Console, FiniteSetTheorems, SequenceTheorems, TLAPS

-----------------------------------------------------------------------------
(* Types.                                                                  *)

Request == [at : {"idle", "counted", "pairing", "paired"}, dev : Devices \cup {None}]
Connection == [at : {"away", "admitted", "session"}, dev : Devices \cup {None}]
Revocation == [ids : SUBSET Devices, saved : BOOLEAN]

LEMMA RestForms == Idle \in Request /\ Away \in Connection /\ Nobody \in Revocation
BY DEF Idle, Away, Nobody, Request, Connection, Revocation

LEMMA TypeInit == Init => TypeOK
<1> SUFFICES ASSUME Init PROVE TypeOK
  OBVIOUS
<1>1. handler \in [Handlers -> Request] /\ conn \in [Conns -> Connection] /\ revoking \in Revocation
  BY RestForms DEF Init
<1>2. devFile \in Files(Devices) /\ orgFile \in Files(Origins)
  BY PairingAssumption DEF Init, Files
<1>3. /\ devices \subseteq Devices /\ told \subseteq Devices /\ fleeting \subseteq Devices /\ unsaved \subseteq Origins /\ revoked \subseteq asked /\ asked \subseteq Devices
      /\ origins \subseteq Origins /\ barred \subseteq Origins /\ volatile \subseteq {"devices", "origins"}
      /\ failed \in Nat /\ guesses \in Nat /\ rotating \in BOOLEAN
  BY PairingAssumption DEF Init
<1> QED BY <1>1, <1>2, <1>3 DEF TypeOK, Request, Connection, Revocation

(* What a save leaves in the file, and what it says of it.                 *)
LEMMA SavesForms ==
    ASSUME NEW store, NEW content, NEW file, NEW s \in Saves(store, content, file)
    PROVE  /\ s.file \in {content, file, Torn}
           /\ s.saved \in BOOLEAN
           /\ store \in volatile => s.file = file
           /\ store \notin volatile /\ s.saved => s.file = content
           /\ ~s.saved => s.file \in {file, Torn}
<1>1. CASE store \in volatile
  <2>1. s = [file |-> file, saved |-> TRUE]
    BY <1>1 DEF Saves
  <2> QED BY <1>1, <2>1
<1>2. CASE store \notin volatile
  <2>1. \/ s = [file |-> content, saved |-> TRUE]
        \/ s = [file |-> file, saved |-> FALSE]
        \/ s = [file |-> Torn, saved |-> FALSE]
    BY <1>2 DEF Saves
  <2>2. CASE s = [file |-> content, saved |-> TRUE]
    <3>1. s.file = content /\ s.saved = TRUE
      BY <2>2
    <3> QED BY <1>2, <3>1
  <2>3. CASE s \in {[file |-> file, saved |-> FALSE], [file |-> Torn, saved |-> FALSE]}
    <3>1. s.file \in {file, Torn} /\ s.saved = FALSE
      BY <2>3
    <3> QED BY <1>2, <3>1
  <2> QED BY <2>1, <2>2, <2>3
<1> QED BY <1>1, <1>2

-----------------------------------------------------------------------------
(* What is in the files.                                                   *)

(* Whoever was told of a pairing by a registry that has its file is in the *)
(* file if it can be read, whoever was told of a revocation is not, and    *)
(* both hold of what is about to be told.  What a registry without its     *)
(* file pairs is new to the file, so that what it revokes is not in it.    *)
FileInv ==
    /\ devFile # Torn =>
          /\ revoked \cap devFile = {}
          /\ told \ fleeting \subseteq devFile \cup asked
          /\ \A h \in Handlers : handler[h].at = "paired" => handler[h].dev \in devFile \cup asked \cup fleeting
          /\ revoking.saved => revoking.ids \cap devFile = {}
          /\ "devices" \in volatile => devices \cap devFile = {}
    /\ "devices" \notin volatile =>
          /\ told \ fleeting \subseteq devices \cup asked
          /\ \A h \in Handlers : handler[h].at = "paired" => handler[h].dev \in devices \cup asked \cup fleeting
    /\ \A h \in Handlers : handler[h].at = "paired" => handler[h].dev \in Devices
    /\ revoked \cap devices = {} /\ revoking.ids \cap devices = {} /\ revoking.ids \subseteq asked
    /\ barred \cap origins \subseteq IF "origins" \in volatile THEN Shipped ELSE unsaved
    /\ orgFile # Torn => barred \cap orgFile \subseteq unsaved

LEMMA TypeStep == TypeOK /\ FileInv /\ [Next]_vars => TypeOK'
<1> SUFFICES ASSUME TypeOK, FileInv, [Next]_vars PROVE TypeOK'
  OBVIOUS
<1> USE PairingAssumption DEF TypeOK, devVars, orgVars, gateVars, sessVars
<1>a. /\ handler \in [Handlers -> Request] /\ conn \in [Conns -> Connection] /\ revoking \in Revocation
      /\ \A r \in Request : r.at \in {"idle", "counted", "pairing", "paired"} /\ r.dev \in Devices \cup {None}
      /\ \A r \in Connection : r.at \in {"away", "admitted", "session"} /\ r.dev \in Devices \cup {None}
  BY DEF Request, Connection, Revocation
<1>b. /\ handler' \in [Handlers -> Request] => handler' \in [Handlers -> [at : {"idle", "counted", "pairing", "paired"}, dev : Devices \cup {None}]]
      /\ conn' \in [Conns -> Connection] => conn' \in [Conns -> [at : {"away", "admitted", "session"}, dev : Devices \cup {None}]]
      /\ revoking' \in Revocation => revoking' \in [ids : SUBSET Devices, saved : BOOLEAN]
  BY DEF Request, Connection, Revocation
<1>1. ASSUME NEW h \in Handlers, Gate(h) PROVE TypeOK'
  <2>1. [handler[h] EXCEPT !.at = "counted"] \in Request
    BY <1>a DEF Request
  <2>2. handler' = [handler EXCEPT ![h] = [handler[h] EXCEPT !.at = "counted"]]
    BY <1>1, Zenon DEF Gate
  <2>3. handler' \in [Handlers -> Request]
    BY <1>a, <2>1, <2>2
  <2> QED BY <1>1, <1>b, <2>3 DEF Gate
<1>2. ASSUME NEW h \in Handlers, WrongPIN(h) PROVE TypeOK'
  <2>1. handler' \in [Handlers -> Request]
    BY <1>a, <1>2, RestForms DEF WrongPIN
  <2> QED BY <1>2, <1>b, <2>1 DEF WrongPIN
<1>3. ASSUME NEW h \in Handlers, RightPIN(h) PROVE TypeOK'
  <2>1. PICK next \in {"idle", "pairing"} : handler' = [handler EXCEPT ![h].at = next]
    BY <1>3 DEF RightPIN
  <2>2. [handler[h] EXCEPT !.at = next] \in Request
    BY <1>a DEF Request
  <2>3. handler' = [handler EXCEPT ![h] = [handler[h] EXCEPT !.at = next]]
    BY <2>1, Zenon
  <2>4. handler' \in [Handlers -> Request]
    BY <1>a, <2>2, <2>3
  <2> QED BY <1>3, <1>b, <2>4 DEF RightPIN
<1>4. ASSUME NEW h \in Handlers, Pair(h) PROVE TypeOK'
  <2>1. PICK d \in Devices, s \in Saves("devices", devices', devFile) :
           /\ devices' = devices \cup {d}
           /\ devFile' = s.file
           /\ handler' = [handler EXCEPT ![h] = IF s.saved THEN [at |-> "paired", dev |-> d] ELSE Idle]
    BY <1>4 DEF Pair
  <2>2. [at |-> "paired", dev |-> d] \in Request
    BY DEF Request
  <2>3. handler' \in [Handlers -> Request]
    BY <1>a, <2>1, <2>2, RestForms
  <2>4. devices' \subseteq Devices /\ devFile' \in {devices', devFile, Torn}
    BY <2>1, SavesForms
  <2>5. devFile' \in Files(Devices)
    BY <2>4 DEF Files
  <2> QED BY <1>4, <1>b, <2>3, <2>4, <2>5 DEF Pair
<1>5. ASSUME NEW h \in Handlers, Answer(h) PROVE TypeOK'
  <2>1. handler' \in [Handlers -> Request]
    BY <1>a, <1>5, RestForms DEF Answer
  <2>2. told' \subseteq Devices /\ fleeting' \subseteq Devices
    BY <1>5 DEF Answer, FileInv
  <2> QED BY <1>5, <1>b, <2>1, <2>2 DEF Answer
<1>6. ASSUME SetPIN PROVE TypeOK'
  BY <1>6 DEF SetPIN
<1>7. ASSUME ResetFailures PROVE TypeOK'
  BY <1>7 DEF ResetFailures
<1>8. ASSUME NEW c \in Conns, Verify(c) PROVE TypeOK'
  <2>1. PICK d \in Devices : conn' = [conn EXCEPT ![c] = [at |-> "admitted", dev |-> d]]
    BY <1>8 DEF Verify, Recognised
  <2>2. [at |-> "admitted", dev |-> d] \in Connection
    BY DEF Connection
  <2>3. conn' \in [Conns -> Connection]
    BY <1>a, <2>1, <2>2
  <2> QED BY <1>8, <1>b, <2>3 DEF Verify
<1>9. ASSUME NEW c \in Conns, Register(c) PROVE TypeOK'
  <2>1. [conn[c] EXCEPT !.at = "session"] \in Connection
    BY <1>a DEF Connection
  <2>2. conn' \in [Conns -> Connection]
    BY <1>a, <1>9, <2>1, RestForms DEF Register
  <2> QED BY <1>9, <1>b, <2>2 DEF Register
<1>10. ASSUME NEW c \in Conns, Leave(c) PROVE TypeOK'
  <2>1. conn' \in [Conns -> Connection]
    BY <1>a, <1>10, RestForms DEF Leave
  <2> QED BY <1>10, <1>b, <2>1 DEF Leave
<1>11. ASSUME NEW ids \in {{d} : d \in Devices} \cup {devices}, Revoke(ids) PROVE TypeOK'
  <2>1. PICK s \in Saves("devices", devices', devFile) :
           devFile' = s.file /\ revoking' = [ids |-> ids \cap devices, saved |-> s.saved]
    BY <1>11 DEF Revoke
  <2>2. revoking' \in Revocation
    BY <2>1, SavesForms DEF Revocation
  <2>3. devices' \subseteq Devices /\ asked \subseteq asked' /\ asked' \subseteq Devices
    BY <1>11 DEF Revoke
  <2>4. devFile' \in {devices', devFile, Torn}
    BY <2>1, SavesForms
  <2>5. devFile' \in Files(Devices)
    BY <2>3, <2>4 DEF Files
  <2> QED BY <1>11, <1>b, <2>2, <2>3, <2>5 DEF Revoke
<1>12. ASSUME EndSessions PROVE TypeOK'
  <2>1. conn' \in [Conns -> Connection] /\ revoking' \in Revocation
    BY <1>a, <1>12, RestForms DEF EndSessions
  <2>2. revoked' \subseteq asked'
    BY <1>12 DEF EndSessions, FileInv
  <2> QED BY <1>12, <1>b, <2>1, <2>2 DEF EndSessions
<1>13. ASSUME NEW o \in Origins, AllowOrigin(o) PROVE TypeOK'
  <2>1. origins' \subseteq Origins /\ orgFile' \in Files(Origins) /\ barred' \subseteq Origins
    <3>1. PICK s \in Saves("origins", origins', orgFile) : orgFile' = s.file
      BY <1>13 DEF AllowOrigin
    <3>2. orgFile' \in {origins', orgFile, Torn}
      BY <3>1, SavesForms
    <3>3. origins' \subseteq Origins /\ barred' \subseteq Origins
      BY <1>13 DEF AllowOrigin
    <3> QED BY <3>2, <3>3 DEF Files
  <2> QED BY <1>13, <2>1 DEF AllowOrigin
<1>14. ASSUME NEW o \in Origins, RevokeOrigin(o) PROVE TypeOK'
  <2>1. origins' \subseteq Origins /\ orgFile' \in Files(Origins) /\ barred' \subseteq Origins
    <3>1. PICK s \in Saves("origins", origins', orgFile) : orgFile' = s.file
      BY <1>14 DEF RevokeOrigin
    <3>2. orgFile' \in {origins', orgFile, Torn}
      BY <3>1, SavesForms
    <3>3. origins' \subseteq Origins /\ barred' \subseteq Origins
      BY <1>14 DEF RevokeOrigin
    <3> QED BY <3>2, <3>3 DEF Files
  <2> QED BY <1>14, <2>1 DEF RevokeOrigin
<1>15. ASSUME Restart PROVE TypeOK'
  <2>1. handler' \in [Handlers -> Request] /\ conn' \in [Conns -> Connection] /\ revoking' \in Revocation
    BY <1>15, RestForms DEF Restart
  <2>2. PICK unread \in SUBSET {"devices", "origins"} :
           /\ Unreadable \subseteq unread /\ volatile' = unread
           /\ devices' = DevicesRead(unread) /\ origins' = OriginsRead(unread)
    BY <1>15 DEF Restart
  <2>4. DevicesRead(unread) \subseteq Devices /\ OriginsRead(unread) \subseteq Origins
    <3>1. devFile = Torn => "devices" \in unread
      BY <2>2 DEF Unreadable
    <3>2. orgFile = Torn => "origins" \in unread
      BY <2>2 DEF Unreadable
    <3> QED BY <3>1, <3>2 DEF DevicesRead, OriginsRead, Files
  <2>3. devices' \subseteq Devices /\ origins' \subseteq Origins /\ volatile' \subseteq {"devices", "origins"}
    BY <2>2, <2>4
  <2> QED BY <1>15, <1>b, <2>1, <2>3 DEF Restart
<1>16. ASSUME UNCHANGED vars PROVE TypeOK'
  BY <1>16 DEF vars
<1> QED BY <1>1, <1>2, <1>3, <1>4, <1>5, <1>6, <1>7, <1>8, <1>9, <1>10, <1>11, <1>12, <1>13, <1>14, <1>15, <1>16 DEF Next

LEMMA FileInit == Init => FileInv
BY PairingAssumption DEF Init, FileInv, Nobody, Idle

LEMMA FileStep == TypeOK /\ FileInv /\ [Next]_vars => FileInv'
<1> SUFFICES ASSUME TypeOK, FileInv, [Next]_vars PROVE FileInv'
  OBVIOUS
<1> USE PairingAssumption, SavesForms DEF TypeOK, Files, FileInv, Idle, Away, Nobody, devVars, orgVars, gateVars, sessVars
<1>1. ASSUME NEW h \in Handlers, Gate(h) PROVE FileInv'
  BY <1>1 DEF Gate
<1>2. ASSUME NEW h \in Handlers, WrongPIN(h) PROVE FileInv'
  BY <1>2 DEF WrongPIN
<1>3. ASSUME NEW h \in Handlers, RightPIN(h) PROVE FileInv'
  BY <1>3 DEF RightPIN
<1>4. ASSUME NEW h \in Handlers, Pair(h) PROVE FileInv'
  BY <1>4 DEF Pair
<1>5. ASSUME NEW h \in Handlers, Answer(h) PROVE FileInv'
  BY <1>5 DEF Answer
<1>6. ASSUME SetPIN PROVE FileInv'
  BY <1>6 DEF SetPIN
<1>7. ASSUME ResetFailures PROVE FileInv'
  BY <1>7 DEF ResetFailures
<1>8. ASSUME NEW c \in Conns, Verify(c) PROVE FileInv'
  BY <1>8 DEF Verify, Recognised
<1>9. ASSUME NEW c \in Conns, Register(c) PROVE FileInv'
  BY <1>9 DEF Register
<1>10. ASSUME NEW c \in Conns, Leave(c) PROVE FileInv'
  BY <1>10 DEF Leave
<1>11. ASSUME NEW ids \in {{d} : d \in Devices} \cup {devices}, Revoke(ids) PROVE FileInv'
  BY <1>11 DEF Revoke
<1>12. ASSUME EndSessions PROVE FileInv'
  BY <1>12 DEF EndSessions
<1>13. ASSUME NEW o \in Origins, AllowOrigin(o) PROVE FileInv'
  BY <1>13 DEF AllowOrigin
<1>14. ASSUME NEW o \in Origins, RevokeOrigin(o) PROVE FileInv'
  BY <1>14 DEF RevokeOrigin
<1>15. ASSUME Restart PROVE FileInv'
  <2>1. PICK unread \in SUBSET {"devices", "origins"} :
           /\ Unreadable \subseteq unread /\ volatile' = unread
           /\ devices' = DevicesRead(unread) /\ origins' = OriginsRead(unread)
    BY <1>15 DEF Restart
  <2>2. (devFile = Torn => "devices" \in unread) /\ (orgFile = Torn => "origins" \in unread)
    BY <2>1 DEF Unreadable
  <2> QED BY <1>15, <2>1, <2>2 DEF Restart, DevicesRead, OriginsRead
<1>16. ASSUME UNCHANGED vars PROVE FileInv'
  BY <1>16 DEF vars
<1> QED BY <1>1, <1>2, <1>3, <1>4, <1>5, <1>6, <1>7, <1>8, <1>9, <1>10, <1>11, <1>12, <1>13, <1>14, <1>15, <1>16 DEF Next


(* Whoever's revocation has returned, it was asked for.                    *)
THEOREM TypeCorrect == Spec => []TypeOK
BY TypeInit, TypeStep, FileInit, FileStep, PTL DEF Spec

(* Whatever saves fail, whenever the program dies and whichever requests   *)
(* overlap, what a device or an operator was told of a pairing stays so.   *)
THEOREM AnswersAreKept == Spec => []AnswersStand
<1>1. FileInv => AnswersStand
  BY DEF FileInv, AnswersStand, RevokedStaysOut, PairedSurvives
<1> QED BY <1>1, TypeInit, TypeStep, FileInit, FileStep, PTL DEF Spec

-----------------------------------------------------------------------------
(* How many guesses a PIN stands.                                          *)

Guessing == {h \in Handlers : handler[h].at = "counted"}
AtMost == MaxFailures + Cardinality(Handlers) - 1

(* A request past the gate has its failure counted in the end, so the      *)
(* count and the requests past the gate stay within one burst; a rotation  *)
(* can add one more, counted before it reset the count.                    *)
GuessInv ==
    /\ failed + Cardinality(Guessing) <= AtMost
    /\ guesses <= failed + (IF rotating THEN 0 ELSE AtMost)

LEMMA GuessingForms ==
    /\ IsFiniteSet(Guessing) /\ Cardinality(Guessing) \in Nat
    /\ Cardinality(Handlers) \in Nat \ {0} /\ Cardinality(Guessing) <= Cardinality(Handlers)
    /\ AtMost \in Nat /\ Cardinality(Handlers) <= AtMost
<1>1. Guessing \subseteq Handlers
  BY DEF Guessing
<1>2. Cardinality(Handlers) \in Nat /\ Cardinality(Handlers) # 0
  BY PairingAssumption, FS_CardinalityType, FS_EmptySet
<1> QED BY <1>1, <1>2, PairingAssumption, FS_Subset, FS_CardinalityType DEF AtMost

LEMMA GuessInit == Init => GuessInv
<1> SUFFICES ASSUME Init PROVE GuessInv
  OBVIOUS
<1>1. Guessing = {}
  BY DEF Guessing, Init, Idle
<1> QED BY <1>1, FS_EmptySet, GuessingForms DEF Init, GuessInv

LEMMA GuessStep == TypeOK /\ GuessInv /\ [Next]_vars => GuessInv'
<1> SUFFICES ASSUME TypeOK, GuessInv, [Next]_vars PROVE GuessInv'
  OBVIOUS
<1> USE GuessingForms DEF GuessInv
<1>0. failed \in Nat /\ guesses \in Nat /\ rotating \in BOOLEAN /\ Cardinality(Guessing)' \in Nat
      /\ AtMost' = AtMost /\ Cardinality(Guessing)' <= Cardinality(Handlers)
  <2>1. Guessing' \subseteq Handlers
    BY DEF Guessing
  <2> QED BY <2>1, PairingAssumption, FS_Subset, FS_CardinalityType DEF TypeOK, AtMost
<1>1. ASSUME NEW h \in Handlers, Gate(h) PROVE GuessInv'
  <2>1. failed + Cardinality(Guessing)' <= MaxFailures - 1 + Cardinality(Handlers)
    BY <1>0, <1>1, PairingAssumption DEF Gate, TypeOK
  <2> QED BY <1>0, <1>1, <2>1, PairingAssumption DEF Gate, AtMost, gateVars
<1>2. ASSUME NEW h \in Handlers, WrongPIN(h) PROVE GuessInv'
  <2>1. h \in Guessing /\ Guessing' = Guessing \ {h}
    BY <1>2 DEF WrongPIN, Guessing, TypeOK, Idle
  <2>2. Cardinality(Guessing') = Cardinality(Guessing) - 1
    BY <2>1, FS_RemoveElement
  <2> QED BY <1>0, <1>2, <2>2 DEF WrongPIN
<1>3. ASSUME NEW h \in Handlers, RightPIN(h) \/ Pair(h) \/ Answer(h) PROVE GuessInv'
  <2>1. Guessing' \subseteq Guessing
    BY <1>3 DEF RightPIN, Pair, Answer, Guessing, TypeOK, Idle
  <2>2. Cardinality(Guessing') <= Cardinality(Guessing)
    BY <2>1, FS_Subset
  <2> QED BY <1>0, <1>3, <2>2 DEF RightPIN, Pair, Answer, gateVars
<1>4. CASE SetPIN
  <2>1. Guessing' = Guessing
    BY <1>4 DEF SetPIN, Guessing
  <2> QED BY <1>0, <1>4, <2>1 DEF SetPIN
<1>5. CASE ResetFailures
  <2>1. Guessing' = Guessing
    BY <1>5 DEF ResetFailures, Guessing
  <2> QED BY <1>0, <1>5, <2>1 DEF ResetFailures
<1>6. CASE Restart
  <2>1. Guessing' = {}
    BY <1>6 DEF Restart, Guessing, Idle
  <2> QED BY <1>0, <1>6, <2>1, FS_EmptySet DEF Restart
<1>7. ASSUME UNCHANGED <<handler, gateVars>> PROVE GuessInv'
  <2>1. Guessing' = Guessing
    BY <1>7 DEF Guessing
  <2> QED BY <1>0, <1>7, <2>1 DEF gateVars
<1>8. ASSUME NEW c \in Conns, Verify(c) \/ Register(c) \/ Leave(c) PROVE GuessInv'
  BY <1>7, <1>8 DEF Verify, Register, Leave
<1>9. ASSUME NEW ids, Revoke(ids) PROVE GuessInv'
  BY <1>7, <1>9 DEF Revoke
<1>10. ASSUME NEW o, AllowOrigin(o) \/ RevokeOrigin(o) PROVE GuessInv'
  BY <1>7, <1>10 DEF AllowOrigin, RevokeOrigin
<1>11. CASE EndSessions \/ UNCHANGED vars
  BY <1>7, <1>11 DEF EndSessions, vars
<1> QED BY <1>1, <1>2, <1>3, <1>4, <1>5, <1>6, <1>8, <1>9, <1>10, <1>11 DEF Next

(* However requests and rotations overlap, the wrong PINs answered for one *)
(* PIN are two bursts at most.                                             *)
THEOREM PinStandsFewGuesses == Spec => []GuessesBounded
<1>1. TypeOK /\ GuessInv => GuessesBounded
  <2> SUFFICES ASSUME TypeOK, GuessInv PROVE guesses <= 2 * AtMost
    BY DEF GuessesBounded, AtMost
  <2> QED BY GuessingForms DEF GuessInv, TypeOK
<1> QED BY <1>1, TypeCorrect, GuessInit, GuessStep, PTL DEF Spec

-----------------------------------------------------------------------------
(* What a queue of envelopes brings a page.                                *)

Envelopes == [type : {"state"}, state : Nat] \cup [type : {"logs"}, logs : SUBSET Nat]

(* A page that shows t shows v once it has been sent what is in q.         *)
Shows(q, t, v) ==
    \/ \E i \in DOMAIN q :
          q[i].type = "state" /\ q[i].state = v /\ \A j \in DOMAIN q : j > i => q[j].type # "state"
    \/ t = v /\ \A i \in DOMAIN q : q[i].type # "state"

Carries(q, n) == \E i \in DOMAIN q : q[i].type = "logs" /\ n \in q[i].logs

LEMMA AppendForms ==
    ASSUME NEW q \in Seq(Envelopes), NEW e \in Envelopes
    PROVE  /\ Append(q, e) \in Seq(Envelopes)
           /\ e.type = "state" => \A t : Shows(Append(q, e), t, e.state)
           /\ e.type # "state" => \A t, v : Shows(q, t, v) => Shows(Append(q, e), t, v)
           /\ \A n : Carries(q, n) => Carries(Append(q, e), n)
           /\ e.type = "logs" => \A n \in e.logs : Carries(Append(q, e), n)
<1> DEFINE a == Append(q, e)
<1>1. Len(q) \in Nat /\ DOMAIN q = 1 .. Len(q)
  BY LenProperties
<1>2. /\ a \in Seq(Envelopes) /\ Len(a) = Len(q) + 1
      /\ \A i \in 1 .. Len(q) : a[i] = q[i]
      /\ a[Len(q) + 1] = e
  BY AppendProperties
<1>3. DOMAIN a = 1 .. Len(q) + 1
  BY <1>2, LenProperties
<1> HIDE DEF a
<1>4. ASSUME e.type = "state", NEW t PROVE Shows(a, t, e.state)
  <2>1. \A j \in DOMAIN a : ~(j > Len(q) + 1)
    BY <1>1, <1>3
  <2> QED BY <1>1, <1>2, <1>3, <1>4, <2>1 DEF Shows
<1>5. ASSUME e.type # "state", NEW t, NEW v, Shows(q, t, v) PROVE Shows(a, t, v)
  <2>1. \A i \in DOMAIN a : (i \in DOMAIN q /\ a[i] = q[i]) \/ (i = Len(q) + 1 /\ a[i].type # "state")
    <3> SUFFICES ASSUME NEW i \in DOMAIN a, i # Len(q) + 1 PROVE i \in DOMAIN q /\ a[i] = q[i]
      BY <1>2, <1>5
    <3> QED BY <1>1, <1>2, <1>3
  <2>2. \A i \in DOMAIN q : i \in DOMAIN a /\ a[i] = q[i]
    BY <1>1, <1>2, <1>3
  <2> QED BY <1>5, <2>1, <2>2 DEF Shows
<1>6. ASSUME NEW n, Carries(q, n) PROVE Carries(a, n)
  BY <1>1, <1>2, <1>3, <1>6 DEF Carries
<1>7. ASSUME e.type = "logs", NEW n \in e.logs PROVE Carries(a, n)
  BY <1>1, <1>2, <1>3, <1>7 DEF Carries
<1> QED BY <1>2, <1>4, <1>5, <1>6, <1>7 DEF a

LEMMA TailForms ==
    ASSUME NEW q \in Seq(Envelopes), q # << >>
    PROVE  /\ Head(q) \in Envelopes /\ Tail(q) \in Seq(Envelopes)
           /\ Head(q).type = "state" => \A t, v : Shows(q, t, v) => Shows(Tail(q), Head(q).state, v)
           /\ Head(q).type # "state" => \A t, v : Shows(q, t, v) => Shows(Tail(q), t, v)
           /\ \A n : Carries(q, n) => Carries(Tail(q), n) \/ (Head(q).type = "logs" /\ n \in Head(q).logs)
<1> DEFINE b == Tail(q)
<1>1. /\ Head(q) \in Envelopes /\ b \in Seq(Envelopes) /\ Head(q) = q[1]
      /\ Len(b) = Len(q) - 1 /\ \A i \in 1 .. Len(b) : b[i] = q[i + 1]
  BY HeadTailProperties
<1>2. Len(q) \in Nat /\ DOMAIN q = 1 .. Len(q) /\ DOMAIN b = 1 .. Len(b)
  BY <1>1, LenProperties
<1> HIDE DEF b
<1>3. \A i \in DOMAIN b : i \in Nat /\ i + 1 \in DOMAIN q /\ b[i] = q[i + 1]
  BY <1>1, <1>2
<1>4. \A i \in DOMAIN q : i = 1 \/ (i \in Nat /\ i > 1 /\ i - 1 \in DOMAIN b /\ b[i - 1] = q[i])
  <2> SUFFICES ASSUME NEW i \in DOMAIN q, i # 1
               PROVE  i \in Nat /\ i > 1 /\ i - 1 \in DOMAIN b /\ b[i - 1] = q[i]
    OBVIOUS
  <2>1. i \in Nat /\ i > 1 /\ i - 1 \in DOMAIN b /\ (i - 1) + 1 = i
    BY <1>1, <1>2
  <2> QED BY <1>3, <2>1
<1>5. ASSUME NEW t, NEW v, Shows(q, t, v)
      PROVE  Shows(b, IF Head(q).type = "state" THEN Head(q).state ELSE t, v)
  <2>1. CASE t = v /\ \A i \in DOMAIN q : q[i].type # "state"
    BY <1>1, <1>2, <1>3, <2>1 DEF Shows
  <2>2. ASSUME NEW i \in DOMAIN q, q[i].type = "state", q[i].state = v,
               \A j \in DOMAIN q : j > i => q[j].type # "state"
        PROVE  Shows(b, IF Head(q).type = "state" THEN Head(q).state ELSE t, v)
    <3>1. CASE i = 1
      <4>1. \A j \in DOMAIN b : b[j].type # "state"
        <5> SUFFICES ASSUME NEW j \in DOMAIN b PROVE b[j].type # "state"
          OBVIOUS
        <5>1. j \in 1 .. Len(b) /\ j + 1 > 1
          BY <1>1, <1>2
        <5> QED BY <1>3, <2>2, <3>1, <5>1
      <4> QED BY <1>1, <2>2, <3>1, <4>1 DEF Shows
    <3>2. CASE i # 1
      <4>1. i \in Nat /\ i - 1 \in DOMAIN b /\ b[i - 1] = q[i]
        BY <1>4, <3>2
      <4>2. \A j \in DOMAIN b : j > i - 1 => b[j].type # "state"
        <5> SUFFICES ASSUME NEW j \in DOMAIN b, j > i - 1 PROVE b[j].type # "state"
          OBVIOUS
        <5>1. j + 1 > i /\ j + 1 \in DOMAIN q /\ b[j] = q[j + 1]
          BY <1>3, <4>1
        <5> QED BY <2>2, <5>1
      <4> QED BY <2>2, <4>1, <4>2 DEF Shows
    <3> QED BY <3>1, <3>2
  <2> QED BY <1>5, <2>1, <2>2 DEF Shows
<1>6. ASSUME NEW n, Carries(q, n) PROVE Carries(b, n) \/ (Head(q).type = "logs" /\ n \in Head(q).logs)
  BY <1>1, <1>4, <1>6 DEF Carries
<1> QED BY <1>1, <1>5, <1>6 DEF b

-----------------------------------------------------------------------------
(* The console's page.                                                     *)

Places == {"none", "accepted", "subscribed", "following", "greeted", "serving", "leaving", "over"}
AFeed == [at : Places, woken : BOOLEAN, pump : {"idle", "woken", "built"}, built : Nat,
          lines : Seq(Nat), pending : SUBSET Nat, out : Seq(Envelopes), missed : BOOLEAN]
Links == {"connecting", "open", "asking", "closed", "expired"}

ConsoleTypes ==
    /\ agentState \in Nat /\ untold \in Nat
    /\ waking \subseteq PageSockets /\ handlers \subseteq PageSockets /\ ringSubs \subseteq PageSockets
    /\ recorded \in Nat
    /\ fanning \in [Loggers -> [line : Nat, to : SUBSET PageSockets]]
    /\ feed \in [PageSockets -> AFeed]
    /\ page \in [link : Links, socket : PageSockets, told : Nat, lines : SUBSET Nat]

(* A socket that serves is connected to the signal and to the ring; a      *)
(* state built too early will be built again.                              *)
FeedInv(k) ==
    /\ feed[k].at \in {"subscribed", "following", "greeted", "serving"} => k \in handlers
    /\ feed[k].at \in {"following", "greeted", "serving"} => k \in ringSubs
    /\ k \in ended => feed[k].at = "over"
    /\ feed[k].pump = "idle" \/ feed[k].at \in {"serving", "leaving", "over"}
    /\ feed[k].at = "serving" /\ feed[k].pump = "built" /\ feed[k].built # agentState =>
          untold > 0 \/ k \in waking \/ feed[k].woken

(* What the queue of an open page ends in is the newest state, or a newer  *)
(* one is coming.                                                          *)
Coming(k) ==
    \/ untold > 0 \/ k \in waking \/ feed[k].woken \/ feed[k].pump = "woken"
    \/ feed[k].pump = "built" /\ feed[k].built = agentState
    \/ feed[k].missed

StateInv(k) ==
    page.link = "open" /\ page.socket = k /\ feed[k].at \in {"greeted", "serving"} =>
        Coming(k) \/ Shows(feed[k].out, page.told, agentState)

LineReaches(k, n) ==
    \/ n \in page.lines \/ n \in passed \/ n \in feed[k].pending
    \/ \E l \in Loggers : fanning[l].line = n /\ k \in fanning[l].to
    \/ \E i \in DOMAIN feed[k].lines : feed[k].lines[i] = n
    \/ Carries(feed[k].out, n)

LinesInv(k) ==
    page.link = "open" /\ page.socket = k /\ feed[k].at = "serving" =>
        \A n \in Entries : LineReaches(k, n)

ConsoleInv == ConsoleTypes /\ \A k \in PageSockets : FeedInv(k) /\ StateInv(k) /\ LinesInv(k)

LEMMA TailLines ==
    ASSUME NEW q \in Seq(Nat), q # << >>
    PROVE  /\ Head(q) \in Nat /\ Tail(q) \in Seq(Nat) /\ Head(q) = q[1]
           /\ \A i \in DOMAIN q : i = 1 \/ \E j \in DOMAIN Tail(q) : Tail(q)[j] = q[i]
<1> DEFINE b == Tail(q)
<1>1. /\ Head(q) \in Nat /\ b \in Seq(Nat) /\ Head(q) = q[1]
      /\ Len(b) = Len(q) - 1 /\ \A i \in 1 .. Len(b) : b[i] = q[i + 1]
  BY HeadTailProperties
<1>2. Len(q) \in Nat /\ DOMAIN q = 1 .. Len(q) /\ DOMAIN b = 1 .. Len(b)
  BY <1>1, LenProperties
<1> HIDE DEF b
<1>3. ASSUME NEW i \in DOMAIN q, i # 1 PROVE \E j \in DOMAIN b : b[j] = q[i]
  <2>1. i - 1 \in DOMAIN b /\ (i - 1) + 1 = i /\ i - 1 \in 1 .. Len(b)
    BY <1>1, <1>2, <1>3
  <2>2. b[i - 1] = q[(i - 1) + 1]
    BY <1>1, <2>1
  <2> QED BY <2>1, <2>2
<1> QED BY <1>1, <1>3 DEF b

LEMMA FeedUpdate ==
    ASSUME feed \in [PageSockets -> AFeed], NEW k \in PageSockets, NEW y \in AFeed,
           feed' = [feed EXCEPT ![k] = y]
    PROVE  /\ feed' \in [PageSockets -> AFeed] /\ feed'[k] = y
           /\ \A j \in PageSockets : j # k => feed'[j] = feed[j]
OBVIOUS

(* One action of a socket's server end, or of its page.                    *)
LEMMA FeedStep == ASSUME ConsoleInv, NEW k \in PageSockets, FeedNext(k) PROVE ConsoleInv'
<1>a. ConsoleTypes /\ \A j \in PageSockets : FeedInv(j) /\ StateInv(j) /\ LinesInv(j)
  BY DEF ConsoleInv
<1>b. /\ feed \in [PageSockets -> AFeed] /\ feed[k] \in AFeed
      /\ feed[k].out \in Seq(Envelopes) /\ feed[k].built \in Nat /\ feed[k].pending \in SUBSET Nat
      /\ feed[k].lines \in Seq(Nat) /\ agentState \in Nat
  BY <1>a DEF ConsoleTypes, AFeed
<1> USE DEF stateVars, ringVars
<1>1. CASE WakeFeed(k)
  <2> DEFINE y == [feed[k] EXCEPT !.woken = TRUE]
  <2>1. feed' = [feed EXCEPT ![k] = y]
    BY <1>1, <1>b, Zenon DEF WakeFeed
  <2>2. /\ y \in AFeed
        /\ y.at = feed[k].at /\ (y.woken <=> TRUE) /\ y.pump = feed[k].pump /\ y.built = feed[k].built
        /\ y.lines = feed[k].lines /\ y.pending = feed[k].pending /\ y.out = feed[k].out /\ (y.missed <=> feed[k].missed)
    BY <1>1, <1>b DEF AFeed, Places
  <2> HIDE DEF y
  <2>3. /\ feed' \in [PageSockets -> AFeed] /\ feed'[k] = y
        /\ \A j \in PageSockets : j # k => feed'[j] = feed[j]
    BY <1>b, <2>1, <2>2, FeedUpdate
  <2>4. ConsoleTypes'
    BY <1>1, <1>a, <2>3 DEF WakeFeed, ConsoleTypes
  <2>5. ASSUME NEW j \in PageSockets PROVE FeedInv(j)'
    BY <1>1, <1>a, <2>2, <2>3 DEF WakeFeed, FeedInv
  <2>6. ASSUME NEW j \in PageSockets PROVE StateInv(j)'
    BY <1>1, <1>a, <2>2, <2>3 DEF WakeFeed, FeedInv, StateInv, Coming
  <2>7. ASSUME NEW j \in PageSockets PROVE LinesInv(j)'
    <3> SUFFICES ASSUME page'.link = "open", page'.socket = j, feed'[j].at = "serving", NEW n \in Entries'
                 PROVE  LineReaches(j, n)'
      BY DEF LinesInv
    <3>0. Entries' = Entries /\ fanning' = fanning
      BY <1>1 DEF WakeFeed, Entries
    <3>1. LineReaches(j, n)
      BY <1>1, <1>a, <2>2, <2>3, <3>0 DEF WakeFeed, LinesInv
    <3>2. CASE j = k
      BY <1>1, <1>a, <2>2, <2>3, <3>0, <3>1, <3>2 DEF WakeFeed, LineReaches
    <3>3. CASE j # k
      BY <1>1, <2>3, <3>0, <3>1, <3>3 DEF WakeFeed, LineReaches
    <3> QED BY <3>2, <3>3
  <2> QED BY <2>4, <2>5, <2>6, <2>7 DEF ConsoleInv
<1>2. CASE Accept(k)
  <2>p. /\ page' \in [link : Links, socket : PageSockets, told : Nat, lines : SUBSET Nat]
        /\ page'.socket = page.socket /\ page'.told = page.told /\ page'.lines = page.lines
        /\ feed[k].at = "none" /\ page.socket = k
    BY <1>a, <1>2 DEF Accept, ConsoleTypes, Links
  <2> DEFINE y == [feed[k] EXCEPT !.at = "accepted"]
  <2>1. feed' = [feed EXCEPT ![k] = y]
    BY <1>2, <1>b, Zenon DEF Accept
  <2>2. /\ y \in AFeed
        /\ y.at = "accepted" /\ (y.woken <=> feed[k].woken) /\ y.pump = feed[k].pump /\ y.built = feed[k].built
        /\ y.lines = feed[k].lines /\ y.pending = feed[k].pending /\ y.out = feed[k].out /\ (y.missed <=> feed[k].missed)
    BY <1>2, <1>b DEF AFeed, Places
  <2> HIDE DEF y
  <2>3. /\ feed' \in [PageSockets -> AFeed] /\ feed'[k] = y
        /\ \A j \in PageSockets : j # k => feed'[j] = feed[j]
    BY <1>b, <2>1, <2>2, FeedUpdate
  <2>4. ConsoleTypes'
    BY <1>2, <1>a, <2>3, <2>p DEF Accept, ConsoleTypes
  <2>5. ASSUME NEW j \in PageSockets PROVE FeedInv(j)'
    BY <1>2, <1>a, <2>2, <2>3 DEF Accept, FeedInv
  <2>6. ASSUME NEW j \in PageSockets PROVE StateInv(j)'
    BY <1>2, <1>a, <2>2, <2>3, <2>p DEF Accept, FeedInv, StateInv, Coming
  <2>7. ASSUME NEW j \in PageSockets PROVE LinesInv(j)'
    <3> SUFFICES ASSUME page'.link = "open", page'.socket = j, feed'[j].at = "serving", NEW n \in Entries'
                 PROVE  LineReaches(j, n)'
      BY DEF LinesInv
    <3>0. Entries' = Entries /\ fanning' = fanning
      BY <1>2 DEF Accept, Entries
    <3>1. LineReaches(j, n)
      BY <1>2, <1>a, <2>2, <2>3, <3>0, <2>p DEF Accept, LinesInv
    <3>2. CASE j = k
      BY <1>2, <1>a, <2>2, <2>3, <3>0, <2>p, <3>1, <3>2 DEF Accept, LineReaches
    <3>3. CASE j # k
      BY <1>2, <2>3, <3>0, <2>p, <3>1, <3>3 DEF Accept, LineReaches
    <3> QED BY <3>2, <3>3
  <2> QED BY <2>4, <2>5, <2>6, <2>7 DEF ConsoleInv
<1>3. CASE Subscribe(k)
  <2> DEFINE y == [feed[k] EXCEPT !.at = "subscribed"]
  <2>1. feed' = [feed EXCEPT ![k] = y]
    BY <1>3, <1>b, Zenon DEF Subscribe
  <2>2. /\ y \in AFeed
        /\ y.at = "subscribed" /\ (y.woken <=> feed[k].woken) /\ y.pump = feed[k].pump /\ y.built = feed[k].built
        /\ y.lines = feed[k].lines /\ y.pending = feed[k].pending /\ y.out = feed[k].out /\ (y.missed <=> feed[k].missed)
    BY <1>3, <1>b DEF AFeed, Places
  <2> HIDE DEF y
  <2>3. /\ feed' \in [PageSockets -> AFeed] /\ feed'[k] = y
        /\ \A j \in PageSockets : j # k => feed'[j] = feed[j]
    BY <1>b, <2>1, <2>2, FeedUpdate
  <2>4. ConsoleTypes'
    BY <1>3, <1>a, <2>3 DEF Subscribe, ConsoleTypes
  <2>5. ASSUME NEW j \in PageSockets PROVE FeedInv(j)'
    BY <1>3, <1>a, <2>2, <2>3 DEF Subscribe, FeedInv
  <2>6. ASSUME NEW j \in PageSockets PROVE StateInv(j)'
    BY <1>3, <1>a, <2>2, <2>3 DEF Subscribe, FeedInv, StateInv, Coming
  <2>7. ASSUME NEW j \in PageSockets PROVE LinesInv(j)'
    <3> SUFFICES ASSUME page'.link = "open", page'.socket = j, feed'[j].at = "serving", NEW n \in Entries'
                 PROVE  LineReaches(j, n)'
      BY DEF LinesInv
    <3>0. Entries' = Entries /\ fanning' = fanning
      BY <1>3 DEF Subscribe, Entries
    <3>1. LineReaches(j, n)
      BY <1>3, <1>a, <2>2, <2>3, <3>0 DEF Subscribe, LinesInv
    <3>2. CASE j = k
      BY <1>3, <1>a, <2>2, <2>3, <3>0, <3>1, <3>2 DEF Subscribe, LineReaches
    <3>3. CASE j # k
      BY <1>3, <2>3, <3>0, <3>1, <3>3 DEF Subscribe, LineReaches
    <3> QED BY <3>2, <3>3
  <2> QED BY <2>4, <2>5, <2>6, <2>7 DEF ConsoleInv
<1>4. CASE SubscribeLogs(k)
  <2> DEFINE y == [feed[k] EXCEPT !.at = "following"]
  <2>1. feed' = [feed EXCEPT ![k] = y]
    BY <1>4, <1>b, Zenon DEF SubscribeLogs
  <2>2. /\ y \in AFeed
        /\ y.at = "following" /\ (y.woken <=> feed[k].woken) /\ y.pump = feed[k].pump /\ y.built = feed[k].built
        /\ y.lines = feed[k].lines /\ y.pending = feed[k].pending /\ y.out = feed[k].out /\ (y.missed <=> feed[k].missed)
    BY <1>4, <1>b DEF AFeed, Places
  <2> HIDE DEF y
  <2>3. /\ feed' \in [PageSockets -> AFeed] /\ feed'[k] = y
        /\ \A j \in PageSockets : j # k => feed'[j] = feed[j]
    BY <1>b, <2>1, <2>2, FeedUpdate
  <2>4. ConsoleTypes'
    BY <1>4, <1>a, <2>3 DEF SubscribeLogs, ConsoleTypes
  <2>5. ASSUME NEW j \in PageSockets PROVE FeedInv(j)'
    BY <1>4, <1>a, <2>2, <2>3 DEF SubscribeLogs, FeedInv
  <2>6. ASSUME NEW j \in PageSockets PROVE StateInv(j)'
    BY <1>4, <1>a, <2>2, <2>3 DEF SubscribeLogs, FeedInv, StateInv, Coming
  <2>7. ASSUME NEW j \in PageSockets PROVE LinesInv(j)'
    <3> SUFFICES ASSUME page'.link = "open", page'.socket = j, feed'[j].at = "serving", NEW n \in Entries'
                 PROVE  LineReaches(j, n)'
      BY DEF LinesInv
    <3>0. Entries' = Entries /\ fanning' = fanning
      BY <1>4 DEF SubscribeLogs, Entries
    <3>1. LineReaches(j, n)
      BY <1>4, <1>a, <2>2, <2>3, <3>0 DEF SubscribeLogs, LinesInv
    <3>2. CASE j = k
      BY <1>4, <1>a, <2>2, <2>3, <3>0, <3>1, <3>2 DEF SubscribeLogs, LineReaches
    <3>3. CASE j # k
      BY <1>4, <2>3, <3>0, <3>1, <3>3 DEF SubscribeLogs, LineReaches
    <3> QED BY <3>2, <3>3
  <2> QED BY <2>4, <2>5, <2>6, <2>7 DEF ConsoleInv
<1>5. CASE GreetState(k)
  <2> DEFINE o == Append(feed[k].out, StateEnvelope(agentState))
  <2>a. StateEnvelope(agentState) \in Envelopes /\ StateEnvelope(agentState).type = "state"
        /\ StateEnvelope(agentState).state = agentState
    BY <1>b DEF Envelopes, StateEnvelope
  <2>0. o \in Seq(Envelopes) /\ \A t : Shows(o, t, agentState)
    BY <1>b, <2>a, AppendForms
  <2> DEFINE y == [feed[k] EXCEPT !.at = "greeted", !.out = o]
  <2>1. feed' = [feed EXCEPT ![k] = y]
    BY <1>5, <1>b, Zenon DEF GreetState
  <2> HIDE DEF o
  <2>2. /\ y \in AFeed
        /\ y.at = "greeted" /\ (y.woken <=> feed[k].woken) /\ y.pump = feed[k].pump /\ y.built = feed[k].built
        /\ y.lines = feed[k].lines /\ y.pending = feed[k].pending /\ y.out = o /\ (y.missed <=> feed[k].missed)
    BY <1>5, <1>b, <2>0 DEF AFeed, Places
  <2> HIDE DEF y
  <2>3. /\ feed' \in [PageSockets -> AFeed] /\ feed'[k] = y
        /\ \A j \in PageSockets : j # k => feed'[j] = feed[j]
    BY <1>b, <2>1, <2>2, FeedUpdate
  <2>4. ConsoleTypes'
    BY <1>5, <1>a, <2>3 DEF GreetState, ConsoleTypes
  <2>5. ASSUME NEW j \in PageSockets PROVE FeedInv(j)'
    BY <1>5, <1>a, <2>2, <2>3 DEF GreetState, FeedInv
  <2>6. ASSUME NEW j \in PageSockets PROVE StateInv(j)'
    BY <1>5, <1>a, <2>2, <2>3, <2>0 DEF GreetState, FeedInv, StateInv, Coming
  <2>7. ASSUME NEW j \in PageSockets PROVE LinesInv(j)'
    <3> SUFFICES ASSUME page'.link = "open", page'.socket = j, feed'[j].at = "serving", NEW n \in Entries'
                 PROVE  LineReaches(j, n)'
      BY DEF LinesInv
    <3>0. Entries' = Entries /\ fanning' = fanning
      BY <1>5 DEF GreetState, Entries
    <3>1. LineReaches(j, n)
      BY <1>5, <1>a, <2>2, <2>3, <3>0 DEF GreetState, LinesInv
    <3>2. CASE j = k
      BY <1>5, <1>a, <2>2, <2>3, <3>0, <2>0, <3>1, <3>2 DEF GreetState, LineReaches
    <3>3. CASE j # k
      BY <1>5, <2>3, <3>0, <3>1, <3>3 DEF GreetState, LineReaches
    <3> QED BY <3>2, <3>3
  <2> QED BY <2>4, <2>5, <2>6, <2>7 DEF ConsoleInv
<1>6. CASE GreetLogs(k)
  <2> DEFINE e == [type |-> "logs", logs |-> Entries]
             o == IF Entries = {} THEN feed[k].out ELSE Append(feed[k].out, e)
  <2>a. e \in Envelopes /\ e.type = "logs" /\ e.logs = Entries
    BY DEF Envelopes, Entries
  <2>0. o \in Seq(Envelopes) /\ (\A t, v : Shows(feed[k].out, t, v) => Shows(o, t, v))
        /\ \A n \in Entries : Carries(o, n)
    BY <1>b, <2>a, AppendForms
  <2> DEFINE y == [feed[k] EXCEPT !.at = "serving", !.out = o]
  <2>1. feed' = [feed EXCEPT ![k] = y]
    BY <1>6, <1>b, Zenon DEF GreetLogs
  <2> HIDE DEF o, e
  <2>2. /\ y \in AFeed
        /\ y.at = "serving" /\ (y.woken <=> feed[k].woken) /\ y.pump = feed[k].pump /\ y.built = feed[k].built
        /\ y.lines = feed[k].lines /\ y.pending = feed[k].pending /\ y.out = o /\ (y.missed <=> feed[k].missed)
    BY <1>6, <1>b, <2>0 DEF AFeed, Places
  <2> HIDE DEF y
  <2>3. /\ feed' \in [PageSockets -> AFeed] /\ feed'[k] = y
        /\ \A j \in PageSockets : j # k => feed'[j] = feed[j]
    BY <1>b, <2>1, <2>2, FeedUpdate
  <2>4. ConsoleTypes'
    BY <1>6, <1>a, <2>3 DEF GreetLogs, ConsoleTypes
  <2>5. ASSUME NEW j \in PageSockets PROVE FeedInv(j)'
    BY <1>6, <1>a, <2>2, <2>3 DEF GreetLogs, FeedInv
  <2>6. ASSUME NEW j \in PageSockets PROVE StateInv(j)'
    <3> SUFFICES ASSUME page'.link = "open", page'.socket = j, feed'[j].at \in {"greeted", "serving"}
                 PROVE  Coming(j)' \/ Shows(feed'[j].out, page'.told, agentState')
      BY DEF StateInv
    <3>1. page.link = "open" /\ page.socket = j /\ feed[j].at \in {"greeted", "serving"}
      BY <1>6, <2>2, <2>3 DEF GreetLogs
    <3>2. Coming(j) \/ Shows(feed[j].out, page.told, agentState)
      BY <1>a, <3>1 DEF StateInv
    <3>3. CASE j # k
      BY <1>6, <2>3, <3>1, <3>2, <3>3 DEF GreetLogs, Coming
    <3>4. CASE j = k
      <4>1. Coming(k) => Coming(k)'
        BY <1>6, <2>2, <2>3 DEF GreetLogs, Coming
      <4>2. Shows(feed[k].out, page.told, agentState) => Shows(o, page'.told, agentState)
        BY <1>6, <2>0 DEF GreetLogs
      <4>3. feed'[k].out = o /\ agentState' = agentState
        BY <1>6, <2>2, <2>3 DEF GreetLogs
      <4> QED BY <3>2, <3>4, <4>1, <4>2, <4>3
    <3> QED BY <3>3, <3>4
  <2>7. ASSUME NEW j \in PageSockets PROVE LinesInv(j)'
    <3> SUFFICES ASSUME page'.link = "open", page'.socket = j, feed'[j].at = "serving", NEW n \in Entries'
                 PROVE  LineReaches(j, n)'
      BY DEF LinesInv
    <3>0. Entries' = Entries /\ fanning' = fanning
      BY <1>6 DEF GreetLogs, Entries
    <3>1. CASE j = k
      <4>1. Carries(o, n)
        BY <2>0, <3>0
      <4> QED BY <2>2, <2>3, <3>1, <4>1 DEF LineReaches
    <3>2. CASE j # k
      <4>1. LineReaches(j, n)
        BY <1>6, <1>a, <2>3, <3>0, <3>2 DEF GreetLogs, LinesInv
      <4> QED BY <1>6, <2>3, <3>0, <3>2, <4>1 DEF GreetLogs, LineReaches
    <3> QED BY <3>1, <3>2
  <2> QED BY <2>4, <2>5, <2>6, <2>7 DEF ConsoleInv
<1>7. CASE TakeChange(k)
  <2> DEFINE y == [feed[k] EXCEPT !.woken = FALSE, !.pump = "woken"]
  <2>1. feed' = [feed EXCEPT ![k] = y]
    BY <1>7, <1>b, Zenon DEF TakeChange
  <2>2. /\ y \in AFeed
        /\ y.at = feed[k].at /\ (y.woken <=> FALSE) /\ y.pump = "woken" /\ y.built = feed[k].built
        /\ y.lines = feed[k].lines /\ y.pending = feed[k].pending /\ y.out = feed[k].out /\ (y.missed <=> feed[k].missed)
    BY <1>7, <1>b DEF AFeed, Places
  <2> HIDE DEF y
  <2>3. /\ feed' \in [PageSockets -> AFeed] /\ feed'[k] = y
        /\ \A j \in PageSockets : j # k => feed'[j] = feed[j]
    BY <1>b, <2>1, <2>2, FeedUpdate
  <2>4. ConsoleTypes'
    BY <1>7, <1>a, <2>3 DEF TakeChange, ConsoleTypes
  <2>5. ASSUME NEW j \in PageSockets PROVE FeedInv(j)'
    BY <1>7, <1>a, <2>2, <2>3 DEF TakeChange, FeedInv
  <2>6. ASSUME NEW j \in PageSockets PROVE StateInv(j)'
    BY <1>7, <1>a, <2>2, <2>3 DEF TakeChange, FeedInv, StateInv, Coming
  <2>7. ASSUME NEW j \in PageSockets PROVE LinesInv(j)'
    <3> SUFFICES ASSUME page'.link = "open", page'.socket = j, feed'[j].at = "serving", NEW n \in Entries'
                 PROVE  LineReaches(j, n)'
      BY DEF LinesInv
    <3>0. Entries' = Entries /\ fanning' = fanning
      BY <1>7 DEF TakeChange, Entries
    <3>1. LineReaches(j, n)
      BY <1>7, <1>a, <2>2, <2>3, <3>0 DEF TakeChange, LinesInv
    <3>2. CASE j = k
      BY <1>7, <1>a, <2>2, <2>3, <3>0, <3>1, <3>2 DEF TakeChange, LineReaches
    <3>3. CASE j # k
      BY <1>7, <2>3, <3>0, <3>1, <3>3 DEF TakeChange, LineReaches
    <3> QED BY <3>2, <3>3
  <2> QED BY <2>4, <2>5, <2>6, <2>7 DEF ConsoleInv
<1>8. CASE BuildState(k)
  <2> DEFINE y == [feed[k] EXCEPT !.pump = "built", !.built = agentState]
  <2>1. feed' = [feed EXCEPT ![k] = y]
    BY <1>8, <1>b, Zenon DEF BuildState
  <2>2. /\ y \in AFeed
        /\ y.at = feed[k].at /\ (y.woken <=> feed[k].woken) /\ y.pump = "built" /\ y.built = agentState
        /\ y.lines = feed[k].lines /\ y.pending = feed[k].pending /\ y.out = feed[k].out /\ (y.missed <=> feed[k].missed)
    BY <1>8, <1>b DEF AFeed, Places
  <2> HIDE DEF y
  <2>3. /\ feed' \in [PageSockets -> AFeed] /\ feed'[k] = y
        /\ \A j \in PageSockets : j # k => feed'[j] = feed[j]
    BY <1>b, <2>1, <2>2, FeedUpdate
  <2>4. ConsoleTypes'
    BY <1>8, <1>a, <2>3 DEF BuildState, ConsoleTypes
  <2>5. ASSUME NEW j \in PageSockets PROVE FeedInv(j)'
    BY <1>8, <1>a, <2>2, <2>3 DEF BuildState, FeedInv
  <2>6. ASSUME NEW j \in PageSockets PROVE StateInv(j)'
    BY <1>8, <1>a, <2>2, <2>3 DEF BuildState, FeedInv, StateInv, Coming
  <2>7. ASSUME NEW j \in PageSockets PROVE LinesInv(j)'
    <3> SUFFICES ASSUME page'.link = "open", page'.socket = j, feed'[j].at = "serving", NEW n \in Entries'
                 PROVE  LineReaches(j, n)'
      BY DEF LinesInv
    <3>0. Entries' = Entries /\ fanning' = fanning
      BY <1>8 DEF BuildState, Entries
    <3>1. LineReaches(j, n)
      BY <1>8, <1>a, <2>2, <2>3, <3>0 DEF BuildState, LinesInv
    <3>2. CASE j = k
      BY <1>8, <1>a, <2>2, <2>3, <3>0, <3>1, <3>2 DEF BuildState, LineReaches
    <3>3. CASE j # k
      BY <1>8, <2>3, <3>0, <3>1, <3>3 DEF BuildState, LineReaches
    <3> QED BY <3>2, <3>3
  <2> QED BY <2>4, <2>5, <2>6, <2>7 DEF ConsoleInv
<1>9. CASE PushState(k)
  <2> DEFINE e == StateEnvelope(feed[k].built)
             o == IF HasRoom(k) THEN Append(feed[k].out, e) ELSE feed[k].out
  <2>a. e \in Envelopes /\ e.type = "state" /\ e.state = feed[k].built
    BY <1>b DEF Envelopes, StateEnvelope
  <2>0. o \in Seq(Envelopes) /\ (HasRoom(k) => \A t : Shows(o, t, feed[k].built))
        /\ \A n : Carries(feed[k].out, n) => Carries(o, n)
    BY <1>b, <2>a, AppendForms
  <2> DEFINE y == [feed[k] EXCEPT !.pump = "idle", !.built = 0, !.missed = ~HasRoom(k), !.out = o]
  <2>1. feed' = [feed EXCEPT ![k] = y]
    BY <1>9, <1>b, Zenon DEF PushState
  <2> HIDE DEF o, e
  <2>2. /\ y \in AFeed
        /\ y.at = feed[k].at /\ (y.woken <=> feed[k].woken) /\ y.pump = "idle" /\ y.built = 0
        /\ y.lines = feed[k].lines /\ y.pending = feed[k].pending /\ y.out = o /\ (y.missed <=> ~HasRoom(k))
    BY <1>9, <1>b, <2>0 DEF AFeed, Places
  <2> HIDE DEF y
  <2>3. /\ feed' \in [PageSockets -> AFeed] /\ feed'[k] = y
        /\ \A j \in PageSockets : j # k => feed'[j] = feed[j]
    BY <1>b, <2>1, <2>2, FeedUpdate
  <2>4. ConsoleTypes'
    BY <1>9, <1>a, <2>3 DEF PushState, ConsoleTypes
  <2>5. ASSUME NEW j \in PageSockets PROVE FeedInv(j)'
    BY <1>9, <1>a, <2>2, <2>3 DEF PushState, FeedInv
  <2>6. ASSUME NEW j \in PageSockets PROVE StateInv(j)'
    <3> SUFFICES ASSUME page'.link = "open", page'.socket = j, feed'[j].at \in {"greeted", "serving"}
                 PROVE  Coming(j)' \/ Shows(feed'[j].out, page'.told, agentState')
      BY DEF StateInv
    <3>1. page.link = "open" /\ page.socket = j /\ feed[j].at \in {"greeted", "serving"}
      BY <1>9, <2>2, <2>3 DEF PushState
    <3>2. Coming(j) \/ Shows(feed[j].out, page.told, agentState)
      BY <1>a, <3>1 DEF StateInv
    <3>3. CASE j # k
      BY <1>9, <2>3, <3>1, <3>2, <3>3 DEF PushState, Coming
    <3>4. CASE j = k
      <4>1. CASE HasRoom(k)
        <5>1. CASE feed[k].built = agentState
          <6>1. Shows(o, page.told, agentState)
            BY <2>0, <4>1, <5>1
          <6> QED BY <1>9, <2>2, <2>3, <3>4, <6>1 DEF PushState
        <5>2. CASE feed[k].built # agentState
          <6>1. untold > 0 \/ k \in waking \/ feed[k].woken
            BY <1>9, <1>a, <5>2 DEF PushState, FeedInv
          <6> QED BY <1>9, <2>2, <2>3, <3>4, <6>1 DEF PushState, Coming
        <5> QED BY <5>1, <5>2
      <4>2. CASE ~HasRoom(k)
        BY <2>2, <2>3, <3>4, <4>2 DEF Coming
      <4> QED BY <4>1, <4>2
    <3> QED BY <3>3, <3>4
  <2>7. ASSUME NEW j \in PageSockets PROVE LinesInv(j)'
    <3> SUFFICES ASSUME page'.link = "open", page'.socket = j, feed'[j].at = "serving", NEW n \in Entries'
                 PROVE  LineReaches(j, n)'
      BY DEF LinesInv
    <3>0. Entries' = Entries /\ fanning' = fanning
      BY <1>9 DEF PushState, Entries
    <3>1. LineReaches(j, n)
      BY <1>9, <1>a, <2>2, <2>3, <3>0 DEF PushState, LinesInv
    <3>2. CASE j = k
      <4>1. /\ page.lines \subseteq page'.lines /\ passed \subseteq passed'
            /\ feed'[k].lines = feed[k].lines /\ feed'[k].pending = feed[k].pending /\ feed'[k].out = o
        BY <1>9, <2>2, <2>3 DEF PushState
      <4>2. CASE n \in page.lines \/ n \in passed \/ \E l \in Loggers : fanning[l].line = n /\ k \in fanning[l].to
        BY <3>0, <3>2, <4>1, <4>2 DEF LineReaches
      <4>3. CASE n \in feed[k].pending
        BY <3>2, <4>1, <4>3 DEF LineReaches
      <4>4. CASE \E i \in DOMAIN feed[k].lines : feed[k].lines[i] = n
        BY <3>2, <4>1, <4>4 DEF LineReaches
      <4>5. CASE Carries(feed[k].out, n)
        <5>1. Carries(o, n)
          BY <2>0, <4>5
        <5> QED BY <3>2, <4>1, <5>1 DEF LineReaches
      <4> QED BY <3>1, <3>2, <4>2, <4>3, <4>4, <4>5 DEF LineReaches
    <3>3. CASE j # k
      BY <1>9, <2>3, <3>0, <3>1, <3>3 DEF PushState, LineReaches
    <3> QED BY <3>2, <3>3
  <2> QED BY <2>4, <2>5, <2>6, <2>7 DEF ConsoleInv
<1>10. CASE TakeLine(k)
  <2> DEFINE z == Tail(feed[k].lines)
             p == feed[k].pending \cup {Head(feed[k].lines)}
  <2>0. /\ z \in Seq(Nat) /\ p \in SUBSET Nat /\ feed[k].pending \subseteq p
        /\ \A i \in DOMAIN feed[k].lines :
              feed[k].lines[i] \in p \/ \E j \in DOMAIN z : z[j] = feed[k].lines[i]
    <3>1. feed[k].lines \in Seq(Nat) /\ feed[k].lines # << >>
      BY <1>b, <1>10 DEF TakeLine
    <3>2. /\ Head(feed[k].lines) \in Nat /\ z \in Seq(Nat) /\ Head(feed[k].lines) = feed[k].lines[1]
          /\ \A i \in DOMAIN feed[k].lines : i = 1 \/ \E j \in DOMAIN z : z[j] = feed[k].lines[i]
      BY <3>1, TailLines
    <3> QED BY <1>b, <3>2
  <2> DEFINE y == [feed[k] EXCEPT !.lines = z, !.pending = p]
  <2>1. feed' = [feed EXCEPT ![k] = y]
    BY <1>10, <1>b, Zenon DEF TakeLine
  <2> HIDE DEF z, p
  <2>2. /\ y \in AFeed
        /\ y.at = feed[k].at /\ (y.woken <=> feed[k].woken) /\ y.pump = feed[k].pump /\ y.built = feed[k].built
        /\ y.lines = z /\ y.pending = p /\ y.out = feed[k].out /\ (y.missed <=> feed[k].missed)
    BY <1>10, <1>b, <2>0 DEF AFeed, Places
  <2> HIDE DEF y
  <2>3. /\ feed' \in [PageSockets -> AFeed] /\ feed'[k] = y
        /\ \A j \in PageSockets : j # k => feed'[j] = feed[j]
    BY <1>b, <2>1, <2>2, FeedUpdate
  <2>4. ConsoleTypes'
    BY <1>10, <1>a, <2>3 DEF TakeLine, ConsoleTypes
  <2>5. ASSUME NEW j \in PageSockets PROVE FeedInv(j)'
    BY <1>10, <1>a, <2>2, <2>3 DEF TakeLine, FeedInv
  <2>6. ASSUME NEW j \in PageSockets PROVE StateInv(j)'
    BY <1>10, <1>a, <2>2, <2>3, <2>0 DEF TakeLine, FeedInv, StateInv, Coming
  <2>7. ASSUME NEW j \in PageSockets PROVE LinesInv(j)'
    <3> SUFFICES ASSUME page'.link = "open", page'.socket = j, feed'[j].at = "serving", NEW n \in Entries'
                 PROVE  LineReaches(j, n)'
      BY DEF LinesInv
    <3>0. Entries' = Entries /\ fanning' = fanning
      BY <1>10 DEF TakeLine, Entries
    <3>1. LineReaches(j, n)
      BY <1>10, <1>a, <2>2, <2>3, <3>0 DEF TakeLine, LinesInv
    <3>2. CASE j = k
      <4>1. /\ page.lines \subseteq page'.lines /\ passed \subseteq passed'
            /\ feed'[k].lines = z /\ feed'[k].pending = p /\ feed'[k].out = feed[k].out
        BY <1>10, <2>2, <2>3 DEF TakeLine
      <4>2. CASE n \in page.lines \/ n \in passed \/ \E l \in Loggers : fanning[l].line = n /\ k \in fanning[l].to
        BY <3>0, <3>2, <4>1, <4>2 DEF LineReaches
      <4>3. CASE n \in feed[k].pending
        BY <3>2, <4>1, <2>0, <4>3 DEF LineReaches
      <4>4. CASE \E i \in DOMAIN feed[k].lines : feed[k].lines[i] = n
        <5>1. n \in p \/ \E i \in DOMAIN z : z[i] = n
          BY <2>0, <4>4
        <5> QED BY <3>2, <4>1, <5>1 DEF LineReaches
      <4>5. CASE Carries(feed[k].out, n)
        BY <3>2, <4>1, <4>5 DEF LineReaches
      <4> QED BY <3>1, <3>2, <4>2, <4>3, <4>4, <4>5 DEF LineReaches
    <3>3. CASE j # k
      BY <1>10, <2>3, <3>0, <3>1, <3>3 DEF TakeLine, LineReaches
    <3> QED BY <3>2, <3>3
  <2> QED BY <2>4, <2>5, <2>6, <2>7 DEF ConsoleInv
<1>11. CASE Flush(k)
  <2> DEFINE e == [type |-> "logs", logs |-> feed[k].pending]
             o == IF HasRoom(k) THEN Append(feed[k].out, e) ELSE feed[k].out
  <2>a. e \in Envelopes /\ e.type = "logs" /\ e.logs = feed[k].pending
    BY <1>b DEF Envelopes
  <2>0. o \in Seq(Envelopes) /\ (\A t, v : Shows(feed[k].out, t, v) => Shows(o, t, v))
        /\ (\A n : Carries(feed[k].out, n) => Carries(o, n))
        /\ (HasRoom(k) => \A n \in feed[k].pending : Carries(o, n))
    BY <1>b, <2>a, AppendForms
  <2> DEFINE y == [feed[k] EXCEPT !.pending = {}, !.out = o]
  <2>1. feed' = [feed EXCEPT ![k] = y]
    BY <1>11, <1>b, Zenon DEF Flush
  <2> HIDE DEF o, e
  <2>2. /\ y \in AFeed
        /\ y.at = feed[k].at /\ (y.woken <=> feed[k].woken) /\ y.pump = feed[k].pump /\ y.built = feed[k].built
        /\ y.lines = feed[k].lines /\ y.pending = {} /\ y.out = o /\ (y.missed <=> feed[k].missed)
    BY <1>11, <1>b, <2>0 DEF AFeed, Places
  <2> HIDE DEF y
  <2>3. /\ feed' \in [PageSockets -> AFeed] /\ feed'[k] = y
        /\ \A j \in PageSockets : j # k => feed'[j] = feed[j]
    BY <1>b, <2>1, <2>2, FeedUpdate
  <2>4. ConsoleTypes'
    BY <1>11, <1>a, <2>3 DEF Flush, ConsoleTypes
  <2>5. ASSUME NEW j \in PageSockets PROVE FeedInv(j)'
    BY <1>11, <1>a, <2>2, <2>3 DEF Flush, FeedInv
  <2>6. ASSUME NEW j \in PageSockets PROVE StateInv(j)'
    <3> SUFFICES ASSUME page'.link = "open", page'.socket = j, feed'[j].at \in {"greeted", "serving"}
                 PROVE  Coming(j)' \/ Shows(feed'[j].out, page'.told, agentState')
      BY DEF StateInv
    <3>1. page.link = "open" /\ page.socket = j /\ feed[j].at \in {"greeted", "serving"}
      BY <1>11, <2>2, <2>3 DEF Flush
    <3>2. Coming(j) \/ Shows(feed[j].out, page.told, agentState)
      BY <1>a, <3>1 DEF StateInv
    <3>3. CASE j # k
      BY <1>11, <2>3, <3>1, <3>2, <3>3 DEF Flush, Coming
    <3>4. CASE j = k
      <4>1. Coming(k) => Coming(k)'
        BY <1>11, <2>2, <2>3 DEF Flush, Coming
      <4>2. Shows(feed[k].out, page.told, agentState) => Shows(o, page'.told, agentState)
        BY <1>11, <2>0 DEF Flush
      <4>3. feed'[k].out = o /\ agentState' = agentState
        BY <1>11, <2>2, <2>3 DEF Flush
      <4> QED BY <3>2, <3>4, <4>1, <4>2, <4>3
    <3> QED BY <3>3, <3>4
  <2>7. ASSUME NEW j \in PageSockets PROVE LinesInv(j)'
    <3> SUFFICES ASSUME page'.link = "open", page'.socket = j, feed'[j].at = "serving", NEW n \in Entries'
                 PROVE  LineReaches(j, n)'
      BY DEF LinesInv
    <3>0. Entries' = Entries /\ fanning' = fanning
      BY <1>11 DEF Flush, Entries
    <3>1. LineReaches(j, n)
      BY <1>11, <1>a, <2>2, <2>3, <3>0 DEF Flush, LinesInv
    <3>2. CASE j = k
      <4>1. /\ page.lines \subseteq page'.lines /\ passed \subseteq passed'
            /\ feed'[k].lines = feed[k].lines /\ feed'[k].pending = {} /\ feed'[k].out = o
        BY <1>11, <2>2, <2>3 DEF Flush
      <4>2. CASE n \in page.lines \/ n \in passed \/ \E l \in Loggers : fanning[l].line = n /\ k \in fanning[l].to
        BY <3>0, <3>2, <4>1, <4>2 DEF LineReaches
      <4>3. CASE n \in feed[k].pending
        <5>1. CASE HasRoom(k)
          <6>1. Carries(o, n)
            BY <2>0, <4>3, <5>1
          <6> QED BY <3>2, <4>1, <6>1 DEF LineReaches
        <5>2. CASE ~HasRoom(k)
          BY <1>11, <3>2, <4>3, <5>2 DEF Flush, LineReaches
        <5> QED BY <5>1, <5>2
      <4>4. CASE \E i \in DOMAIN feed[k].lines : feed[k].lines[i] = n
        BY <3>2, <4>1, <4>4 DEF LineReaches
      <4>5. CASE Carries(feed[k].out, n)
        <5>1. Carries(o, n)
          BY <2>0, <4>5
        <5> QED BY <3>2, <4>1, <5>1 DEF LineReaches
      <4> QED BY <3>1, <3>2, <4>2, <4>3, <4>4, <4>5 DEF LineReaches
    <3>3. CASE j # k
      BY <1>11, <2>3, <3>0, <3>1, <3>3 DEF Flush, LineReaches
    <3> QED BY <3>2, <3>3
  <2> QED BY <2>4, <2>5, <2>6, <2>7 DEF ConsoleInv
<1>12. CASE Deliver(k)
  <2> DEFINE o == Tail(feed[k].out)
             env == Head(feed[k].out)
  <2>0. /\ env \in Envelopes /\ o \in Seq(Envelopes)
        /\ env.type = "state" => \A t, v : Shows(feed[k].out, t, v) => Shows(o, env.state, v)
        /\ env.type # "state" => \A t, v : Shows(feed[k].out, t, v) => Shows(o, t, v)
        /\ \A n : Carries(feed[k].out, n) => Carries(o, n) \/ (env.type = "logs" /\ n \in env.logs)
    BY <1>b, <1>12, TailForms DEF Deliver
  <2>p. /\ page' \in [link : Links, socket : PageSockets, told : Nat, lines : SUBSET Nat]
        /\ page'.link = page.link /\ page'.socket = page.socket
        /\ env.type = "state" => page'.told = env.state /\ page'.lines = page.lines /\ passed' = passed
        /\ env.type # "state" => page'.told = page.told
        /\ page.lines \subseteq page'.lines /\ passed \subseteq passed'
        /\ env.type = "logs" => env.logs \subseteq page'.lines \cup passed'
    <3>1. CASE env.type = "state"
      <4>1. page' = [page EXCEPT !.told = env.state] /\ passed' = passed /\ env.state \in Nat
        BY <1>12, <2>0, <3>1 DEF Deliver, Envelopes
      <4> QED BY <1>a, <3>1, <4>1 DEF ConsoleTypes
    <3>2. CASE env.type # "state"
      <4>1. /\ page' = [page EXCEPT !.lines = page.lines \cup Fresh(env.logs)]
            /\ passed' = passed \cup (env.logs \ (page.lines \cup Fresh(env.logs)))
            /\ env.logs \subseteq Nat /\ Fresh(env.logs) \subseteq Nat
        BY <1>12, <2>0, <3>2 DEF Deliver, Envelopes, Fresh
      <4> QED BY <1>a, <3>2, <4>1 DEF ConsoleTypes
    <3> QED BY <3>1, <3>2
  <2> DEFINE y == [feed[k] EXCEPT !.out = o]
  <2>1. feed' = [feed EXCEPT ![k] = y]
    BY <1>12, <1>b, Zenon DEF Deliver
  <2> HIDE DEF o, env
  <2>2. /\ y \in AFeed
        /\ y.at = feed[k].at /\ (y.woken <=> feed[k].woken) /\ y.pump = feed[k].pump /\ y.built = feed[k].built
        /\ y.lines = feed[k].lines /\ y.pending = feed[k].pending /\ y.out = o /\ (y.missed <=> feed[k].missed)
    BY <1>12, <1>b, <2>0 DEF AFeed, Places
  <2> HIDE DEF y
  <2>3. /\ feed' \in [PageSockets -> AFeed] /\ feed'[k] = y
        /\ \A j \in PageSockets : j # k => feed'[j] = feed[j]
    BY <1>b, <2>1, <2>2, FeedUpdate
  <2>4. ConsoleTypes'
    BY <1>12, <1>a, <2>3, <2>p DEF Deliver, ConsoleTypes
  <2>5. ASSUME NEW j \in PageSockets PROVE FeedInv(j)'
    BY <1>12, <1>a, <2>2, <2>3 DEF Deliver, FeedInv
  <2>6. ASSUME NEW j \in PageSockets PROVE StateInv(j)'
    <3> SUFFICES ASSUME page'.link = "open", page'.socket = j, feed'[j].at \in {"greeted", "serving"}
                 PROVE  Coming(j)' \/ Shows(feed'[j].out, page'.told, agentState')
      BY DEF StateInv
    <3>1. page.link = "open" /\ page.socket = j /\ feed[j].at \in {"greeted", "serving"}
      BY <1>12, <2>2, <2>3, <2>p DEF Deliver
    <3>2. Coming(j) \/ Shows(feed[j].out, page.told, agentState)
      BY <1>a, <3>1 DEF StateInv
    <3>3. CASE j # k
      BY <1>12, <2>3, <3>1, <3>2, <3>3, <2>p DEF Deliver, Coming
    <3>4. CASE j = k
      <4>1. Coming(k) => Coming(k)'
        BY <1>12, <2>2, <2>3 DEF Deliver, Coming
      <4>2. Shows(feed[k].out, page.told, agentState) => Shows(o, page'.told, agentState)
        BY <1>12, <2>0, <2>p DEF Deliver
      <4>3. feed'[k].out = o /\ agentState' = agentState
        BY <1>12, <2>2, <2>3 DEF Deliver
      <4> QED BY <3>2, <3>4, <4>1, <4>2, <4>3
    <3> QED BY <3>3, <3>4
  <2>7. ASSUME NEW j \in PageSockets PROVE LinesInv(j)'
    <3> SUFFICES ASSUME page'.link = "open", page'.socket = j, feed'[j].at = "serving", NEW n \in Entries'
                 PROVE  LineReaches(j, n)'
      BY DEF LinesInv
    <3>0. Entries' = Entries /\ fanning' = fanning
      BY <1>12 DEF Deliver, Entries
    <3>1. LineReaches(j, n)
      BY <1>12, <1>a, <2>2, <2>3, <3>0, <2>p DEF Deliver, LinesInv
    <3>2. CASE j = k
      <4>1. /\ page.lines \subseteq page'.lines /\ passed \subseteq passed'
            /\ feed'[k].lines = feed[k].lines /\ feed'[k].pending = feed[k].pending /\ feed'[k].out = o
        BY <1>12, <2>2, <2>3, <2>p DEF Deliver
      <4>2. CASE n \in page.lines \/ n \in passed \/ \E l \in Loggers : fanning[l].line = n /\ k \in fanning[l].to
        BY <3>0, <3>2, <4>1, <4>2 DEF LineReaches
      <4>3. CASE n \in feed[k].pending
        BY <3>2, <4>1, <4>3 DEF LineReaches
      <4>4. CASE \E i \in DOMAIN feed[k].lines : feed[k].lines[i] = n
        BY <3>2, <4>1, <4>4 DEF LineReaches
      <4>5. CASE Carries(feed[k].out, n)
        <5>1. Carries(o, n) \/ (env.type = "logs" /\ n \in env.logs)
          BY <2>0, <4>5
        <5>2. CASE Carries(o, n)
          BY <3>2, <4>1, <5>2 DEF LineReaches
        <5>3. CASE env.type = "logs" /\ n \in env.logs
          BY <2>p, <3>2, <5>3 DEF LineReaches
        <5> QED BY <5>1, <5>2, <5>3
      <4> QED BY <3>1, <3>2, <4>2, <4>3, <4>4, <4>5 DEF LineReaches
    <3>3. CASE j # k
      BY <1>12, <2>3, <3>0, <2>p, <3>1, <3>3 DEF Deliver, LineReaches
    <3> QED BY <3>2, <3>3
  <2> QED BY <2>4, <2>5, <2>6, <2>7 DEF ConsoleInv
<1>13. CASE CancelLogs(k)
  <2> DEFINE y == [feed[k] EXCEPT !.at = "leaving"]
  <2>1. feed' = [feed EXCEPT ![k] = y]
    BY <1>13, <1>b, Zenon DEF CancelLogs
  <2>2. /\ y \in AFeed
        /\ y.at = "leaving" /\ (y.woken <=> feed[k].woken) /\ y.pump = feed[k].pump /\ y.built = feed[k].built
        /\ y.lines = feed[k].lines /\ y.pending = feed[k].pending /\ y.out = feed[k].out /\ (y.missed <=> feed[k].missed)
    BY <1>13, <1>b DEF AFeed, Places
  <2> HIDE DEF y
  <2>3. /\ feed' \in [PageSockets -> AFeed] /\ feed'[k] = y
        /\ \A j \in PageSockets : j # k => feed'[j] = feed[j]
    BY <1>b, <2>1, <2>2, FeedUpdate
  <2>4. ConsoleTypes'
    BY <1>13, <1>a, <2>3 DEF CancelLogs, ConsoleTypes
  <2>5. ASSUME NEW j \in PageSockets PROVE FeedInv(j)'
    BY <1>13, <1>a, <2>2, <2>3 DEF CancelLogs, FeedInv
  <2>6. ASSUME NEW j \in PageSockets PROVE StateInv(j)'
    BY <1>13, <1>a, <2>2, <2>3 DEF CancelLogs, FeedInv, StateInv, Coming
  <2>7. ASSUME NEW j \in PageSockets PROVE LinesInv(j)'
    <3> SUFFICES ASSUME page'.link = "open", page'.socket = j, feed'[j].at = "serving", NEW n \in Entries'
                 PROVE  LineReaches(j, n)'
      BY DEF LinesInv
    <3>0. Entries' = Entries /\ fanning' = fanning
      BY <1>13 DEF CancelLogs, Entries
    <3>1. LineReaches(j, n)
      BY <1>13, <1>a, <2>2, <2>3, <3>0 DEF CancelLogs, LinesInv
    <3>2. CASE j = k
      BY <1>13, <1>a, <2>2, <2>3, <3>0, <3>1, <3>2 DEF CancelLogs, LineReaches
    <3>3. CASE j # k
      BY <1>13, <2>3, <3>0, <3>1, <3>3 DEF CancelLogs, LineReaches
    <3> QED BY <3>2, <3>3
  <2> QED BY <2>4, <2>5, <2>6, <2>7 DEF ConsoleInv
<1>14. CASE FeedLeaves(k)
  <2> DEFINE y == [feed[k] EXCEPT !.at = "over"]
  <2>1. feed' = [feed EXCEPT ![k] = y]
    BY <1>14, <1>b, Zenon DEF FeedLeaves
  <2>2. /\ y \in AFeed
        /\ y.at = "over" /\ (y.woken <=> feed[k].woken) /\ y.pump = feed[k].pump /\ y.built = feed[k].built
        /\ y.lines = feed[k].lines /\ y.pending = feed[k].pending /\ y.out = feed[k].out /\ (y.missed <=> feed[k].missed)
    BY <1>14, <1>b DEF AFeed, Places
  <2> HIDE DEF y
  <2>3. /\ feed' \in [PageSockets -> AFeed] /\ feed'[k] = y
        /\ \A j \in PageSockets : j # k => feed'[j] = feed[j]
    BY <1>b, <2>1, <2>2, FeedUpdate
  <2>4. ConsoleTypes'
    BY <1>14, <1>a, <2>3 DEF FeedLeaves, ConsoleTypes
  <2>5. ASSUME NEW j \in PageSockets PROVE FeedInv(j)'
    BY <1>14, <1>a, <2>2, <2>3 DEF FeedLeaves, FeedInv
  <2>6. ASSUME NEW j \in PageSockets PROVE StateInv(j)'
    BY <1>14, <1>a, <2>2, <2>3 DEF FeedLeaves, FeedInv, StateInv, Coming
  <2>7. ASSUME NEW j \in PageSockets PROVE LinesInv(j)'
    <3> SUFFICES ASSUME page'.link = "open", page'.socket = j, feed'[j].at = "serving", NEW n \in Entries'
                 PROVE  LineReaches(j, n)'
      BY DEF LinesInv
    <3>0. Entries' = Entries /\ fanning' = fanning
      BY <1>14 DEF FeedLeaves, Entries
    <3>1. LineReaches(j, n)
      BY <1>14, <1>a, <2>2, <2>3, <3>0 DEF FeedLeaves, LinesInv
    <3>2. CASE j = k
      BY <1>14, <1>a, <2>2, <2>3, <3>0, <3>1, <3>2 DEF FeedLeaves, LineReaches
    <3>3. CASE j # k
      BY <1>14, <2>3, <3>0, <3>1, <3>3 DEF FeedLeaves, LineReaches
    <3> QED BY <3>2, <3>3
  <2> QED BY <2>4, <2>5, <2>6, <2>7 DEF ConsoleInv
<1> QED BY <1>1, <1>2, <1>3, <1>4, <1>5, <1>6, <1>7, <1>8, <1>9, <1>10, <1>11, <1>12, <1>13, <1>14 DEF FeedNext

LEMMA ConsoleStart == ConsoleInit => ConsoleInv
<1> SUFFICES ASSUME ConsoleInit PROVE ConsoleInv
  OBVIOUS
<1>1. 1 \in PageSockets
  BY SizesOK DEF PageSockets
<1>2. ConsoleTypes
  BY <1>1 DEF ConsoleInit, ConsoleTypes, AFeed, Places, Links, Quiet
<1>3. ASSUME NEW k \in PageSockets PROVE FeedInv(k) /\ StateInv(k) /\ LinesInv(k)
  BY <1>3 DEF ConsoleInit, FeedInv, StateInv, LinesInv
<1> QED BY <1>2, <1>3 DEF ConsoleInv

(* The ring records a line and sends it to who subscribes to it.           *)
LEMMA RingStep == ASSUME ConsoleInv, NEW l \in Loggers, LoggerNext(l) PROVE ConsoleInv'
<1>a. ConsoleTypes /\ \A j \in PageSockets : FeedInv(j) /\ StateInv(j) /\ LinesInv(j)
  BY DEF ConsoleInv
<1>b. /\ fanning \in [Loggers -> [line : Nat, to : SUBSET PageSockets]]
      /\ fanning[l] \in [line : Nat, to : SUBSET PageSockets] /\ recorded \in Nat
      /\ feed \in [PageSockets -> AFeed]
  BY <1>a DEF ConsoleTypes
<1> USE DEF stateVars, ringVars
<1>1. CASE Write(l)
  <2>1. /\ recorded' = recorded + 1 /\ fanning[l].line = 0 /\ fanning'[l] = [line |-> recorded', to |-> ringSubs]
        /\ \A m \in Loggers : m # l => fanning'[m] = fanning[m]
        /\ fanning' \in [Loggers -> [line : Nat, to : SUBSET PageSockets]] \/ ~(ringSubs \subseteq PageSockets)
    BY <1>1, <1>b DEF Write
  <2>2. ringSubs \subseteq PageSockets
    BY <1>a DEF ConsoleTypes
  <2>3. ConsoleTypes'
    BY <1>1, <1>a, <1>b, <2>1, <2>2 DEF Write, ConsoleTypes
  <2>4. ASSUME NEW j \in PageSockets PROVE FeedInv(j)' /\ StateInv(j)'
    BY <1>1, <1>a DEF Write, FeedInv, StateInv, Coming
  <2>5. ASSUME NEW j \in PageSockets PROVE LinesInv(j)'
    <3> SUFFICES ASSUME page.link = "open", page.socket = j, feed[j].at = "serving", NEW n \in Entries'
                 PROVE  LineReaches(j, n)'
      BY <1>1 DEF Write, LinesInv
    <3>1. CASE n = recorded'
      <4>1. j \in ringSubs
        BY <1>a DEF FeedInv
      <4>2. \E m \in Loggers : fanning'[m].line = n /\ j \in fanning'[m].to
        BY <2>1, <3>1, <4>1
      <4> QED BY <4>2 DEF LineReaches
    <3>2. CASE n # recorded'
      <4>1. n \in Entries /\ n # 0
        BY <1>b, <2>1, <3>2, SizesOK DEF Entries
      <4>2. LineReaches(j, n)
        BY <1>a, <4>1 DEF LinesInv
      <4>3. CASE \E m \in Loggers : fanning[m].line = n /\ j \in fanning[m].to
        <5>1. \E m \in Loggers : fanning'[m].line = n /\ j \in fanning'[m].to
          BY <2>1, <4>1, <4>3
        <5> QED BY <5>1 DEF LineReaches
      <4>4. CASE ~\E m \in Loggers : fanning[m].line = n /\ j \in fanning[m].to
        BY <1>1, <4>2, <4>4 DEF Write, LineReaches
      <4> QED BY <4>3, <4>4
    <3> QED BY <3>1, <3>2
  <2> QED BY <2>3, <2>4, <2>5 DEF ConsoleInv
<1>2. CASE Written(l)
  <2>1. /\ fanning[l].to = {}
        /\ \A m \in Loggers : m # l => fanning'[m] = fanning[m]
        /\ fanning' \in [Loggers -> [line : Nat, to : SUBSET PageSockets]]
    BY <1>2, <1>b DEF Written, Quiet
  <2>2. ConsoleTypes'
    BY <1>2, <1>a, <2>1 DEF Written, ConsoleTypes
  <2>3. ASSUME NEW j \in PageSockets PROVE FeedInv(j)' /\ StateInv(j)'
    BY <1>2, <1>a DEF Written, FeedInv, StateInv, Coming
  <2>4. ASSUME NEW j \in PageSockets PROVE LinesInv(j)'
    <3>1. \A n, m : m \in Loggers /\ fanning[m].line = n /\ j \in fanning[m].to =>
              fanning'[m].line = n /\ j \in fanning'[m].to
      BY <2>1
    <3> QED BY <1>2, <1>a, <3>1 DEF Written, LinesInv, LineReaches, Entries
  <2> QED BY <2>2, <2>3, <2>4 DEF ConsoleInv
<1>3. ASSUME NEW k \in PageSockets, FanOut(l, k) PROVE ConsoleInv'
  <2>1. /\ fanning'[l].line = fanning[l].line /\ fanning'[l].to = fanning[l].to \ {k}
        /\ \A m \in Loggers : m # l => fanning'[m] = fanning[m]
        /\ fanning' \in [Loggers -> [line : Nat, to : SUBSET PageSockets]]
    BY <1>3, <1>b DEF FanOut
  <2> DEFINE a == Append(feed[k].lines, fanning[l].line)
  <2>2. /\ a \in Seq(Nat) /\ \E i \in DOMAIN a : a[i] = fanning[l].line
        /\ \A n : (\E i \in DOMAIN feed[k].lines : feed[k].lines[i] = n) => \E i \in DOMAIN a : a[i] = n
    <3>1. feed[k].lines \in Seq(Nat) /\ fanning[l].line \in Nat
      BY <1>b DEF AFeed
    <3>2. /\ a \in Seq(Nat) /\ Len(a) = Len(feed[k].lines) + 1 /\ a[Len(feed[k].lines) + 1] = fanning[l].line
          /\ \A i \in 1 .. Len(feed[k].lines) : a[i] = feed[k].lines[i]
      BY <3>1, AppendProperties
    <3>3. Len(feed[k].lines) \in Nat /\ DOMAIN feed[k].lines = 1 .. Len(feed[k].lines) /\ DOMAIN a = 1 .. Len(a)
      BY <3>1, <3>2, LenProperties
    <3> HIDE DEF a
    <3> QED BY <3>2, <3>3
  <2> DEFINE y == [feed[k] EXCEPT !.lines = a]
  <2>3. \/ feed' = [feed EXCEPT ![k] = y] /\ passed' = passed
        \/ feed' = feed /\ (k \in ended \/ passed' = passed \cup {fanning[l].line})
           /\ passed \subseteq passed'
    BY <1>3, <1>b DEF FanOut
  <2> HIDE DEF a
  <2>4. /\ y \in AFeed /\ y.at = feed[k].at /\ (y.woken <=> feed[k].woken) /\ y.pump = feed[k].pump
        /\ y.built = feed[k].built /\ y.lines = a /\ y.pending = feed[k].pending /\ y.out = feed[k].out
        /\ (y.missed <=> feed[k].missed)
    <3>1. feed[k] \in AFeed /\ a \in Seq(Nat)
      BY <1>b, <2>2
    <3> QED BY <3>1 DEF AFeed
  <2> HIDE DEF y
  <2>5. /\ feed' \in [PageSockets -> AFeed]
        /\ \A j \in PageSockets : /\ feed'[j].at = feed[j].at /\ (feed'[j].woken <=> feed[j].woken)
                                  /\ feed'[j].pump = feed[j].pump /\ feed'[j].built = feed[j].built
                                  /\ feed'[j].pending = feed[j].pending /\ feed'[j].out = feed[j].out
                                  /\ (feed'[j].missed <=> feed[j].missed)
        /\ \A j \in PageSockets : feed'[j].lines = feed[j].lines \/ (j = k /\ feed'[j].lines = a)
        /\ passed \subseteq passed'
        /\ k \in ended \/ passed' = passed \cup {fanning[l].line} \/ feed'[k].lines = a
    <3>1. CASE feed' = [feed EXCEPT ![k] = y] /\ passed' = passed
      <4>1. /\ feed' \in [PageSockets -> AFeed] /\ feed'[k] = y
            /\ \A j \in PageSockets : j # k => feed'[j] = feed[j]
        BY <1>b, <2>4, <3>1, FeedUpdate
      <4> QED BY <2>4, <3>1, <4>1
    <3>2. CASE feed' = feed /\ (k \in ended \/ passed' = passed \cup {fanning[l].line}) /\ passed \subseteq passed'
      BY <1>b, <3>2
    <3> QED BY <2>3, <3>1, <3>2
  <2>6. ConsoleTypes'
    BY <1>3, <1>a, <2>1, <2>5 DEF FanOut, ConsoleTypes
  <2>7. ASSUME NEW j \in PageSockets PROVE FeedInv(j)' /\ StateInv(j)'
    BY <1>3, <1>a, <2>5 DEF FanOut, FeedInv, StateInv, Coming
  <2>8. ASSUME NEW j \in PageSockets PROVE LinesInv(j)'
    <3> SUFFICES ASSUME page.link = "open", page.socket = j, feed[j].at = "serving", NEW n \in Entries
                 PROVE  LineReaches(j, n)'
      BY <1>3, <2>5 DEF FanOut, LinesInv, Entries
    <3>1. LineReaches(j, n) /\ (j = k => k \notin ended)
      BY <1>a DEF LinesInv, FeedInv
    <3>2. page' = page
      BY <1>3 DEF FanOut
    <3>3. CASE n \in page.lines \/ n \in passed \/ n \in feed[j].pending \/ Carries(feed[j].out, n)
      BY <2>5, <3>2, <3>3 DEF LineReaches
    <3>4. CASE \E i \in DOMAIN feed[j].lines : feed[j].lines[i] = n
      <4>1. \E i \in DOMAIN feed'[j].lines : feed'[j].lines[i] = n
        <5>1. CASE feed'[j].lines = feed[j].lines
          BY <3>4, <5>1
        <5>2. CASE j = k /\ feed'[j].lines = a
          <6>1. \E i \in DOMAIN a : a[i] = n
            <7>1. \E i \in DOMAIN feed[k].lines : feed[k].lines[i] = n
              BY <3>4, <5>2, Zenon
            <7> QED BY <2>2, <7>1, Zenon
          <6>2. feed'[j].lines = a
            BY <5>2
          <6> QED BY <6>1, <6>2, Zenon
        <5> QED BY <2>5, <5>1, <5>2
      <4> QED BY <4>1 DEF LineReaches
    <3>5. ASSUME NEW m \in Loggers, fanning[m].line = n, j \in fanning[m].to PROVE LineReaches(j, n)'
      <4>1. CASE m = l /\ j = k
        <5>1. CASE passed' = passed \cup {fanning[l].line}
          BY <3>5, <4>1, <5>1 DEF LineReaches
        <5>2. CASE feed'[k].lines = a
          <6>1. \E i \in DOMAIN feed'[j].lines : feed'[j].lines[i] = n
            BY <2>2, <3>5, <4>1, <5>2
          <6> QED BY <6>1 DEF LineReaches
        <5> QED BY <2>5, <3>1, <4>1, <5>1, <5>2
      <4>2. CASE m # l \/ j # k
        <5>1. fanning'[m].line = n /\ j \in fanning'[m].to
          BY <2>1, <3>5, <4>2
        <5> QED BY <5>1 DEF LineReaches
      <4> QED BY <4>1, <4>2
    <3> QED BY <3>1, <3>3, <3>4, <3>5 DEF LineReaches
  <2> QED BY <2>6, <2>7, <2>8 DEF ConsoleInv
<1> QED BY <1>1, <1>2, <1>3 DEF LoggerNext

(* The agent changes, and the page loses its connection or its session.    *)
LEMMA OtherStep ==
    ASSUME ConsoleInv, StateChanges \/ NotifyChange \/ SocketCloses \/ Asked \/ Retry \/ SessionEnds
                       \/ UNCHANGED consoleVars
    PROVE  ConsoleInv'
<1>a. ConsoleTypes /\ \A j \in PageSockets : FeedInv(j) /\ StateInv(j) /\ LinesInv(j)
  BY DEF ConsoleInv
<1> USE DEF stateVars, ringVars
<1>1. CASE StateChanges
  <2>1. untold' > 0 /\ untold' \in Nat /\ agentState' \in Nat
    BY <1>1, <1>a DEF StateChanges, ConsoleTypes
  <2>2. ConsoleTypes'
    BY <1>1, <1>a, <2>1 DEF StateChanges, ConsoleTypes
  <2>3. ASSUME NEW j \in PageSockets PROVE FeedInv(j)' /\ StateInv(j)' /\ LinesInv(j)'
    BY <1>1, <1>a, <2>1 DEF StateChanges, FeedInv, StateInv, Coming, LinesInv, LineReaches, Entries
  <2> QED BY <2>2, <2>3 DEF ConsoleInv
<1>2. CASE NotifyChange
  <2>1. /\ waking' = waking \cup handlers /\ untold' \in Nat
        /\ UNCHANGED <<agentState, handlers, ringVars, feed, page, granted, passed>>
    BY <1>2, <1>a DEF NotifyChange, ConsoleTypes
  <2>2. ConsoleTypes'
    BY <1>a, <2>1 DEF ConsoleTypes
  <2>3. ASSUME NEW j \in PageSockets PROVE FeedInv(j)'
    BY <1>a, <2>1 DEF FeedInv
  <2>4. ASSUME NEW j \in PageSockets PROVE StateInv(j)'
    BY <1>a, <2>1 DEF FeedInv, StateInv, Coming
  <2>5. ASSUME NEW j \in PageSockets PROVE LinesInv(j)'
    BY <1>a, <2>1 DEF LinesInv, LineReaches, Entries
  <2> QED BY <2>2, <2>3, <2>4, <2>5 DEF ConsoleInv
<1>3. CASE SocketCloses \/ Asked \/ Retry
  <2>1. /\ page'.link # "open" /\ UNCHANGED <<stateVars, ringVars, feed, granted, passed>>
    BY <1>3, <1>a DEF SocketCloses, Asked, Retry, ConsoleTypes
  <2>2. page' \in [link : Links, socket : PageSockets, told : Nat, lines : SUBSET Nat]
    <3>1. CASE SocketCloses \/ Asked
      BY <1>a, <3>1 DEF SocketCloses, Asked, ConsoleTypes, Links
    <3>2. CASE Retry
      <4>1. page.socket + 1 \in PageSockets
        BY <1>a, <3>2, SizesOK DEF Retry, More, ConsoleTypes, PageSockets
      <4> QED BY <1>a, <3>2, <4>1 DEF Retry, ConsoleTypes, Links
    <3> QED BY <1>3, <3>1, <3>2
  <2>3. ConsoleTypes'
    BY <1>a, <2>1, <2>2 DEF ConsoleTypes
  <2>4. ASSUME NEW j \in PageSockets PROVE FeedInv(j)' /\ StateInv(j)' /\ LinesInv(j)'
    BY <1>a, <2>1 DEF FeedInv, StateInv, LinesInv
  <2> QED BY <2>3, <2>4 DEF ConsoleInv
<1>4. CASE SessionEnds \/ UNCHANGED consoleVars
  <2>1. UNCHANGED <<stateVars, ringVars, feed, page, passed>>
    BY <1>4 DEF SessionEnds, consoleVars
  <2>2. ConsoleTypes'
    BY <1>a, <2>1 DEF ConsoleTypes
  <2>3. ASSUME NEW j \in PageSockets PROVE FeedInv(j)' /\ StateInv(j)' /\ LinesInv(j)'
    BY <1>a, <2>1 DEF FeedInv, StateInv, Coming, LinesInv, LineReaches, Entries
  <2> QED BY <2>2, <2>3 DEF ConsoleInv
<1> QED BY <1>1, <1>2, <1>3, <1>4

LEMMA ConsoleInvTells == ConsoleInv => PageIsTold
<1> SUFFICES ASSUME ConsoleInv PROVE PageIsTold
  OBVIOUS
<1>a. ConsoleTypes /\ \A j \in PageSockets : StateInv(j) /\ LinesInv(j)
  BY DEF ConsoleInv
<1>b. page.socket \in PageSockets
  BY <1>a DEF ConsoleTypes
<1>1. StateReaches
  <2> SUFFICES ASSUME page.link = "open", feed[page.socket].at = "serving", page.told # agentState
               PROVE  Coming(page.socket) \/ \E i \in DOMAIN feed[page.socket].out :
                          feed[page.socket].out[i].type = "state" /\ feed[page.socket].out[i].state = agentState
    BY Zenon DEF StateReaches, InOut, Coming
  <2> QED BY <1>a, <1>b DEF StateInv, Shows
<1>2. LinesReach
  <2> SUFFICES ASSUME page.link = "open", feed[page.socket].at = "serving",
                      NEW n \in Entries, n \notin page.lines, n \notin passed, n \notin feed[page.socket].pending
               PROVE  \/ \E l \in Loggers : fanning[l].line = n /\ page.socket \in fanning[l].to
                      \/ n \in ToSet(feed[page.socket].lines)
                      \/ Carries(feed[page.socket].out, n)
    BY Zenon DEF LinesReach, InOut, Carries
  <2>1. LineReaches(page.socket, n)
    BY <1>a, <1>b DEF LinesInv
  <2> QED BY <2>1 DEF LineReaches, ToSet
<1> QED BY <1>1, <1>2 DEF PageIsTold

(* A page that stays connected comes to show what the agent is and has     *)
(* logged: whatever it lacks is on its way, was dropped for want of room   *)
(* or was passed over as late (server.go:383-440, useControl.ts:70-90).    *)
THEOREM PageIsKeptTold == ConsoleSpec => []PageIsTold
<1>1. ConsoleInv /\ [ConsoleNext]_consoleVars => ConsoleInv'
  BY FeedStep, RingStep, OtherStep DEF ConsoleNext
<1> QED BY ConsoleStart, <1>1, ConsoleInvTells, PTL DEF ConsoleSpec

=============================================================================
