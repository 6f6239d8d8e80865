---------------------------- MODULE CardPresence ----------------------------
(* The card on a PC/SC reader, and what the reader says of it: the device     *)
(* opened for a card and the monitor that waits for the reader to be empty    *)
(* (nfc/pcsc/device.go), the driver detection picks (nfc/tagdetect.go), and   *)
(* the poll that publishes the card and the check that withdraws it           *)
(* (nfc/reader.go, nfc/cache.go).                                             *)
(*                                                                            *)
(* A presentation is a card put on the reader, counted from 1.  An exchange   *)
(* over a device whose card has gone fails, also when another lies there: the *)
(* handle is the old card's until it is reconnected.                          *)
EXTENDS Naturals, Sequences, FiniteSets

CONSTANTS
    Tappable,      \* by uid, the cards: what each is, and what it answers
    NoVersion,     \* a card's answer to a GET_VERSION it does not implement
    MaxPlaced,     \* presentations
    MaxTaken,      \* operations and raw sessions
    MaxTroubles    \* failed exchanges and failed looks

VARIABLES
    placed,     \* the cards put on the reader so far
    lying,      \* the presentation on it, 0 for none
    handle,        \* the open device
    user,       \* who holds the operation slot: "free", "poll", "op" or "lease"
    poll,       \* what the poll has of the card
    fresh,      \* the cache has seen a card within the last second
    cardPresent,
    faulted,    \* the uid whose fault has been reported, 0 for none
    shown,      \* the presentation last published and not withdrawn: the
                \* cache's lastUID is its card's
    unseen,     \* presentations whose end nobody is left to notice
    asked, troubles

presenceVars == <<placed, lying, handle, user, poll, fresh, cardPresent, faulted, shown, unseen, asked, troubles>>

CardAt(n) == Tappable[placed[n]]
Lost      == lying # handle.pres

(***************************** Which driver *****************************)

\* ParseGetVersionResponse: the native encoding.
NativeKind(v) ==
    CASE v = NoVersion -> "Unknown"
      [] v.product = "ultralight" -> IF v.storage = 128 THEN "UltralightEV1_128" ELSE "UltralightEV1"
      [] v.product = "ntag" /\ v.iso4 -> IF v.storage = 504 THEN "NTAG424" ELSE "Unknown"
      [] v.product = "ntag" /\ ~v.iso4 ->
           CASE v.storage = 144 -> "NTAG213" [] v.storage = 888 -> "NTAG216" [] OTHER -> "NTAG215"
      [] OTHER -> "Unknown"

\* WrappedVersion.Kind: what the card answers over ISO 14443-4.
WrappedKind(v) ==
    CASE v = NoVersion -> "Unknown"
      [] v.product = "ntag" ->
           IF v.iso4 /\ v.storage = 504 /\ v.major = 48 THEN "NTAG424" ELSE "Unknown"
      [] v.product = "desfire" ->
           CASE v.major = 1 -> "DESFireEV1" [] v.major = 18 -> "DESFireEV2"
             [] v.major = 51 -> "DESFireEV3" [] OTHER -> "DESFire"
      [] OTHER -> "Unknown"

\* NewTagForType: the family of the driver, "none" for a kind without one.
Driver ==
    [Classic1K |-> "classic", Classic4K |-> "classic",
     Ultralight |-> "page", UltralightC |-> "page", UltralightEV1 |-> "page", UltralightEV1_128 |-> "page",
     NTAG213 |-> "page", NTAG215 |-> "page", NTAG216 |-> "page",
     DESFire |-> "desfire", DESFireEV1 |-> "desfire", DESFireEV2 |-> "desfire", DESFireEV3 |-> "desfire",
     NTAG424 |-> "ntag424", FeliCa |-> "felica", ISO14443_4 |-> "type4",
     Mini |-> "none", Unknown |-> "none"]

HasDriver(kind) == Driver[kind] # "none"

\* refineType4
Refined(kind, v) ==
    IF kind = "ISO14443_4" /\ WrappedKind(v) # "Unknown" THEN WrappedKind(v) ELSE kind

\* detectTagWithCommands
ByCommands(native, wrapped, auth) ==
    IF HasDriver(NativeKind(native)) THEN NativeKind(native)
    ELSE IF HasDriver(WrappedKind(wrapped)) THEN WrappedKind(wrapped)
    ELSE IF auth THEN "Classic1K" ELSE "Unknown"

\* GetTags' detection: the ATR, refined when it says no more than ISO 14443-4,
\* then the commands, then the ATR's ISO byte.
Detection(c, native, wrapped, auth) ==
    IF HasDriver(Refined(c.named, wrapped)) THEN Refined(c.named, wrapped)
    ELSE IF ByCommands(native, wrapped, auth) # "Unknown" THEN ByCommands(native, wrapped, auth)
    ELSE IF c.iso THEN Refined("ISO14443_4", wrapped) ELSE "Unknown"

\* The ATR was read when the device was opened; a lost card answers no command.
Detected(c) ==
    Driver[IF Lost THEN Detection(c, NoVersion, NoVersion, FALSE)
           ELSE Detection(c, c.native, c.wrapped, c.auth)]

(***************************** The device *****************************)

\* newDevice: the uid may not be had yet; the monitor starts.
OpenedFor(n, uidRead) ==
    [pres |-> n, uid |-> uidRead, driver |-> "none", told |-> FALSE, token |-> FALSE, monitor |-> TRUE]

NoDevice == [OpenedFor(0, FALSE) EXCEPT !.monitor = FALSE]

Forgetting(d) == [d EXCEPT !.token = FALSE, !.driver = "none"]

Got(h, what) == [handle |-> h, says |-> what]

\* device.GetTags: what it leaves the device as, and what it says.
GetTags(uidFails, driver) ==
    LET known == [handle EXCEPT !.uid = TRUE] IN
    IF handle.token                THEN Got(Forgetting(handle), "removed")
    ELSE IF handle.driver # "none" THEN Got(handle, "tag")
    ELSE IF ~handle.uid /\ uidFails THEN Got(handle, "failed")
    ELSE IF driver # "none"        THEN Got([known EXCEPT !.driver = driver], "tag")
    ELSE IF handle.told            THEN Got(known, "nothing")
    ELSE Got([known EXCEPT !.told = TRUE], "unsupported")

Asked == {GetTags(uidFails, Detected(CardAt(handle.pres))) : uidFails \in {TRUE, Lost}}

PresenceInit ==
    /\ placed = << >> /\ lying = 0 /\ handle = NoDevice /\ user = "free" /\ poll = "idle"
    /\ fresh = FALSE /\ cardPresent = FALSE /\ faulted = 0 /\ shown = 0 /\ unseen = {}
    /\ asked = 0 /\ troubles = 0

saidVars == <<fresh, cardPresent, faulted, shown>>

\* The monitor looks every half second and keeps no count: a card that took
\* another's place between two looks is the card that was there.
Place ==
    /\ lying = 0 /\ Len(placed) < MaxPlaced
    /\ \E uid \in DOMAIN Tappable : placed' = Append(placed, uid)
    /\ lying' = Len(placed) + 1
    /\ unseen' = IF handle.monitor THEN unseen \cup {handle.pres} ELSE unseen
    /\ UNCHANGED <<handle, user, poll, saidVars, asked, troubles>>

Take ==
    /\ lying # 0 /\ lying' = 0
    /\ UNCHANGED <<placed, handle, user, poll, saidVars, unseen, asked, troubles>>

MonitorEnds == handle' = [handle EXCEPT !.monitor = FALSE, !.token = TRUE]

\* Only an empty reader is a removal; the monitor says so once, and is done.
MonitorLook ==
    /\ handle.monitor /\ lying = 0
    /\ MonitorEnds
    /\ UNCHANGED <<placed, lying, user, poll, saidVars, unseen, asked, troubles>>

\* An error of the look is taken for a removal.
MonitorError ==
    /\ handle.monitor /\ troubles < MaxTroubles /\ troubles' = troubles + 1
    /\ MonitorEnds
    /\ UNCHANGED <<placed, lying, user, poll, saidVars, unseen, asked>>

(***************************** The poll *****************************)

\* doPoll without a device: OpenDevice looks for a card before it connects.
PollOpen ==
    /\ poll = "idle" /\ handle = NoDevice /\ lying # 0
    /\ \E uidRead \in BOOLEAN :
           /\ handle' = OpenedFor(lying, uidRead)
           /\ troubles' = IF uidRead THEN troubles ELSE troubles + 1
           /\ troubles' <= MaxTroubles
    /\ UNCHANGED <<placed, lying, user, poll, saidVars, unseen, asked>>

\* doPoll: a busy reader skips the poll.
PollGet ==
    /\ poll = "idle" /\ user = "free" /\ handle # NoDevice
    /\ \E got \in Asked :
           /\ handle' = got.handle
           /\ IF got.says = "nothing" THEN UNCHANGED <<poll, user>>
              ELSE poll' = got.says /\ user' = "poll"
           /\ troubles' = IF got.says = "failed" /\ ~Lost THEN troubles + 1 ELSE troubles
           /\ troubles' <= MaxTroubles
    /\ UNCHANGED <<placed, lying, saidVars, unseen, asked>>

\* setCardPresent returns at once when it says nothing new: the cache keeps
\* the card of a visit no check had noticed yet.
SetCardPresent(p) ==
    /\ cardPresent' = p
    /\ IF cardPresent # p /\ ~p THEN shown' = 0 /\ fresh' = FALSE /\ faulted' = 0
       ELSE UNCHANGED <<shown, fresh, faulted>>

PollOver == poll' = "idle" /\ user' = "free"

\* A mutant: the device stays open on the card that left.
PollRemovedOpen ==
    /\ poll = "removed" /\ PollOver /\ SetCardPresent(FALSE)
    /\ UNCHANGED <<placed, lying, handle, unseen, asked, troubles>>

\* handleDeviceErrors and handleTagPolling: the device is closed.
PollRemoved ==
    /\ poll = "removed" /\ PollOver
    /\ handle' = NoDevice /\ SetCardPresent(FALSE)
    /\ UNCHANGED <<placed, lying, unseen, asked, troubles>>

PollUnsupported ==
    /\ poll = "unsupported" /\ PollOver /\ SetCardPresent(TRUE)
    /\ UNCHANGED <<placed, lying, handle, unseen, asked, troubles>>

\* HandleError drops the device on an error it takes for the reader's, and
\* keeps it on one it does not recognise.
PollFailed ==
    /\ poll = "failed" /\ PollOver
    /\ handle' \in {handle, NoDevice}
    /\ UNCHANGED <<placed, lying, saidVars, unseen, asked, troubles>>

Same(n, uid) == n # 0 /\ placed[n] = uid
UidOfDevice  == placed[handle.pres]

\* A card already published is not read again.
PollTag ==
    /\ poll = "tag" /\ fresh' = TRUE
    /\ IF Same(shown, UidOfDevice) THEN PollOver ELSE poll' = "reading" /\ UNCHANGED user
    /\ UNCHANGED <<placed, lying, handle, cardPresent, faulted, shown, unseen, asked, troubles>>

\* A read finds the card gone, or fails without saying why.
PollRead ==
    /\ poll = "reading"
    /\ \/ Lost /\ poll' = "removed" /\ UNCHANGED <<user, faulted, shown>>
       \/ Lost /\ PollOver /\ faulted' = UidOfDevice /\ UNCHANGED shown
       \/ ~Lost /\ PollOver
          /\ IF CardAt(lying).readable THEN shown' = lying /\ faulted' = 0
             ELSE faulted' = UidOfDevice /\ UNCHANGED shown
    /\ UNCHANGED <<placed, lying, handle, fresh, cardPresent, unseen, asked, troubles>>

\* A leased reader's card counts as seen.
PollLeased ==
    /\ poll = "idle" /\ user = "lease" /\ handle # NoDevice
    /\ ~fresh /\ fresh' = TRUE
    /\ UNCHANGED <<placed, lying, handle, user, poll, cardPresent, faulted, shown, unseen, asked, troubles>>

PollNext ==
    \/ PollOpen \/ PollGet \/ PollRemoved \/ PollUnsupported \/ PollFailed
    \/ PollTag \/ PollRead \/ PollLeased

\* handleCardCheck, on the poll's own goroutine.
CardCheck ==
    /\ poll = "idle" /\ cardPresent # fresh /\ SetCardPresent(fresh)
    /\ UNCHANGED <<placed, lying, handle, user, poll, unseen, asked, troubles>>

\* A second in which no poll saw a card; the check runs four times in it.
SecondPasses ==
    /\ poll = "idle" /\ fresh /\ cardPresent
    /\ handle = NoDevice \/ user = "op" \/ (handle.told /\ ~handle.token /\ handle.driver = "none")
    /\ fresh' = FALSE
    /\ UNCHANGED <<placed, lying, handle, user, poll, cardPresent, faulted, shown, unseen, asked, troubles>>

(***************************** Operations *****************************)

\* The monitor's one word reaches whoever asks the device next.
Overheard == unseen' = IF handle.token THEN unseen \cup {handle.pres} ELSE unseen

\* soleTag, of an operation or of a raw session; what it finds amiss ends it.
OpTakes ==
    /\ user = "free" /\ handle # NoDevice /\ asked < MaxTaken /\ asked' = asked + 1
    /\ \E u \in {"op", "lease"}, got \in Asked :
           user' = (IF got.says = "tag" THEN u ELSE "free") /\ handle' = got.handle
    /\ Overheard
    /\ UNCHANGED <<placed, lying, poll, saidVars, troubles>>

\* device.Transceive: the device stays open whatever it says.
OpExchanges ==
    /\ user \in {"op", "lease"} /\ handle # NoDevice
    /\ handle.token \/ Lost
    /\ handle' = Forgetting(handle) /\ Overheard
    /\ UNCHANGED <<placed, lying, user, poll, saidVars, asked, troubles>>

OpEnds ==
    /\ user \in {"op", "lease"} /\ user' = "free"
    /\ UNCHANGED <<placed, lying, handle, poll, saidVars, unseen, asked, troubles>>

PresenceNext ==
    \/ Place \/ Take \/ MonitorLook \/ MonitorError
    \/ PollOpen \/ PollGet \/ PollRemoved \/ PollUnsupported \/ PollFailed
    \/ PollTag \/ PollRead \/ PollLeased
    \/ CardCheck \/ SecondPasses
    \/ OpTakes \/ OpExchanges \/ OpEnds

\* The poll and the check are the worker's tickers, the monitor is a goroutine
\* that looks twice a second, and an operation ends by its timeout, a lease by
\* its idle time (ReaderSlot).  Nothing is assumed of the cards.
Followed ==
    /\ WF_presenceVars(PollNext) /\ WF_presenceVars(CardCheck) /\ WF_presenceVars(SecondPasses)
    /\ WF_presenceVars(MonitorLook) /\ WF_presenceVars(OpEnds)

(***************************** Properties *****************************)

\* A card is driven as what it is, or as the ISO 14443-4 tag it also is.
DriverFits ==
    handle.driver # "none" =>
        \/ handle.driver = CardAt(handle.pres).family
        \/ handle.driver = "type4" /\ CardAt(handle.pres).iso4

\* The device stays on a card that has left, and no poll will find out.
Stranded == handle.pres \in unseen

\* A published card that has left is withdrawn, unless the device is stranded:
\* the monitor's word was taken by an operation, or another card came between
\* two of its looks.
GoneIsTold ==
    \A n \in 1..MaxPlaced :
        (shown = n /\ lying = 0) ~> (shown # n \/ lying # 0 \/ Stranded)

\* A card left on the reader is published, or its fault or want of a driver is
\* told, unless the device is stranded on another.
CardIsMet ==
    \A n \in 1..MaxPlaced :
        (lying = n) ~> \/ lying # n \/ Stranded
                       \/ Same(shown, placed[n]) \/ faulted = placed[n]
                       \/ handle.pres = n /\ handle.told

\* The reader follows its cards (nfc/pcsc/device.go, "the most reliable
\* detection by continuously checking card state"): each is driven as what it
\* is, told when it is there, and withdrawn when it has gone.
CardIsFollowed == []DriverFits /\ GoneIsTold /\ CardIsMet
=============================================================================
