------------------------------ MODULE Console ------------------------------
(***************************************************************************)
(* The control center's live page: agent/console/server.go (handleWS,      *)
(* pumpEvents) and auth.go, the log ring it reads (logbuf/logbuf.go), and  *)
(* the page's end of it (agent/console/frontend/src/useControl.ts).        *)
(*                                                                         *)
(* A socket is handed the agent's state and the log lines kept, then what  *)
(* changes: a change wakes it through a signal, a line comes through a     *)
(* channel the ring writes to, and both go out through one queue that      *)
(* drops when it is full.  Left out: pings and deadlines, and the fetches  *)
(* the page makes of the state beside the socket.                          *)
(***************************************************************************)
EXTENDS Naturals, Sequences, FiniteSets, SequencesExt

CONSTANTS
    Loggers,        \* goroutines that log
    MaxHappenings,  \* bound: changes of the agent's state, lines logged and
                    \* sockets opened, together
    RingSize,       \* the ring's capacity
    LogSize,        \* capacity of a subscriber's channel
    OutSize         \* capacity of a socket's queue of envelopes

PageSockets == 1 .. MaxHappenings

ASSUME SizesOK ==
    /\ MaxHappenings \in Nat \ {0}
    /\ RingSize \in Nat \ {0} /\ LogSize \in Nat \ {0} /\ OutSize \in Nat \ {0, 1}

VARIABLES
    agentState, \* how often what buildState reads has changed
    untold,     \* changes whose NotifyChange has yet to be called
    waking,     \* sockets that emissions of `changed' have yet to wake
    handlers,   \* sockets connected to `changed'
    recorded,   \* Ring.seq: the lines recorded
    fanning,    \* fanning[l]: the line logger l has yet to fan out, and to whom
    ringSubs,   \* Ring.subs
    ended,      \* sockets whose channel of lines is closed
    panicked,   \* a send hit a closed channel: the process is gone
    feed,       \* feed[k]: the server's end of socket k
    page,       \* the page: [link, socket, told, lines]
    granted,    \* the page's session is one the agent knows
    passed      \* history: lines dropped for want of room, or passed over

consoleVars == <<agentState, untold, waking, handlers, recorded, fanning, ringSubs, ended,
                 panicked, feed, page, granted, passed>>

ringVars == <<recorded, fanning, ringSubs, ended, panicked>>
stateVars == <<agentState, untold, waking, handlers>>

Lines == 1 .. MaxHappenings
Envelope == [type : {"state"}, state : 0 .. MaxHappenings] \cup [type : {"logs"}, logs : SUBSET Lines]
Quiet == [line |-> 0, to |-> {}]

(* at: where handleWS is.  woken: its changes channel; lines: its channel  *)
(* from the ring; pending: lines to batch; missed: the last state it would *)
(* have sent found the queue full.                                         *)
Feed == [at : {"none", "accepted", "subscribed", "following", "greeted", "serving", "leaving", "over"},
         woken : BOOLEAN, pump : {"idle", "woken", "built"}, built : 0 .. MaxHappenings,
         lines : Seq(Lines), pending : SUBSET Lines, out : Seq(Envelope), missed : BOOLEAN]

ConsoleTypeOK ==
    /\ agentState \in 0 .. MaxHappenings /\ untold \in 0 .. MaxHappenings
    /\ waking \subseteq PageSockets /\ handlers \subseteq PageSockets
    /\ recorded \in 0 .. MaxHappenings
    /\ fanning \in [Loggers -> [line : 0 .. MaxHappenings, to : SUBSET PageSockets]]
    /\ ringSubs \subseteq PageSockets /\ ended \subseteq PageSockets
    /\ panicked \in BOOLEAN /\ granted \in BOOLEAN
    /\ feed \in [PageSockets -> Feed]
    /\ page.link \in {"connecting", "open", "asking", "closed", "expired"}
    /\ page.socket \in PageSockets /\ page.told \in 0 .. MaxHappenings /\ page.lines \subseteq Lines
    /\ passed \subseteq Lines

ConsoleInit ==
    /\ agentState = 0 /\ untold = 0 /\ waking = {} /\ handlers = {}
    /\ recorded = 0 /\ fanning = [l \in Loggers |-> Quiet]
    /\ ringSubs = {} /\ ended = {} /\ panicked = FALSE
    /\ feed = [k \in PageSockets |->
                  [at |-> "none", woken |-> FALSE, pump |-> "idle", built |-> 0, lines |-> << >>,
                   pending |-> {}, out |-> << >>, missed |-> FALSE]]
    /\ page = [link |-> "connecting", socket |-> 1, told |-> 0, lines |-> {}]
    /\ granted = TRUE
    /\ passed = {}

More == agentState + recorded + page.socket < MaxHappenings

------------------------------------------------------------------------------
(* The agent's state changes, by an action of a page's or otherwise, and   *)
(* whoever changed it tells the console: Emit copies the handlers, and     *)
(* each puts a token in a channel of one.                                  *)
StateChanges ==
    /\ More
    /\ agentState' = agentState + 1
    /\ untold' = untold + 1
    /\ UNCHANGED <<waking, handlers, ringVars, feed, page, granted, passed>>

NotifyChange ==
    /\ untold > 0
    /\ untold' = untold - 1
    /\ waking' = waking \cup handlers
    /\ UNCHANGED <<agentState, handlers, ringVars, feed, page, granted, passed>>

WakeFeed(k) ==
    /\ k \in waking
    /\ waking' = waking \ {k}
    /\ feed' = [feed EXCEPT ![k].woken = TRUE]
    /\ UNCHANGED <<agentState, untold, handlers, ringVars, page, granted, passed>>

(* Ring.write: the line and the subscribers under the lock ...             *)
Write(l) ==
    /\ fanning[l].line = 0 /\ More
    /\ recorded' = recorded + 1
    /\ fanning' = [fanning EXCEPT ![l] = [line |-> recorded', to |-> ringSubs]]
    /\ UNCHANGED <<stateVars, ringSubs, ended, panicked, feed, page, granted, passed>>

(* ... and the sends without it, each dropped if the channel is full.      *)
FanOut(l, k) ==
    /\ k \in fanning[l].to
    /\ fanning' = [fanning EXCEPT ![l].to = @ \ {k}]
    /\ IF k \in ended
           THEN panicked' = TRUE /\ UNCHANGED <<feed, passed>>
           ELSE /\ UNCHANGED panicked
                /\ IF Len(feed[k].lines) < LogSize
                       THEN /\ feed' = [feed EXCEPT ![k].lines = Append(@, fanning[l].line)]
                            /\ UNCHANGED passed
                       ELSE passed' = passed \cup {fanning[l].line} /\ UNCHANGED feed
    /\ UNCHANGED <<stateVars, recorded, ringSubs, ended, page, granted>>

Written(l) ==
    /\ fanning[l].line # 0 /\ fanning[l].to = {}
    /\ fanning' = [fanning EXCEPT ![l] = Quiet]
    /\ UNCHANGED <<stateVars, recorded, ringSubs, ended, panicked, feed, page, granted, passed>>

Entries == {n \in 1 .. recorded : n > recorded - RingSize}

------------------------------------------------------------------------------
(* handleWS.  A request needs the session the tray's token was traded for; *)
(* it then connects to `changed', subscribes to the ring, and only then    *)
(* reads what it greets the page with.                                     *)
Accept(k) ==
    /\ page.link = "connecting" /\ page.socket = k /\ feed[k].at = "none"
    /\ granted
    /\ feed' = [feed EXCEPT ![k].at = "accepted"]
    /\ page' = [page EXCEPT !.link = "open"]
    /\ UNCHANGED <<stateVars, ringVars, granted, passed>>

Subscribe(k) ==
    /\ feed[k].at = "accepted"
    /\ handlers' = handlers \cup {k}
    /\ feed' = [feed EXCEPT ![k].at = "subscribed"]
    /\ UNCHANGED <<agentState, untold, waking, ringVars, page, granted, passed>>

SubscribeLogs(k) ==
    /\ feed[k].at = "subscribed"
    /\ ringSubs' = ringSubs \cup {k}
    /\ feed' = [feed EXCEPT ![k].at = "following"]
    /\ UNCHANGED <<stateVars, recorded, fanning, ended, panicked, page, granted, passed>>

StateEnvelope(v) == [type |-> "state", state |-> v]

GreetState(k) ==
    /\ feed[k].at = "following"
    /\ feed' = [feed EXCEPT ![k].at = "greeted", ![k].out = Append(@, StateEnvelope(agentState))]
    /\ UNCHANGED <<stateVars, ringVars, page, granted, passed>>

GreetLogs(k) ==
    /\ feed[k].at = "greeted"
    /\ feed' = [feed EXCEPT ![k].at = "serving",
           ![k].out = IF Entries = {} THEN @ ELSE Append(@, [type |-> "logs", logs |-> Entries])]
    /\ UNCHANGED <<stateVars, ringVars, page, granted, passed>>

(* pumpEvents: a token; the state, as it is once the token is taken; and   *)
(* the envelope, dropped if the queue is full.                             *)
TakeChange(k) ==
    /\ feed[k].at = "serving" /\ feed[k].pump = "idle" /\ feed[k].woken
    /\ feed' = [feed EXCEPT ![k].woken = FALSE, ![k].pump = "woken"]
    /\ UNCHANGED <<stateVars, ringVars, page, granted, passed>>

BuildState(k) ==
    /\ feed[k].at = "serving" /\ feed[k].pump = "woken"
    /\ feed' = [feed EXCEPT ![k].pump = "built", ![k].built = agentState]
    /\ UNCHANGED <<stateVars, ringVars, page, granted, passed>>

HasRoom(k) == Len(feed[k].out) < OutSize

PushAndDrain(k) ==
    /\ feed[k].at = "serving" /\ feed[k].pump = "built"
    /\ feed' = [feed EXCEPT ![k].pump = "idle", ![k].built = 0, ![k].missed = ~HasRoom(k), ![k].woken = FALSE,
           ![k].out = IF HasRoom(k) THEN Append(@, StateEnvelope(feed[k].built)) ELSE @]
    /\ UNCHANGED <<stateVars, ringVars, page, granted, passed>>

PushState(k) ==
    /\ feed[k].at = "serving" /\ feed[k].pump = "built"
    /\ feed' = [feed EXCEPT ![k].pump = "idle", ![k].built = 0, ![k].missed = ~HasRoom(k),
           ![k].out = IF HasRoom(k) THEN Append(@, StateEnvelope(feed[k].built)) ELSE @]
    /\ UNCHANGED <<stateVars, ringVars, page, granted, passed>>

TakeLine(k) ==
    /\ feed[k].at = "serving" /\ feed[k].pump = "idle" /\ feed[k].lines # << >>
    /\ feed' = [feed EXCEPT ![k].lines = Tail(@), ![k].pending = @ \cup {Head(feed[k].lines)}]
    /\ UNCHANGED <<stateVars, ringVars, page, granted, passed>>

Flush(k) ==
    /\ feed[k].at = "serving" /\ feed[k].pump = "idle" /\ feed[k].pending # {}
    /\ feed' = [feed EXCEPT ![k].pending = {},
           ![k].out = IF HasRoom(k) THEN Append(@, [type |-> "logs", logs |-> feed[k].pending]) ELSE @]
    /\ passed' = IF HasRoom(k) THEN passed ELSE passed \cup feed[k].pending
    /\ UNCHANGED <<stateVars, ringVars, page, granted>>

(* The lines a page adds: those past the last it has, so that a backlog it *)
(* is sent again adds none twice.                                          *)
Fresh(lines) == {n \in lines : \A m \in page.lines : n > m}

(* The one writer, and the page at the other end.                          *)
Deliver(k) ==
    /\ feed[k].at = "serving" /\ feed[k].out # << >>
    /\ page.socket = k /\ page.link = "open"
    /\ LET env == Head(feed[k].out) IN
           IF env.type = "state"
               THEN page' = [page EXCEPT !.told = env.state] /\ UNCHANGED passed
               ELSE /\ page' = [page EXCEPT !.lines = @ \cup Fresh(env.logs)]
                    /\ passed' = passed \cup (env.logs \ (page.lines \cup Fresh(env.logs)))
    /\ feed' = [feed EXCEPT ![k].out = Tail(@)]
    /\ UNCHANGED <<stateVars, ringVars, granted>>

(* The peer is gone: handleWS returns, its deferred calls last first.  The *)
(* ring's cancel forgets the channel under its lock and closes it after.   *)
CancelLogs(k) ==
    /\ feed[k].at = "serving" /\ ~(page.socket = k /\ page.link = "open")
    /\ ringSubs' = ringSubs \ {k}
    /\ feed' = [feed EXCEPT ![k].at = "leaving"]
    /\ UNCHANGED <<stateVars, recorded, fanning, ended, panicked, page, granted, passed>>

FeedLeaves(k) ==
    /\ feed[k].at = "leaving"
    /\ ended' = ended \cup {k}
    /\ handlers' = handlers \ {k}
    /\ feed' = [feed EXCEPT ![k].at = "over"]
    /\ UNCHANGED <<agentState, untold, waking, recorded, fanning, ringSubs, panicked, page,
                   granted, passed>>

------------------------------------------------------------------------------
(* The page.  The connection is refused or drops, a listener rebinding     *)
(* included; the page cannot tell which, and asks.                         *)
SocketCloses ==
    /\ page.link \in {"connecting", "open"}
    /\ page' = [page EXCEPT !.link = "asking"]
    /\ UNCHANGED <<stateVars, ringVars, feed, granted, passed>>

(* 403, and it gives up; anything else, no answer included, is tried again.*)
Asked ==
    /\ page.link = "asking"
    /\ \/ page' = [page EXCEPT !.link = "closed"]
       \/ ~granted /\ page' = [page EXCEPT !.link = "expired"]
    /\ UNCHANGED <<stateVars, ringVars, feed, granted, passed>>

Retry ==
    /\ page.link = "closed" /\ More
    /\ page' = [page EXCEPT !.link = "connecting", !.socket = @ + 1]
    /\ UNCHANGED <<stateVars, ringVars, feed, granted, passed>>

(* RevokeAll, signing out or twelve hours: no open socket is closed by it. *)
SessionEnds ==
    /\ granted
    /\ granted' = FALSE
    /\ UNCHANGED <<stateVars, ringVars, feed, page, passed>>

FeedNext(k) ==
    \/ WakeFeed(k) \/ Accept(k) \/ Subscribe(k) \/ SubscribeLogs(k)
    \/ GreetState(k) \/ GreetLogs(k) \/ TakeChange(k) \/ BuildState(k) \/ PushState(k)
    \/ TakeLine(k) \/ Flush(k) \/ Deliver(k) \/ CancelLogs(k) \/ FeedLeaves(k)

LoggerNext(l) == Write(l) \/ Written(l) \/ \E k \in PageSockets : FanOut(l, k)

ConsoleNext ==
    /\ ~panicked
    /\ \/ StateChanges \/ NotifyChange
       \/ \E l \in Loggers : LoggerNext(l)
       \/ \E k \in PageSockets : FeedNext(k)
       \/ SocketCloses \/ Asked \/ Retry \/ SessionEnds

ConsoleSpec == ConsoleInit /\ [][ConsoleNext]_consoleVars

------------------------------------------------------------------------------
InOut(k, Has(_)) == \E i \in DOMAIN feed[k].out : Has(feed[k].out[i])

(* An open page that has been greeted and does not have the agent's newest *)
(* state will be sent it: the change has yet to be told, its emission has  *)
(* yet to reach the socket, a token or a build is waiting, the state is in *)
(* the queue, or the last one found the queue full.                        *)
StateReaches ==
    LET k == page.socket
        Newest(env) == env.type = "state" /\ env.state = agentState
    IN  page.link = "open" /\ feed[k].at = "serving" /\ page.told # agentState =>
            \/ untold > 0 \/ k \in waking \/ feed[k].woken \/ feed[k].pump = "woken"
            \/ feed[k].pump = "built" /\ feed[k].built = agentState
            \/ InOut(k, Newest) \/ feed[k].missed

(* Every line the ring keeps is on the page, on its way to it, or was      *)
(* dropped for want of room or passed over as late: none falls between the *)
(* backlog the page is greeted with and the lines it follows.              *)
LinesReach ==
    LET k == page.socket IN
        page.link = "open" /\ feed[k].at = "serving" =>
            \A n \in Entries \ (page.lines \cup passed \cup feed[k].pending) :
                LET Has(env) == env.type = "logs" /\ n \in env.logs IN
                \/ \E l \in Loggers : fanning[l].line = n /\ k \in fanning[l].to
                \/ n \in ToSet(feed[k].lines)
                \/ InOut(k, Has)

(* A page that stays open comes to show what the agent is and has logged   *)
(* (console.go:99, server.go:383).                                         *)
PageIsTold == StateReaches /\ LinesReach

(* The ring can be logged to while a page leaves (logbuf.go:38, "Ring is a *)
(* bounded, concurrency-safe buffer").                                     *)
NeverPanics == ~panicked

=============================================================================
