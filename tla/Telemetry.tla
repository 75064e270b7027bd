------------------------------- MODULE Telemetry -------------------------------
(***************************************************************************)
(* How a run's frames reach one dashboard: the server's fan-out            *)
(* (server/telemetry-hub.ts) and socket (server/ws.ts), the dashboard's    *)
(* reconnecting socket (web/src/lib/ws-client.ts), its session             *)
(* (lib/services.ts, lib/token.ts, store/auth-store.ts) and what it shows  *)
(* (store/telemetry-store.ts).                                             *)
(*                                                                         *)
(* A run is named by its number, an event by its run and sequence number.  *)
(* Of a frame the run, its status and the recent events are kept.  Timers  *)
(* fire when they like.  A socket the dashboard dropped is no longer       *)
(* looked at: its handlers are gone, and the server learns of it later.    *)
(* Tokens are numbers, and 0 is never the right one.                       *)
(***************************************************************************)
EXTENDS Naturals, Sequences, FiniteSets, SequencesExt, Filters

CONSTANTS
  Null,
  RecentSize,   \* TELEMETRY_RECENT_EVENTS
  TickerSize,   \* maxTickerEvents
  Behind,       \* messages buffered for a client from which it is behind
  MaxQueued,    \* bound: messages on their way to it when more are sent
  MaxEvents,    \* bound: events of a run
  Allowances    \* bounds: the runs, the restarts of the server, the sign-ins and the
                \* broken connections of a behaviour

TelemetryAssumption ==
  /\ {RecentSize, TickerSize, Behind, MaxQueued, MaxEvents} \subseteq Nat
  /\ Null \notin Nat
  /\ \A b \in Allowances : {b.runs, b.restarts, b.signIns, b.breaks} \subseteq Nat

VARIABLES
  left,      \* what is left of the budget
  run,       \* the runtime's run, [id, status]
  seq,       \* its last event
  recent,    \* the ring of recent events, newest first
  secret,    \* the server's admin token
  latest,    \* the hub's last frame, or NoFrame
  told,      \* the run and status the hub last told of (lastRunId, lastRunSig)
  watermark, \* lastEventSeq
  link,      \* the dashboard's socket, both ends of it, or NoLink
  sock,      \* the status it reports
  attempts,   \* 0 after a greeting, 1 after any number of failures
  reconnect, \* the reconnect timer is armed
  ping,      \* the heartbeat interval runs
  pong,      \* the watchdog is armed
  auth,      \* the status of the session
  held,      \* the admin token the tab holds
  calls,     \* the tokens of the calls in flight
  shown,     \* the run on screen
  ticker     \* the events on screen, newest first

runVars == <<left, run, seq, recent, secret>>
hubVars == <<latest, told, watermark>>
sockVars == <<sock, attempts, reconnect, ping, pong>>
sessionVars == <<auth, held, calls>>
viewVars == <<shown, ticker>>
telemetryVars == <<runVars, hubVars, link, sockVars, sessionVars, viewVars>>

NoRun == [id |-> 0, status |-> "none"]
NoFrame == [run |-> NoRun, recent |-> <<>>]
NoLink == [at |-> "none"]
Live == {"running", "paused"}

-----------------------------------------------------------------------------
(* The server *)

Hello == [type |-> "hello"]
RunMessage(r) == [type |-> "run", run |-> r]
EventMessage(e) == [type |-> "event", event |-> e]
FrameMessage(f) == [type |-> "frame", frame |-> f]

\* Mutant: any message is shed when the client is behind.
DroppableAll(message) == TRUE

\* DROPPABLE: run transitions, greetings and pongs are never shed.
Droppable(message) == message.type \in {"frame", "event"}

\* broadcast to the dashboard's client: only channels it subscribes to, and none
\* of the bulk when it is behind.
Offer(l, message) ==
  IF message.type \in l.channels /\ ~(Droppable(message) /\ Len(l.down) >= Behind)
    THEN [l EXCEPT !.down = Append(@, message)]
    ELSE l
Offered(l, messages) ==
  LET after[n \in 0..Len(messages)] == IF n = 0 THEN l ELSE Offer(after[n - 1], messages[n])
  IN after[Len(messages)]
Broadcast(messages) == link' = IF link.at = "open" THEN Offered(link, messages) ELSE link

\* ingestFrame: the frame is kept, then a run message when run or status changed,
\* an event message for each event above the watermark, oldest first, and the frame.
IngestFrame(f) ==
  LET above == IF f.run.id = told.id THEN watermark ELSE 0
      fresh == Selected(f.recent, {e \in Range(f.recent) : e.seq > above})
      transition == IF f.run = told THEN <<>> ELSE <<RunMessage(f.run)>>
      events == [i \in DOMAIN fresh |-> EventMessage(Reverse(fresh)[i])]
  IN /\ latest' = f
     /\ told' = f.run
     /\ watermark' = IF fresh = <<>> THEN above ELSE fresh[1].seq
     /\ Broadcast(transition \o events \o <<FrameMessage(f)>>)

FrameOf(r) == [run |-> r, recent |-> recent]
Room == link # NoLink => Len(link.down) < MaxQueued

\* start(): a new run, an empty ring.
Start ==
  /\ run.status \notin Live /\ left.runs > 0
  /\ left' = [left EXCEPT !.runs = @ - 1]
  /\ run' = [id |-> run.id + 1, status |-> "running"]
  /\ seq' = 0 /\ recent' = <<>>
  /\ UNCHANGED <<secret, hubVars, link, sockVars, sessionVars, viewVars>>

PauseOrResume ==
  /\ run.status \in Live
  /\ run' = [run EXCEPT !.status = IF @ = "running" THEN "paused" ELSE "running"]
  /\ UNCHANGED <<left, seq, recent, secret, hubVars, link, sockVars, sessionVars, viewVars>>

\* recordEvent, in the order the events are generated.
Generate ==
  /\ run.status = "running" /\ seq < MaxEvents
  /\ seq' = seq + 1
  /\ recent' = SubSeq(<<[run |-> run.id, seq |-> seq + 1]>> \o recent, 1,
                      IF Len(recent) < RecentSize THEN Len(recent) + 1 ELSE RecentSize)
  /\ UNCHANGED <<left, run, secret, hubVars, link, sockVars, sessionVars, viewVars>>

\* emitFrame on a tick of a live run.
Frame ==
  /\ run.status \in Live /\ Room
  /\ IngestFrame(FrameOf(run))
  /\ UNCHANGED <<runVars, sockVars, sessionVars, viewVars>>

\* doFinalize: the last status and the last frame.
FinalFrame ==
  /\ run.status \in Live /\ Room
  /\ run' = [run EXCEPT !.status = "completed"]
  /\ IngestFrame(FrameOf([run EXCEPT !.status = "completed"]))
  /\ UNCHANGED <<left, seq, recent, secret, sockVars, sessionVars, viewVars>>

\* The upgrade: a wrong token is told so and closed; a client is registered for
\* all channels, greeted, and sent the last frame.
Accept ==
  /\ link # NoLink /\ link.at = "opening"
  /\ sock' = "open"
  /\ link' = IF link.token = secret
       THEN [link EXCEPT !.at = "open", !.channels = {"hello", "pong", "frame", "event", "run"},
               !.down = IF latest = NoFrame THEN <<Hello>> ELSE <<Hello, FrameMessage(latest)>>]
       ELSE [link EXCEPT !.at = "closing", !.code = 4401]
  /\ UNCHANGED <<runVars, hubVars, attempts, reconnect, ping, pong, sessionVars, viewVars>>

\* A message of the client: a subscription or a ping.
ServerReceives ==
  /\ link # NoLink /\ link.at = "open" /\ link.up # <<>> /\ Room
  /\ link' = [IF link.up[1] = "subscribe"
                THEN [link EXCEPT !.channels = {"hello", "pong", "frame", "run"}]
                ELSE Offer(link, [type |-> "pong"])
              EXCEPT !.up = Tail(@)]
  /\ UNCHANGED <<runVars, hubVars, sockVars, sessionVars, viewVars>>

Lost == IF link = NoLink THEN NoLink ELSE [link EXCEPT !.at = "closing", !.code = Null, !.down = <<>>]

\* The network gives the connection up, or it is refused.
Break ==
  /\ link # NoLink /\ link.at # "closing" /\ left.breaks > 0
  /\ left' = [left EXCEPT !.breaks = @ - 1]
  /\ link' = Lost
  /\ UNCHANGED <<run, seq, recent, secret, hubVars, sockVars, sessionVars, viewVars>>

\* The server goes down, and comes up with the admin token it had or, configured
\* anew, with another; calls under way fail.
Restart ==
  /\ left.restarts > 0
  /\ left' = [left EXCEPT !.restarts = @ - 1]
  /\ secret' \in {secret, secret + 1}
  /\ run' = [run EXCEPT !.status = "none"] /\ seq' = 0 /\ recent' = <<>>
  /\ latest' = NoFrame /\ told' = NoRun /\ watermark' = 0
  /\ link' = Lost
  /\ calls' = {}
  /\ UNCHANGED <<sockVars, auth, held, viewVars>>

-----------------------------------------------------------------------------
(* The dashboard's socket *)

\* scheduleReconnect
ScheduleReconnect == sock' = "reconnecting" /\ attempts' = 1 /\ reconnect' = TRUE

\* connect(): the old socket is dropped; without a token that is all; the factory
\* may throw.  The heartbeat of the old socket goes on until a greeting.
Connect ==
  /\ UNCHANGED <<ping, pong>>
  /\ \/ /\ held = Null
        /\ link' = NoLink /\ sock' = "auth_error" /\ reconnect' = FALSE
        /\ UNCHANGED attempts
     \/ /\ held # Null
        /\ link' = [at |-> "opening", token |-> held, channels |-> {}, down |-> <<>>,
                    up |-> <<>>, code |-> Null, greeted |-> FALSE]
        /\ sock' = (IF attempts = 0 THEN "connecting" ELSE "reconnecting")
        /\ reconnect' = FALSE
        /\ UNCHANGED attempts
     \/ held # Null /\ link' = NoLink /\ ScheduleReconnect

\* close(): intended, and final until the next connect.
Close ==
  /\ link' = NoLink /\ sock' = "closed"
  /\ reconnect' = FALSE /\ ping' = FALSE /\ pong' = FALSE
  /\ UNCHANGED attempts

\* handleUnauthorized: only a live session expires.
Expire ==
  IF auth = "authed"
    THEN Close /\ auth' = "expired" /\ held' = Null
    ELSE UNCHANGED <<link, sockVars, auth, held>>

ReconnectFires ==
  /\ reconnect
  /\ Connect
  /\ UNCHANGED <<runVars, hubVars, sessionVars, viewVars>>

\* handleMessage: any message calms the watchdog; a greeting starts the
\* heartbeat and subscribes.
Greeted ==
  /\ link.down[1].type = "hello"
  /\ link' = [link EXCEPT !.down = Tail(@), !.up = Append(@, "subscribe"), !.greeted = TRUE]
  /\ attempts' = 0 /\ sock' = "open" /\ ping' = TRUE
  /\ UNCHANGED viewVars

\* ingestFrame of the store: what is not yet on the ticker goes on top of it.
ShowFrame(f) ==
  LET fresh == Selected(f.recent, Range(f.recent) \ Range(ticker))
      all == fresh \o ticker
  IN /\ shown' = f.run
     /\ ticker' = SubSeq(all, 1, IF Len(all) < TickerSize THEN Len(all) ELSE TickerSize)

Shown ==
  /\ link.down[1].type # "hello"
  /\ CASE link.down[1].type = "frame" -> ShowFrame(link.down[1].frame)
       [] link.down[1].type = "run"   -> shown' = link.down[1].run /\ UNCHANGED ticker
       [] OTHER                       -> UNCHANGED viewVars
  /\ link' = [link EXCEPT !.down = Tail(@)]
  /\ UNCHANGED <<sock, attempts, ping>>

ClientReceives ==
  /\ link # NoLink /\ link.down # <<>>
  /\ pong' = FALSE
  /\ Greeted \/ Shown
  /\ UNCHANGED <<runVars, hubVars, reconnect, sessionVars>>

\* handleClose: a refused token ends the session, anything else is retried.
ClientCloses ==
  /\ link # NoLink /\ link.at = "closing" /\ link.down = <<>>
  /\ \/ /\ link.code = 4401
        /\ IF auth = "authed" THEN Expire
           ELSE /\ sock' = "auth_error" /\ link' = NoLink /\ ping' = FALSE /\ pong' = FALSE
                /\ UNCHANGED <<attempts, reconnect, auth, held>>
     \/ /\ link.code = Null
        /\ link' = NoLink /\ ping' = FALSE /\ pong' = FALSE
        /\ ScheduleReconnect
        /\ UNCHANGED <<auth, held>>
  /\ UNCHANGED <<runVars, hubVars, calls, viewVars>>

\* The heartbeat: a ping if there is an open socket, and a new watchdog.
PingFires ==
  /\ ping
  /\ pong' = TRUE
  /\ IF link # NoLink /\ link.at = "open" /\ "ping" \notin Range(link.up)
       THEN link' = [link EXCEPT !.up = Append(@, "ping")]
       ELSE UNCHANGED link
  /\ UNCHANGED <<runVars, hubVars, sock, attempts, reconnect, ping, sessionVars, viewVars>>

\* Nothing came: the socket is dropped, the heartbeat is not.
PongFires ==
  /\ pong
  /\ pong' = FALSE
  /\ link' = NoLink
  /\ ScheduleReconnect
  /\ UNCHANGED <<runVars, hubVars, ping, sessionVars, viewVars>>

-----------------------------------------------------------------------------
(* The session *)

\* signIn at the gate, which a token check under way locks.
SignIn ==
  /\ auth \in {"locked", "error", "expired"} /\ left.signIns > 0
  /\ left' = [left EXCEPT !.signIns = @ - 1]
  /\ \E token \in 0..secret : held' = token
  /\ auth' = "checking"
  /\ UNCHANGED <<run, seq, recent, secret, hubVars, link, sockVars, calls, viewVars>>

\* GET /api/config answers: the session opens and the stream starts, or the token
\* is forgotten, whatever failed.
Checked ==
  /\ auth = "checking"
  /\ \/ /\ held = secret
        /\ auth' = "authed"
        /\ Connect
        /\ UNCHANGED held
     \/ auth' = "error" /\ held' = Null /\ Close
  /\ UNCHANGED <<runVars, hubVars, calls, viewVars>>

\* Another call of a live session, and its answer, which may come after the
\* session it was made in; of other answers the session knows nothing.
Call ==
  /\ auth = "authed"
  /\ calls' = calls \cup {held}
  /\ UNCHANGED <<runVars, hubVars, link, sockVars, auth, held, viewVars>>
CallAnswered ==
  /\ \E token \in calls :
       /\ calls' = calls \ {token}
       /\ IF token = secret THEN UNCHANGED <<link, sockVars, auth, held>> ELSE Expire
  /\ UNCHANGED <<runVars, hubVars, viewVars>>

SignOut ==
  /\ auth = "authed"
  /\ auth' = "locked" /\ held' = Null
  /\ link' = NoLink /\ sock' = "idle"
  /\ reconnect' = FALSE /\ ping' = FALSE /\ pong' = FALSE
  /\ shown' = NoRun /\ ticker' = <<>>
  /\ UNCHANGED <<runVars, hubVars, attempts, calls>>

\* The page is loaded again: only the token of the tab is left, and it is checked.
Reload ==
  /\ auth = "authed"
  /\ auth' = "checking"
  /\ link' = NoLink /\ sock' = "idle" /\ attempts' = 0
  /\ reconnect' = FALSE /\ ping' = FALSE /\ pong' = FALSE
  /\ calls' = {}
  /\ shown' = NoRun /\ ticker' = <<>>
  /\ UNCHANGED <<runVars, hubVars, held>>

TelemetryInit ==
  /\ left \in Allowances
  /\ run = NoRun /\ seq = 0 /\ recent = <<>> /\ secret = 1
  /\ latest = NoFrame /\ told = NoRun /\ watermark = 0
  /\ link = NoLink /\ sock = "idle" /\ attempts = 0
  /\ reconnect = FALSE /\ ping = FALSE /\ pong = FALSE
  /\ auth = "locked" /\ held = Null /\ calls = {}
  /\ shown = NoRun /\ ticker = <<>>

TelemetryNext ==
  \/ Start \/ PauseOrResume \/ Generate \/ Frame \/ FinalFrame
  \/ Accept \/ ServerReceives \/ Break \/ Restart
  \/ ReconnectFires \/ ClientReceives \/ ClientCloses \/ PingFires \/ PongFires
  \/ SignIn \/ Checked \/ Call \/ CallAnswered \/ SignOut \/ Reload

TelemetrySpec == TelemetryInit /\ [][TelemetryNext]_telemetryVars

-----------------------------------------------------------------------------
(* Properties *)

\* A dashboard that has been greeted and has caught up shows the run and the
\* status the hub last told of, however much bulk it was spared
\* (telemetry-hub.ts:75-88, ws.ts:36-37, 84-115).
ShowsRun ==
  link # NoLink /\ link.at = "open" /\ link.greeted /\ link.down = <<>> /\ latest # NoFrame =>
    shown = latest.run

\* The ticker is newest-first and shows no event twice, over reconnects and runs,
\* as long as it holds at least the recent events of a frame
\* (telemetry-store.ts:85-93).
Newer(a, b) == a.run > b.run \/ (a.run = b.run /\ a.seq > b.seq)
TickerOrdered ==
  RecentSize <= TickerSize =>
    \A i, j \in DOMAIN ticker : i < j => Newer(ticker[i], ticker[j])

\* A live session has its stream, or a timer that will bring it back; without a
\* session there is neither socket, nor timer, nor token
\* (services.ts:17-106, ws-client.ts:83-189).
StreamFollowsSession ==
  IF auth = "authed"
    THEN /\ held # Null
         /\ sock \in {"connecting", "open", "reconnecting"}
         /\ (link # NoLink) # reconnect
    ELSE /\ link = NoLink /\ ~reconnect /\ ~ping /\ ~pong
         /\ (held # Null) = (auth = "checking")

ShowsTruth == ShowsRun /\ TickerOrdered /\ StreamFollowsSession
=============================================================================
