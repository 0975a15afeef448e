------------------------------ MODULE KiteStream ------------------------------
(***************************************************************************)
(* The prices of the Zerodha connector (src/zerodha_connector.py): a login *)
(* whose token is kept in a file, a websocket that opens in a thread of    *)
(* its own some time after connect() has returned, a cache of last prices, *)
(* and the two ways a symbol comes to be streamed, subscribe() for the     *)
(* positions of the scan loop and get_current_price() for anything asked.  *)
(* The trader makes a connector when it starts and another one at the      *)
(* open; keepalive(), which nobody calls, is left out.                     *)
(***************************************************************************)
EXTENDS Integers, FiniteSets

CONSTANTS Symbol,
          MaxFaults    \* bound: expiries, lost connections, new connectors

VARIABLES file,       \* the cached token: "none", "good", or "expired"
          session,    \* the token of the connector, likewise
          socket,     \* kws: "none", "opening", "open", "lost"
          held,       \* symbols the account holds
          cached,     \* keys of _live_prices
          tokens,     \* _subscribed_tokens
          streamed,   \* what the broker sends on the open connection
          work,       \* the call the main thread is in: what it will subscribe
          early,      \* history: cached by get_current_price with the socket not open
          faults

connection == <<file, session, socket>>
vars == <<connection, held, cached, tokens, streamed, work, early, faults>>

Idle == [for |-> "none", of |-> {}]

\* A connector object that has not connected yet.
Fresh ==
  /\ cached' = {} /\ tokens' = {} /\ streamed' = {} /\ early' = {}

\* connect(): the token of the file if profile() accepts it, else a login,
\* which writes the file.  The websocket starts to open.
Connect ==
  /\ session = "none"
  /\ file' = "good" /\ session' = "good" /\ socket' = "opening"
  /\ UNCHANGED <<held, cached, tokens, streamed, work, early, faults>>

\* The login fails: no session, no websocket; the trader gives up.
LoginFails ==
  /\ session = "none" /\ file # "good"
  /\ faults < MaxFaults /\ faults' = faults + 1
  /\ UNCHANGED <<connection, held, cached, tokens, streamed, work, early>>

\* _connect_broker at the open, or a process started anew.
NewConnector ==
  /\ session # "none" /\ work = Idle
  /\ faults < MaxFaults /\ faults' = faults + 1
  /\ session' = "none" /\ socket' = "none"
  /\ Fresh
  /\ UNCHANGED <<file, held, work>>

\* Mutant: a reconnected websocket is given no subscriptions.
OnConnectSilent == streamed' = {}

\* on_connect: subscribe to every token noted so far.
OnConnect == streamed' = tokens

SocketOpens ==
  /\ socket \in {"opening", "lost"} /\ session = "good"
  /\ socket' = "open"
  /\ OnConnect
  /\ UNCHANGED <<file, session, held, cached, tokens, work, early, faults>>

SocketDrops ==
  /\ socket = "open"
  /\ faults < MaxFaults /\ faults' = faults + 1
  /\ socket' = "lost" /\ streamed' = {}
  /\ UNCHANGED <<file, session, held, cached, tokens, work, early>>

\* The broker ends every token in the early morning.
TokensExpire ==
  /\ file = "good"
  /\ faults < MaxFaults /\ faults' = faults + 1
  /\ file' = "expired"
  /\ session' = IF session = "good" THEN "expired" ELSE session
  /\ UNCHANGED <<socket, held, cached, tokens, streamed, work, early>>

\* on_ticks: the last price of a streamed symbol.
Tick(s) ==
  /\ s \in streamed
  /\ cached' = cached \cup {s}
  /\ UNCHANGED <<connection, held, tokens, streamed, work, early, faults>>

\* get_current_price of a symbol without a cached price: the REST answer is
\* cached, and only then the websocket is looked at.
AskPrice(s) ==
  /\ session = "good" /\ work = Idle /\ s \notin cached
  /\ cached' = cached \cup {s}
  /\ work' = [for |-> "price", of |-> {s}]
  /\ UNCHANGED <<connection, held, tokens, streamed, early, faults>>

\* With the websocket open the symbol is noted and streamed; else it is not
\* even noted for on_connect.
FollowPrice ==
  /\ work.for = "price"
  /\ IF socket = "open"
     THEN /\ tokens' = tokens \cup work.of
          /\ streamed' = streamed \cup work.of
          /\ early' = early
     ELSE /\ early' = early \cup work.of
          /\ UNCHANGED <<tokens, streamed>>
  /\ work' = Idle
  /\ UNCHANGED <<connection, held, cached, faults>>

\* Each token of the answer is noted whether or not the websocket is open.
Noted(batch) == batch

\* subscribe(positions): a symbol with a cached price counts as seen; the
\* answer names some of the others, not all of them with a price.
Subscribe ==
  /\ session = "good" /\ socket # "none" /\ work = Idle
  /\ \E batch \in SUBSET (held \ cached) \ {{}} : \E priced \in SUBSET batch :
       /\ tokens' = tokens \cup Noted(batch)
       /\ cached' = cached \cup priced
       /\ work' = [for |-> "subscribe", of |-> batch]
  /\ UNCHANGED <<connection, held, streamed, early, faults>>

SubscribeSent ==
  /\ work.for = "subscribe"
  /\ streamed' = IF socket = "open" THEN streamed \cup work.of ELSE streamed
  /\ work' = Idle
  /\ UNCHANGED <<connection, held, cached, tokens, early, faults>>

\* The account buys or sells.
Trade(s) ==
  /\ held' = IF s \in held THEN held \ {s} ELSE held \cup {s}
  /\ UNCHANGED <<connection, cached, tokens, streamed, work, early, faults>>

Init ==
  /\ file = "none" /\ session = "none" /\ socket = "none"
  /\ held \in SUBSET Symbol
  /\ cached = {} /\ tokens = {} /\ streamed = {} /\ early = {}
  /\ work = Idle /\ faults = 0

Next ==
  \/ Connect \/ LoginFails \/ NewConnector
  \/ SocketOpens \/ SocketDrops \/ TokensExpire
  \/ FollowPrice \/ Subscribe \/ SubscribeSent
  \/ \E s \in Symbol : Tick(s) \/ AskPrice(s) \/ Trade(s)

Spec == Init /\ [][Next]_vars

TypeOK ==
  /\ {file, session} \subseteq {"none", "good", "expired"}
  /\ socket \in {"none", "opening", "open", "lost"}
  /\ UNION {held, cached, tokens, streamed, early, work.of} \subseteq Symbol
  /\ work.for \in {"none", "price", "subscribe"}
  /\ faults \in 0..MaxFaults

(* A cached price never expires, so it must be fed: while the websocket is *)
(* open every cached symbol is streamed, across lost connections, expired  *)
(* tokens, new connectors and calls the opening of the websocket cuts in   *)
(* two.  The exception is the code's: a symbol first priced by             *)
(* get_current_price before the websocket was open is cached, hence never  *)
(* subscribed, and keeps that price for the life of the connector.         *)
CachedPriceIsStreamed ==
  socket = "open" /\ work = Idle => cached \ streamed \subseteq early

(* Why: what is cached has been noted, or is about to be, or is an early   *)
(* one; and what was noted is streamed once the websocket is open, but for *)
(* the batch that is still to be sent.                                     *)
CachedIsNoted ==
  cached \subseteq tokens \cup early \cup (IF work.for = "price" THEN work.of ELSE {})

NotedIsStreamed ==
  socket = "open" =>
    tokens \subseteq streamed \cup (IF work.for = "subscribe" THEN work.of ELSE {})

StreamIsNoted ==
  /\ streamed \subseteq tokens
  /\ work.for = "subscribe" => work.of \subseteq tokens

StreamHolds == CachedIsNoted /\ NotedIsStreamed /\ StreamIsNoted
=============================================================================
