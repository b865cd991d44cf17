---------------------------- MODULE WhatsAppLink ----------------------------
(***************************************************************************)
(* The connection of the WhatsApp bridge: one socket to WhatsApp at a      *)
(* time, opened with the credentials on disk by connect attempts that are  *)
(* suspended while they load them, re-opened after a delay when it drops,  *)
(* and closed by stop, which with logout waits for WhatsApp's answer.      *)
(* WhatsApp itself is external: it asks for a login, accepts it, opens and *)
(* closes the connection as it likes.  Time is not modelled: a timer that  *)
(* is armed may fire, so the length of a back-off makes no difference.     *)
(***************************************************************************)
EXTENDS Naturals, FiniteSets

CONSTANTS
  NoSocket,       \* sentinel: this.sock is null
  MaxGeneration,  \* bound: stops between two restarts of the daemon
  MaxCreds        \* bound: times the device is linked

ASSUME LinkAssumption == MaxGeneration \in Nat /\ MaxCreds \in Nat

Generations == 0..MaxGeneration
Creds == 0..MaxCreds      \* 0: credentials without an account

\* A socket: the credentials it was opened with, and what happened on it.
Socket == [cred : Creds, sawQr : BOOLEAN, open : BOOLEAN]

ASSUME NoSocketAssumption == NoSocket \notin Socket

NoReason == "none"

VARIABLES
  auth,        \* AUTH_DIR: the credentials saved on disk
  sock,        \* this.sock
  status,      \* this._status
  reason,      \* this._reason
  linkedFlag,  \* this._linked
  generation,  \* this.generation
  attempt,     \* per generation: how far its connect attempt is
  loaded,      \* per generation: the credentials its attempt has read
  rearms,      \* per generation: the attempt was started by the timer
  timer,       \* this.reconnectTimer is armed
  versionKnown,\* cachedWaVersion is set
  poller,      \* this.responsePoller is running
  pair,        \* the request for a pairing code: its phase, and the
               \* generation whose attempt it waits for
  leaving,     \* per generation: the socket its stop is logging out
  wanted,      \* history: the last request was a start, not a stop
  dropped      \* history: a linked session was cut off, and nobody has
               \* asked for anything since

link == <<sock, status, reason, linkedFlag>>
connecting == <<generation, attempt, loaded, rearms, timer, versionKnown>>
history == <<wanted, dropped>>
vars == <<auth, sock, status, reason, linkedFlag, generation, attempt, loaded,
          rearms, timer, versionKnown, poller, pair, leaving, wanted, dropped>>

-----------------------------------------------------------------------------
Linked == linkedFlag = "yes" \/ (linkedFlag = "unknown" /\ auth # 0)

NotPairing == [phase |-> "idle", gen |-> 0]

Booted ==
  /\ sock' = NoSocket /\ status' = "disconnected" /\ reason' = NoReason
  /\ linkedFlag' = "unknown" /\ generation' = 0
  /\ attempt' = [g \in Generations |-> "none"]
  /\ loaded' = [g \in Generations |-> 0]
  /\ rearms' = [g \in Generations |-> FALSE]
  /\ timer' = FALSE /\ versionKnown' = FALSE /\ poller' = FALSE
  /\ pair' = NotPairing
  /\ leaving' = [g \in Generations |-> NoSocket]
  /\ wanted' = FALSE /\ dropped' = FALSE

Init ==
  /\ auth = 0
  /\ sock = NoSocket /\ status = "disconnected" /\ reason = NoReason
  /\ linkedFlag = "unknown" /\ generation = 0
  /\ attempt = [g \in Generations |-> "none"]
  /\ loaded = [g \in Generations |-> 0]
  /\ rearms = [g \in Generations |-> FALSE]
  /\ timer = FALSE /\ versionKnown = FALSE /\ poller = FALSE
  /\ pair = NotPairing
  /\ leaving = [g \in Generations |-> NoSocket]
  /\ wanted = FALSE /\ dropped = FALSE

\* The daemon dies and starts again; what is on disk stays.
Crash == Booted /\ UNCHANGED auth

-----------------------------------------------------------------------------
(* Connecting. *)

Connecting == attempt[generation] # "none"

\* connect(): a second caller shares the attempt in flight.
Connect(byTimer) ==
  /\ attempt' = [attempt EXCEPT ![generation] = IF Connecting THEN @ ELSE "creds"]
  /\ rearms' = [rearms EXCEPT ![generation] = byTimer \/ (Connecting /\ @)]

\* start(), but for what its caller does afterwards.
StartSteps ==
  IF sock # NoSocket
    THEN UNCHANGED <<status, reason, attempt, rearms, timer>>
    ELSE /\ timer' = FALSE
         /\ reason' = NoReason
         /\ status' = "connecting"
         /\ Connect(FALSE)

Start ==
  /\ StartSteps
  /\ wanted' = TRUE /\ dropped' = FALSE
  /\ UNCHANGED <<auth, sock, linkedFlag, generation, loaded, versionKnown,
                 poller, pair, leaving>>

\* The end of an attempt, for the pairing request that waits for it.
PairAfterConnect(g) ==
  IF pair.phase # "starting" \/ pair.gen # g
    THEN UNCHANGED pair
    ELSE pair' = IF status # "waiting_qr" THEN [pair EXCEPT !.phase = "waiting"]
                 ELSE IF sock' # NoSocket THEN [pair EXCEPT !.phase = "code"]
                 ELSE NotPairing

\* Mutant: an attempt does not look at the generation.
NeverOvertaken(g) == FALSE
\* An attempt that stop has overtaken ends without a socket.
Overtaken(g) == g # generation

Opens(g, cred) ==
  IF Overtaken(g)
    THEN UNCHANGED sock
    ELSE sock' = [cred |-> cred, sawQr |-> FALSE, open |-> FALSE]

Settle(g) ==
  /\ attempt' = [attempt EXCEPT ![g] = "none"]
  /\ rearms' = [rearms EXCEPT ![g] = FALSE]
  /\ PairAfterConnect(g)

\* The credentials are read; without a known version it is asked for next.
CredsLoaded(g) ==
  /\ attempt[g] = "creds"
  /\ IF Overtaken(g)
       THEN UNCHANGED <<loaded, linkedFlag>>
       ELSE /\ loaded' = [loaded EXCEPT ![g] = auth]
            /\ linkedFlag' = IF auth # 0 THEN "yes" ELSE "no"
  /\ IF versionKnown \/ Overtaken(g)
       THEN Opens(g, auth) /\ Settle(g)
       ELSE /\ attempt' = [attempt EXCEPT ![g] = "version"]
            /\ UNCHANGED <<sock, rearms, pair>>
  /\ UNCHANGED <<auth, status, reason, generation, timer, versionKnown,
                 poller, leaving, history>>

\* The version is optional: a socket is opened without it when it is not found.
VersionFetched(g) ==
  /\ attempt[g] = "version"
  /\ versionKnown' \in BOOLEAN
  /\ Opens(g, loaded[g])
  /\ Settle(g)
  /\ UNCHANGED <<auth, status, reason, linkedFlag, generation, loaded, timer,
                 poller, leaving, history>>

\* Mutant: the failed reconnect is only logged.
NeverRetries(g) == FALSE
\* The attempt that failed is followed by another only if the timer started it.
Retries(g) == rearms[g] /\ g = generation /\ sock = NoSocket

AttemptFails(g) ==
  /\ attempt[g] # "none"
  /\ attempt' = [attempt EXCEPT ![g] = "none"]
  /\ rearms' = [rearms EXCEPT ![g] = FALSE]
  /\ timer' = (timer \/ Retries(g))
  /\ status' = IF Retries(g) /\ ~timer THEN "connecting"
               ELSE IF g = generation /\ sock = NoSocket THEN "disconnected"
               ELSE status
  /\ pair' = IF pair = [phase |-> "starting", gen |-> g] THEN NotPairing ELSE pair
  /\ UNCHANGED <<auth, sock, reason, linkedFlag, generation, loaded,
                 versionKnown, poller, leaving, history>>

\* scheduleReconnect
ScheduleReconnect ==
  /\ timer' = TRUE
  /\ status' = IF timer THEN status ELSE "connecting"

\* The timer of scheduleReconnect.
TimerFires ==
  /\ timer
  /\ timer' = FALSE
  /\ IF sock = NoSocket THEN Connect(TRUE) ELSE UNCHANGED <<attempt, rearms>>
  /\ UNCHANGED <<auth, sock, status, reason, linkedFlag, generation, loaded,
                 versionKnown, poller, pair, leaving, history>>

-----------------------------------------------------------------------------
(* WhatsApp's events on the current socket; those of another are ignored.  *)

\* settleReadyWaiters
WakePairing(ok) ==
  pair' = IF pair.phase # "waiting" THEN pair
          ELSE IF ok THEN [pair EXCEPT !.phase = "code"] ELSE NotPairing

\* WhatsApp asks for a login: the first of these makes the socket ready to pair.
Qr ==
  /\ sock # NoSocket /\ sock.cred = 0
  /\ sock' = [sock EXCEPT !.sawQr = TRUE]
  /\ status' = "waiting_qr"
  /\ WakePairing(TRUE)
  /\ UNCHANGED <<auth, reason, linkedFlag, connecting, poller, leaving, history>>

\* The code was used: WhatsApp sends credentials, which are saved, and closes
\* the socket with restartRequired when it is ready.
Paired ==
  /\ sock # NoSocket /\ sock.cred = 0 /\ sock.sawQr /\ auth < MaxCreds
  /\ auth' = auth + 1
  /\ sock' = [sock EXCEPT !.cred = auth']
  /\ UNCHANGED <<status, reason, linkedFlag, connecting, poller, pair, leaving,
                 history>>

Open ==
  /\ sock # NoSocket /\ sock.cred # 0 /\ ~sock.open
  /\ sock' = [sock EXCEPT !.open = TRUE]
  /\ status' = "connected" /\ reason' = NoReason /\ linkedFlag' = "yes"
  /\ poller' = TRUE
  /\ dropped' = FALSE
  /\ UNCHANGED <<auth, connecting, pair, leaving, wanted>>

\* settleDisconnected
Disconnected(why) ==
  /\ status' = "disconnected" /\ reason' = why
  /\ linkedFlag' = IF why = "replaced" THEN linkedFlag ELSE "no"
  /\ timer' = timer

\* wipeAuth, which may fail
WipeAuth == auth' \in {0, auth}

\* What follows a close, by its code.
AfterClose(code) ==
  CASE code = "loggedOut" ->
         /\ WipeAuth /\ versionKnown' = FALSE /\ Disconnected("logged_out")
         /\ dropped' = FALSE
    [] code = "restartRequired" ->
         /\ ScheduleReconnect /\ dropped' = TRUE
         /\ UNCHANGED <<auth, reason, linkedFlag, versionKnown>>
    [] code = "replaced" ->
         /\ Disconnected("replaced") /\ dropped' = FALSE
         /\ UNCHANGED <<auth, versionKnown>>
    [] code = "other" /\ sock.cred = 0 ->
         /\ WipeAuth
         /\ Disconnected(IF sock.sawQr THEN "qr_expired" ELSE "connection_failed")
         /\ dropped' = FALSE
         /\ UNCHANGED versionKnown
    [] OTHER ->
         /\ ScheduleReconnect /\ dropped' = TRUE
         /\ UNCHANGED <<auth, reason, linkedFlag, versionKnown>>

Close(code) ==
  /\ sock # NoSocket
  /\ poller' = FALSE
  /\ sock' = NoSocket
  /\ WakePairing(FALSE)
  /\ AfterClose(code)
  /\ UNCHANGED <<generation, attempt, loaded, rearms, leaving, wanted>>

-----------------------------------------------------------------------------
(* Pairing by code, and stopping. *)

\* requestPairingCode up to its first await
RequestPairing ==
  /\ pair = NotPairing /\ ~Linked
  /\ StartSteps
  /\ pair' = [gen |-> generation,
              phase |-> IF sock = NoSocket THEN "starting"
                        ELSE IF status = "waiting_qr" THEN "code" ELSE "waiting"]
  /\ wanted' = TRUE /\ dropped' = FALSE
  /\ UNCHANGED <<auth, sock, linkedFlag, generation, loaded, versionKnown,
                 poller, leaving>>

\* The request is answered, or its wait has taken too long.
PairingEnds ==
  /\ pair.phase \in {"waiting", "code"}
  /\ pair' = NotPairing
  /\ UNCHANGED <<auth, link, connecting, poller, leaving, history>>

\* What stop does once the socket is gone.
Stopped(logout) ==
  /\ IF logout
       THEN WipeAuth /\ linkedFlag' = "no"
       ELSE UNCHANGED <<auth, linkedFlag>>
  /\ status' = "disconnected" /\ reason' = NoReason

\* stop up to its await: only the logout of a socket is waited for.
Stop(logout) ==
  /\ generation < MaxGeneration
  /\ generation' = generation + 1
  /\ timer' = FALSE /\ poller' = FALSE
  /\ WakePairing(FALSE)
  /\ sock' = NoSocket
  /\ wanted' = FALSE /\ dropped' = FALSE
  /\ IF logout /\ sock # NoSocket
       THEN /\ leaving' = [leaving EXCEPT ![generation'] = sock]
            /\ UNCHANGED <<auth, status, reason, linkedFlag>>
       ELSE Stopped(logout) /\ UNCHANGED leaving
  /\ UNCHANGED <<attempt, loaded, rearms, versionKnown>>

\* WhatsApp has answered the logout, or it failed.
LoggedOut(g) ==
  /\ leaving[g] # NoSocket
  /\ leaving' = [leaving EXCEPT ![g] = NoSocket]
  /\ Stopped(TRUE)
  /\ UNCHANGED <<sock, connecting, poller, pair, history>>

-----------------------------------------------------------------------------
Next ==
  \/ Start \/ RequestPairing \/ PairingEnds
  \/ \E g \in Generations : CredsLoaded(g) \/ VersionFetched(g) \/ AttemptFails(g)
  \/ TimerFires
  \/ Qr \/ Paired \/ Open
  \/ \E code \in {"loggedOut", "restartRequired", "replaced", "other"} : Close(code)
  \/ \E logout \in BOOLEAN : Stop(logout)
  \/ \E g \in Generations : LoggedOut(g)
  \/ Crash

Spec == Init /\ [][Next]_vars

-----------------------------------------------------------------------------
TypeOK ==
  /\ auth \in Creds
  /\ sock \in Socket \cup {NoSocket}
  /\ status \in {"disconnected", "connecting", "waiting_qr", "connected"}
  /\ reason \in {NoReason, "logged_out", "qr_expired", "replaced", "connection_failed"}
  /\ linkedFlag \in {"unknown", "yes", "no"}
  /\ generation \in Generations
  /\ attempt \in [Generations -> {"none", "creds", "version"}]
  /\ loaded \in [Generations -> Creds]
  /\ rearms \in [Generations -> BOOLEAN]
  /\ timer \in BOOLEAN /\ versionKnown \in BOOLEAN /\ poller \in BOOLEAN
  /\ pair \in [phase : {"idle", "starting", "waiting", "code"}, gen : Generations]
  /\ leaving \in [Generations -> Socket \cup {NoSocket}]
  /\ wanted \in BOOLEAN /\ dropped \in BOOLEAN

\* After a stop, and until somebody asks for a start, no socket appears: not
\* from an attempt that was loading credentials, not from a timer.
StaysStopped == ~wanted => sock = NoSocket /\ ~timer /\ ~poller

\* A linked session that was cut off is not given up on: somebody holds the
\* thread that leads to its next attempt, whatever failed meanwhile.
NotAbandoned == dropped => timer \/ Connecting \/ sock # NoSocket
=============================================================================
