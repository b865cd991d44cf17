--------------------------- MODULE WhatsAppProofs ---------------------------
(***************************************************************************)
(* What holds of the WhatsApp connection for any number of stops and any   *)
(* number of linked devices: after a stop nothing connects, and a linked   *)
(* session that was cut off keeps a thread that leads to its next attempt. *)
(* And of the messages that come over it, for any number of events and     *)
(* deliveries: each becomes a command once.                                *)
(***************************************************************************)
EXTENDS WhatsAppLink, WhatsAppBridge, FiniteSetTheorems, SequenceTheorems, TLAPS

\* A generation that has not begun has no attempt.
FutureIdle ==
  \A g \in Generations : g > generation => attempt[g] = "none" /\ ~rearms[g]

\* After a stop the current generation has no attempt.
StopIdle == ~wanted => ~Connecting

\* Without a socket or a timer, a session that was cut off is being connected
\* by an attempt that arms the timer when it fails.
Reconnecting ==
  dropped /\ sock = NoSocket /\ ~timer => Connecting /\ rearms[generation]

IInv == TypeOK /\ FutureIdle /\ StopIdle /\ StaysStopped /\ Reconnecting

-----------------------------------------------------------------------------
\* The sets of generations and of credentials hold what the steps put in.
LEMMA Numbers ==
  /\ 0 \in Generations /\ 0 \in Creds
  /\ \A g \in Generations : g < MaxGeneration => g + 1 \in Generations
  /\ \A c \in Creds : c < MaxCreds => c + 1 \in Creds
  /\ Generations \subseteq Nat /\ Creds \subseteq Nat
BY LinkAssumption, SMT DEF Generations, Creds

\* A socket that was opened is not the sentinel.
LEMMA SocketIsOne ==
  ASSUME NEW s \in Socket PROVE s # NoSocket
BY NoSocketAssumption

\* What happens on a socket leaves a socket.
LEMMA SocketGoesOn ==
  ASSUME NEW s \in Socket, NEW c \in Creds
  PROVE  /\ [s EXCEPT !.cred = c] \in Socket
         /\ [s EXCEPT !.sawQr = TRUE] \in Socket
         /\ [s EXCEPT !.open = TRUE] \in Socket
BY DEF Socket

\* A new socket is one.
LEMMA SocketBegins ==
  ASSUME NEW c \in Creds
  PROVE  [cred |-> c, sawQr |-> FALSE, open |-> FALSE] \in Socket
BY DEF Socket

\* It holds at the beginning.
LEMMA InitInv == Init => IInv
<1> SUFFICES ASSUME Init PROVE IInv
  OBVIOUS
<1>1. TypeOK
  <2>1. rearms \in [Generations -> BOOLEAN]
    BY Zenon DEF Init
  <2>2. /\ attempt \in [Generations -> {"none", "creds", "version"}]
        /\ loaded \in [Generations -> Creds]
        /\ leaving \in [Generations -> Socket \cup {NoSocket}]
    BY Numbers DEF Init
  <2>3. pair \in [phase : {"idle", "starting", "waiting", "code"}, gen : Generations]
    BY Numbers, SMT DEF Init, NotPairing
  <2> QED
    BY <2>1, <2>2, <2>3, Numbers DEF Init, TypeOK
<1>2. FutureIdle /\ StopIdle /\ StaysStopped /\ Reconnecting
  BY Numbers DEF Init, FutureIdle, StopIdle, StaysStopped, Reconnecting, Connecting
<1> QED
  BY <1>1, <1>2 DEF IInv

\* A restarted daemon is as at the beginning, but for what is on disk.
LEMMA CrashStep == ASSUME TypeOK, Crash PROVE IInv'
<1>1. TypeOK'
  <2>1. rearms' \in [Generations -> BOOLEAN]
    BY Zenon DEF Crash, Booted
  <2>2. /\ attempt' \in [Generations -> {"none", "creds", "version"}]
        /\ loaded' \in [Generations -> Creds]
        /\ leaving' \in [Generations -> Socket \cup {NoSocket}]
    BY Numbers DEF Crash, Booted
  <2>3. pair' \in [phase : {"idle", "starting", "waiting", "code"}, gen : Generations]
    BY Numbers, SMT DEF Crash, Booted, NotPairing
  <2> QED
    BY <2>1, <2>2, <2>3, Numbers DEF Crash, Booted, TypeOK
<1>2. (FutureIdle /\ StopIdle /\ StaysStopped /\ Reconnecting)'
  BY Numbers DEF Crash, Booted, FutureIdle, StopIdle, StaysStopped, Reconnecting, Connecting
<1> QED
  BY <1>1, <1>2 DEF IInv

-----------------------------------------------------------------------------
(* Types. *)

\* What connect() makes of the attempts.
LEMMA ConnectTypes ==
  ASSUME TypeOK, NEW b \in BOOLEAN, Connect(b)
  PROVE  /\ attempt' \in [Generations -> {"none", "creds", "version"}]
         /\ rearms' \in [Generations -> BOOLEAN]
<1>1. attempt' \in [Generations -> {"none", "creds", "version"}]
  BY SMT DEF TypeOK, Connect
<1>2. (b \/ (Connecting /\ rearms[generation])) \in BOOLEAN
  OBVIOUS
<1>3. rearms' \in [Generations -> BOOLEAN]
  BY <1>2 DEF TypeOK, Connect
<1> QED
  BY <1>1, <1>3

\* What start() makes of the connection.
LEMMA StartTypes ==
  ASSUME TypeOK, StartSteps
  PROVE  /\ status' \in {"disconnected", "connecting", "waiting_qr", "connected"}
         /\ reason' \in {NoReason, "logged_out", "qr_expired", "replaced", "connection_failed"}
         /\ attempt' \in [Generations -> {"none", "creds", "version"}]
         /\ rearms' \in [Generations -> BOOLEAN]
         /\ timer' \in BOOLEAN
<1>1. CASE sock # NoSocket
  BY <1>1 DEF StartSteps, TypeOK
<1>2. CASE sock = NoSocket
  BY <1>2, ConnectTypes DEF StartSteps, TypeOK
<1> QED
  BY <1>1, <1>2

\* What becomes of a pairing request when an attempt ends, or a socket is ready.
LEMMA PairTypes ==
  ASSUME TypeOK, NEW g \in Generations, PairAfterConnect(g)
  PROVE  pair' \in [phase : {"idle", "starting", "waiting", "code"}, gen : Generations]
BY Numbers, SMT DEF TypeOK, PairAfterConnect, NotPairing

LEMMA WakeTypes ==
  ASSUME TypeOK, NEW ok \in BOOLEAN, WakePairing(ok)
  PROVE  pair' \in [phase : {"idle", "starting", "waiting", "code"}, gen : Generations]
BY Numbers, SMT DEF TypeOK, WakePairing, NotPairing

\* What an attempt leaves as the socket.
LEMMA OpensTypes ==
  ASSUME TypeOK, NEW g \in Generations, NEW c \in Creds, Opens(g, c)
  PROVE  sock' \in Socket \cup {NoSocket}
BY SocketBegins DEF TypeOK, Opens

\* Every step keeps the types.
LEMMA TypeStep == TypeOK /\ [Next]_vars => TypeOK'
<1> SUFFICES ASSUME TypeOK, [Next]_vars PROVE TypeOK'
  OBVIOUS
<1>1. CASE Start
  BY <1>1, StartTypes DEF Start, TypeOK
<1>2. CASE RequestPairing
  <2>1. pair' \in [phase : {"idle", "starting", "waiting", "code"}, gen : Generations]
    BY <1>2, SMT DEF RequestPairing, TypeOK
  <2> QED
    BY <1>2, <2>1, StartTypes DEF RequestPairing, TypeOK
<1>3. CASE PairingEnds
  BY <1>3, Numbers DEF PairingEnds, TypeOK, link, connecting, history, NotPairing
<1>4. ASSUME NEW g \in Generations, CredsLoaded(g) PROVE TypeOK'
  <2>1. auth \in Creds /\ auth' = auth
    BY <1>4 DEF CredsLoaded, TypeOK
  <2>2. loaded' \in [Generations -> Creds] /\ linkedFlag' \in {"unknown", "yes", "no"}
    BY <1>4, SMT DEF CredsLoaded, TypeOK
  <2>3. CASE versionKnown \/ Overtaken(g)
    <3>1. Opens(g, auth) /\ Settle(g)
      BY <1>4, <2>3 DEF CredsLoaded
    <3>2. sock' \in Socket \cup {NoSocket}
      BY <2>1, <3>1, OpensTypes
    <3> QED
      BY <1>4, <2>2, <3>1, <3>2, PairTypes DEF CredsLoaded, Settle, TypeOK, history
  <2>4. CASE ~(versionKnown \/ Overtaken(g))
    BY <1>4, <2>2, <2>4 DEF CredsLoaded, TypeOK, history
  <2> QED
    BY <2>3, <2>4
<1>5. ASSUME NEW g \in Generations, VersionFetched(g) PROVE TypeOK'
  <2>1. Opens(g, loaded[g]) /\ Settle(g)
    BY <1>5 DEF VersionFetched
  <2>2. sock' \in Socket \cup {NoSocket}
    BY <2>1, OpensTypes DEF TypeOK
  <2> QED
    BY <1>5, <2>1, <2>2, PairTypes DEF VersionFetched, Settle, TypeOK, history
<1>6. ASSUME NEW g \in Generations, AttemptFails(g) PROVE TypeOK'
  <2>1. timer' \in BOOLEAN
    BY <1>6 DEF AttemptFails, TypeOK
  <2>2. status' \in {"disconnected", "connecting", "waiting_qr", "connected"}
    BY <1>6, SMT DEF AttemptFails, TypeOK
  <2>3. pair' \in [phase : {"idle", "starting", "waiting", "code"}, gen : Generations]
    BY <1>6, Numbers DEF AttemptFails, TypeOK, NotPairing
  <2> QED
    BY <1>6, <2>1, <2>2, <2>3 DEF AttemptFails, TypeOK, history
<1>7. CASE TimerFires
  <2>1. /\ attempt' \in [Generations -> {"none", "creds", "version"}]
        /\ rearms' \in [Generations -> BOOLEAN]
    <3>1. CASE sock = NoSocket
      BY <1>7, <3>1, ConnectTypes DEF TimerFires
    <3>2. CASE sock # NoSocket
      BY <1>7, <3>2 DEF TimerFires, TypeOK
    <3> QED
      BY <3>1, <3>2
  <2>2. timer' \in BOOLEAN
    BY <1>7 DEF TimerFires
  <2>3. UNCHANGED <<auth, sock, status, reason, linkedFlag, generation, loaded,
                    versionKnown, poller, pair, leaving, wanted, dropped>>
    BY <1>7 DEF TimerFires, history
  <2> QED
    BY <2>1, <2>2, <2>3 DEF TypeOK
<1>8. CASE Qr
  <2>1. sock' \in Socket \cup {NoSocket}
    BY <1>8, SocketGoesOn, Numbers DEF Qr, TypeOK
  <2> QED
    BY <1>8, <2>1, WakeTypes DEF Qr, TypeOK, connecting, history
<1>9. CASE Paired
  <2>1. auth' \in Creds
    BY <1>9, Numbers DEF Paired, TypeOK
  <2>2. sock' \in Socket \cup {NoSocket}
    BY <1>9, <2>1, SocketGoesOn DEF Paired, TypeOK
  <2> QED
    BY <1>9, <2>1, <2>2 DEF Paired, TypeOK, connecting, history
<1>10. CASE Open
  <2>1. sock' \in Socket \cup {NoSocket}
    BY <1>10, SocketGoesOn, Numbers DEF Open, TypeOK
  <2> QED
    BY <1>10, <2>1 DEF Open, TypeOK, connecting
<1>11. ASSUME NEW code \in {"loggedOut", "restartRequired", "replaced", "other"}, Close(code)
       PROVE TypeOK'
  <2>1. /\ auth' \in Creds /\ versionKnown' \in BOOLEAN /\ timer' \in BOOLEAN
        /\ dropped' \in BOOLEAN
        /\ status' \in {"disconnected", "connecting", "waiting_qr", "connected"}
        /\ reason' \in {NoReason, "logged_out", "qr_expired", "replaced", "connection_failed"}
        /\ linkedFlag' \in {"unknown", "yes", "no"}
    BY <1>11, Numbers
       DEF Close, AfterClose, WipeAuth, Disconnected, ScheduleReconnect, TypeOK
  <2> QED
    BY <1>11, <2>1, WakeTypes DEF Close, TypeOK
<1>12. ASSUME NEW logout \in BOOLEAN, Stop(logout) PROVE TypeOK'
  <2>1. generation' \in Generations
    BY <1>12, Numbers DEF Stop, TypeOK
  <2>2. /\ auth' \in Creds /\ linkedFlag' \in {"unknown", "yes", "no"}
        /\ status' \in {"disconnected", "connecting", "waiting_qr", "connected"}
        /\ reason' \in {NoReason, "logged_out", "qr_expired", "replaced", "connection_failed"}
    BY <1>12, Numbers DEF Stop, Stopped, WipeAuth, TypeOK
  <2>3. leaving' \in [Generations -> Socket \cup {NoSocket}]
    BY <1>12, <2>1, SMT DEF Stop, TypeOK
  <2> QED
    BY <1>12, <2>1, <2>2, <2>3, WakeTypes DEF Stop, TypeOK
<1>13. ASSUME NEW g \in Generations, LoggedOut(g) PROVE TypeOK'
  BY <1>13, Numbers DEF LoggedOut, Stopped, WipeAuth, TypeOK, connecting, history
<1>14. CASE Crash
  BY <1>14, CrashStep DEF IInv
<1>15. CASE UNCHANGED vars
  BY <1>15 DEF vars, TypeOK
<1> QED
  BY <1>1, <1>2, <1>3, <1>4, <1>5, <1>6, <1>7, <1>8, <1>9, <1>10, <1>11, <1>12,
     <1>13, <1>14, <1>15 DEF Next

-----------------------------------------------------------------------------
(* The invariant. *)

\* A step that leaves the attempts, the generation and what was asked for
\* alone keeps the invariant if it takes no socket away and starts nothing.
LEMMA Quiet ==
  ASSUME IInv, TypeOK',
         UNCHANGED <<generation, attempt, rearms, wanted>>,
         dropped' => dropped,
         sock' = NoSocket <=> sock = NoSocket,
         timer' = timer,
         poller' => poller \/ sock # NoSocket
  PROVE  IInv'
<1>1. FutureIdle' /\ StopIdle'
  BY DEF IInv, FutureIdle, StopIdle, Connecting
<1>2. StaysStopped'
  BY DEF IInv, StaysStopped
<1>3. Reconnecting'
  BY DEF IInv, Reconnecting, Connecting
<1> QED
  BY <1>1, <1>2, <1>3 DEF IInv

\* A start: the current generation may now have an attempt.
LEMMA Starting ==
  ASSUME IInv, TypeOK', StartSteps, UNCHANGED <<sock, generation, poller>>,
         wanted', ~dropped'
  PROVE  IInv'
<1>1. \A g \in Generations : g # generation => attempt'[g] = attempt[g] /\ rearms'[g] = rearms[g]
  BY DEF StartSteps, Connect, IInv, TypeOK
<1>2. FutureIdle'
  BY <1>1, Numbers DEF FutureIdle, IInv, TypeOK
<1> QED
  BY <1>2 DEF IInv, StopIdle, StaysStopped, Reconnecting

\* The end of an attempt that opened what it could.
LEMMA Settling ==
  ASSUME IInv, TypeOK', NEW g \in Generations, attempt[g] # "none",
         NEW c \in Creds, Opens(g, c), Settle(g),
         UNCHANGED <<generation, timer, poller, wanted, dropped>>
  PROVE  IInv'
<1>1. g <= generation
  BY Numbers DEF IInv, FutureIdle, TypeOK
<1>2. /\ attempt' = [attempt EXCEPT ![g] = "none"]
      /\ rearms' = [rearms EXCEPT ![g] = FALSE]
  BY DEF Settle
<1>3. FutureIdle' /\ StopIdle'
  BY <1>2, SMT DEF IInv, FutureIdle, StopIdle, Connecting, TypeOK
<1>4. CASE g = generation
  <2>1. sock' \in Socket /\ sock' # NoSocket
    BY <1>4, SocketBegins, SocketIsOne DEF Opens, Overtaken
  <2>2. wanted
    BY <1>4 DEF IInv, StopIdle, Connecting
  <2> QED
    BY <1>3, <2>1, <2>2 DEF IInv, StaysStopped, Reconnecting
<1>5. CASE g # generation
  <2>1. sock' = sock
    BY <1>5 DEF Opens, Overtaken
  <2>2. attempt'[generation] = attempt[generation] /\ rearms'[generation] = rearms[generation]
    BY <1>2, <1>5 DEF IInv, TypeOK
  <2> QED
    BY <1>3, <2>1, <2>2 DEF IInv, StaysStopped, Reconnecting, Connecting
<1> QED
  BY <1>4, <1>5

\* Every step keeps the invariant.
LEMMA NextInv == IInv /\ [Next]_vars => IInv'
<1> SUFFICES ASSUME IInv, [Next]_vars PROVE IInv'
  OBVIOUS
<1>t. TypeOK'
  BY TypeStep DEF IInv
<1>1. CASE Start
  BY <1>1, <1>t, Starting DEF Start
<1>2. CASE RequestPairing
  BY <1>2, <1>t, Starting DEF RequestPairing
<1>3. CASE PairingEnds
  BY <1>3, <1>t, Quiet DEF PairingEnds, link, connecting, history
<1>4. ASSUME NEW g \in Generations, CredsLoaded(g) PROVE IInv'
  <2>1. CASE versionKnown \/ Overtaken(g)
    <3>1. Opens(g, auth) /\ Settle(g) /\ auth \in Creds /\ attempt[g] # "none"
      BY <1>4, <2>1 DEF CredsLoaded, IInv, TypeOK
    <3>2. UNCHANGED <<generation, timer, poller, wanted, dropped>>
      BY <1>4 DEF CredsLoaded, history
    <3> QED
      BY <1>t, <3>1, <3>2, Settling
  <2>2. CASE ~(versionKnown \/ Overtaken(g))
    <3>1. /\ attempt' = [attempt EXCEPT ![g] = "version"] /\ attempt[g] = "creds"
          /\ g = generation
          /\ UNCHANGED <<sock, rearms, generation, timer, poller, wanted, dropped>>
      BY <1>4, <2>2 DEF CredsLoaded, Overtaken, history
    <3>2. FutureIdle' /\ StopIdle'
      BY <3>1, Numbers, SMT DEF IInv, FutureIdle, StopIdle, Connecting, TypeOK
    <3>3. Reconnecting' /\ StaysStopped'
      BY <3>1, SMT DEF IInv, Reconnecting, StaysStopped, Connecting, TypeOK
    <3> QED
      BY <1>t, <3>2, <3>3 DEF IInv
  <2> QED
    BY <2>1, <2>2
<1>5. ASSUME NEW g \in Generations, VersionFetched(g) PROVE IInv'
  <2>1. Opens(g, loaded[g]) /\ Settle(g) /\ loaded[g] \in Creds /\ attempt[g] # "none"
    BY <1>5 DEF VersionFetched, IInv, TypeOK
  <2>2. UNCHANGED <<generation, timer, poller, wanted, dropped>>
    BY <1>5 DEF VersionFetched, history
  <2> QED
    BY <1>t, <2>1, <2>2, Settling
<1>6. ASSUME NEW g \in Generations, AttemptFails(g) PROVE IInv'
  <2>1. /\ attempt[g] # "none" /\ attempt' = [attempt EXCEPT ![g] = "none"]
        /\ rearms' = [rearms EXCEPT ![g] = FALSE]
        /\ timer' = (timer \/ Retries(g))
        /\ UNCHANGED <<sock, generation, poller, wanted, dropped>>
    BY <1>6 DEF AttemptFails, history
  <2>2. FutureIdle' /\ StopIdle'
    BY <2>1, SMT DEF IInv, FutureIdle, StopIdle, Connecting, TypeOK
  <2>3. StaysStopped'
    BY <2>1 DEF IInv, StaysStopped, StopIdle, Connecting, Retries
  <2>4. CASE g = generation
    BY <1>t, <2>1, <2>2, <2>3, <2>4 DEF IInv, Reconnecting, Connecting, Retries
  <2>5. CASE g # generation
    BY <1>t, <2>1, <2>2, <2>3, <2>5 DEF IInv, Reconnecting, Connecting, Retries, TypeOK
  <2> QED
    BY <2>4, <2>5
<1>7. CASE TimerFires
  <2>1. /\ timer /\ ~timer' /\ wanted
        /\ UNCHANGED <<sock, generation, poller, wanted, dropped>>
    BY <1>7 DEF TimerFires, IInv, StaysStopped, history
  <2>2. CASE sock = NoSocket
    <3>1. Connect(TRUE)
      BY <1>7, <2>2 DEF TimerFires
    <3>2. \A g \in Generations :
             g # generation => attempt'[g] = attempt[g] /\ rearms'[g] = rearms[g]
      BY <3>1 DEF Connect, IInv, TypeOK
    <3>3. attempt'[generation] # "none" /\ rearms'[generation]
      BY <3>1 DEF Connect, Connecting, IInv, TypeOK
    <3>4. FutureIdle'
      BY <2>1, <3>2, Numbers DEF FutureIdle, IInv, TypeOK
    <3> QED
      BY <1>t, <2>1, <3>3, <3>4 DEF IInv, StopIdle, StaysStopped, Reconnecting, Connecting
  <2>3. CASE sock # NoSocket
    BY <1>7, <1>t, <2>1, <2>3
       DEF TimerFires, IInv, FutureIdle, StopIdle, StaysStopped, Reconnecting, Connecting
  <2> QED
    BY <2>2, <2>3
<1>8. CASE Qr
  <2>1. sock' # NoSocket
    BY <1>8, SocketIsOne, SocketGoesOn, Numbers DEF Qr, IInv, TypeOK
  <2> QED
    BY <1>8, <1>t, <2>1, Quiet DEF Qr, connecting, history
<1>9. CASE Paired
  <2>1. sock' # NoSocket
    <3>1. auth' \in Creds
      BY <1>9, Numbers DEF Paired, IInv, TypeOK
    <3> QED
      BY <1>9, <3>1, SocketIsOne, SocketGoesOn DEF Paired, IInv, TypeOK
  <2> QED
    BY <1>9, <1>t, <2>1, Quiet DEF Paired, connecting, history
<1>10. CASE Open
  <2>1. sock' # NoSocket
    BY <1>10, SocketIsOne, SocketGoesOn, Numbers DEF Open, IInv, TypeOK
  <2> QED
    BY <1>10, <1>t, <2>1, Quiet DEF Open, connecting
<1>11. ASSUME NEW code \in {"loggedOut", "restartRequired", "replaced", "other"}, Close(code)
       PROVE IInv'
  <2>1. /\ wanted /\ ~poller' /\ sock' = NoSocket
        /\ UNCHANGED <<generation, attempt, rearms, wanted>>
    BY <1>11 DEF Close, IInv, StaysStopped
  <2>2. dropped' => timer'
    BY <1>11 DEF Close, AfterClose, ScheduleReconnect
  <2> QED
    BY <1>t, <2>1, <2>2
       DEF IInv, FutureIdle, StopIdle, StaysStopped, Reconnecting, Connecting
<1>12. ASSUME NEW logout \in BOOLEAN, Stop(logout) PROVE IInv'
  <2>1. /\ generation' = generation + 1 /\ generation < MaxGeneration
        /\ ~timer' /\ ~poller' /\ sock' = NoSocket /\ ~wanted' /\ ~dropped'
        /\ UNCHANGED <<attempt, rearms>>
    BY <1>12 DEF Stop
  <2>2. FutureIdle'
    BY <2>1, Numbers DEF IInv, FutureIdle, TypeOK
  <2>3. StopIdle'
    BY <2>1, Numbers DEF IInv, FutureIdle, StopIdle, Connecting, TypeOK
  <2> QED
    BY <1>t, <2>1, <2>2, <2>3 DEF IInv, StaysStopped, Reconnecting
<1>13. ASSUME NEW g \in Generations, LoggedOut(g) PROVE IInv'
  BY <1>13, <1>t, Quiet DEF LoggedOut, connecting, history
<1>14. CASE Crash
  BY <1>14, CrashStep DEF IInv
<1>15. CASE UNCHANGED vars
  BY <1>15, <1>t, Quiet DEF vars
<1> QED
  BY <1>1, <1>2, <1>3, <1>4, <1>5, <1>6, <1>7, <1>8, <1>9, <1>10, <1>11, <1>12,
     <1>13, <1>14, <1>15 DEF Next

\* The invariant holds for any number of stops and of linked devices.
LEMMA LinkInvariant == Spec => []IInv
BY InitInv, NextInv, PTL DEF Spec

\* After a stop, and until somebody asks for a start, the bridge has no
\* socket, no timer and no poller: connect() drops what an attempt of an
\* earlier generation has loaded.
THEOREM StoppedStays == Spec => []StaysStopped
<1>1. IInv => StaysStopped
  BY DEF IInv
<1> QED
  BY <1>1, LinkInvariant, PTL

\* A linked session that was cut off always has a timer, an attempt or a
\* socket: scheduleReconnect and the failure branch of its timer leave none out.
THEOREM NeverAbandoned == Spec => []NotAbandoned
<1>1. IInv => NotAbandoned
  BY DEF IInv, Reconnecting, NotAbandoned
<1> QED
  BY <1>1, LinkInvariant, PTL

(***************************************************************************)
(* The messages of the bridge.                                             *)
(***************************************************************************)

\* What WhatsApp may deliver.
Known == written \cup sent

\* The events that are downloading this message.
Downloading(i) ==
  {h \in Handlers : handler[h].busy /\ Head(handler[h].todo) = i}

\* It would still be taken if it came now.
Untaken(i) == IF i \in Known /\ ~Skips(i) THEN 1 ELSE 0

Allowed(i) == forgets[i] + (IF i \in Messages THEN 1 ELSE 0)

\* Every command a message can still become is allowed.
Accounted(i) ==
  /\ IsFiniteSet(Downloading(i))
  /\ commands[i] + Cardinality(Downloading(i)) + Untaken(i) <= Allowed(i)

HandlerType == [todo : Seq(Known), busy : BOOLEAN]

BridgeInv ==
  /\ handler \in [Handlers -> HandlerType]
  /\ \A h \in Handlers : handler[h].busy => handler[h].todo # <<>>
  /\ commands \in [Ids -> Nat] /\ forgets \in [Ids -> Nat]
  /\ seen \subseteq Known
  /\ \A i \in Ids \ Known : commands[i] = 0
  /\ \A i \in Ids : Accounted(i)

\* A message WhatsApp does not have yet is in no event.
LEMMA NotYet ==
  ASSUME BridgeInv, NEW i, i \notin Known
  PROVE  Downloading(i) = {}
<1> SUFFICES ASSUME NEW h \in Handlers, handler[h].busy, Head(handler[h].todo) = i
             PROVE  FALSE
  BY DEF Downloading
<1>1. handler[h].todo \in Seq(Known) /\ handler[h].todo # <<>>
  BY DEF BridgeInv, HandlerType
<1>2. QED  BY <1>1, HeadTailProperties

\* The numbers of the account.
LEMMA AccountNumbers ==
  ASSUME BridgeInv, NEW i \in Ids
  PROVE  /\ commands[i] \in Nat /\ forgets[i] \in Nat
         /\ IsFiniteSet(Downloading(i)) /\ Cardinality(Downloading(i)) \in Nat
         /\ Untaken(i) \in {0, 1} /\ Allowed(i) \in Nat
         /\ commands[i] + Cardinality(Downloading(i)) + Untaken(i) <= Allowed(i)
<1>1. commands[i] \in Nat /\ forgets[i] \in Nat /\ Accounted(i)
  BY DEF BridgeInv
<1>2. QED  BY <1>1, FS_CardinalityType DEF Accounted, Untaken, Allowed

\* More messages leave the type of the events.
LEMMA TypeGrows ==
  ASSUME BridgeInv, Known \subseteq Known', handler' = handler
  PROVE  /\ handler' \in [Handlers -> HandlerType']
         /\ \A h \in Handlers : handler'[h].busy => handler'[h].todo # <<>>
<1>1. \A s \in Seq(Known) : s \in Seq(Known')
  OBVIOUS
<1>2. \A x \in HandlerType : x \in HandlerType'
  BY <1>1 DEF HandlerType
<1>3. QED  BY <1>2 DEF BridgeInv

\* A step that leaves the account alone.
LEMMA AccountStays ==
  ASSUME BridgeInv, UNCHANGED <<seen, old, handler, written, commands, forgets, sent>>
  PROVE  BridgeInv'
BY DEF BridgeInv, HandlerType, Known, Accounted, Downloading, Untaken, Allowed, Skips

\* An event that goes on with the messages after this one, or with others.
LEMMA EventGoesOn ==
  ASSUME BridgeInv, NEW h \in Handlers, NEW x \in HandlerType, ~x.busy, ~handler[h].busy,
         handler' = [handler EXCEPT ![h] = x],
         UNCHANGED <<old, written, sent>>
  PROVE  /\ handler' \in [Handlers -> HandlerType']
         /\ \A g \in Handlers : handler'[g].busy => handler'[g].todo # <<>>
         /\ \A i : Downloading(i)' = Downloading(i)
<1>1. handler \in [Handlers -> HandlerType] /\ HandlerType' = HandlerType
  BY DEF BridgeInv, HandlerType, Known
<1>2. \A g \in Handlers : handler'[g] = IF g = h THEN x ELSE handler[g]
  BY <1>1
<1>3. QED  BY <1>1, <1>2 DEF BridgeInv, Downloading

\* An event begins with what WhatsApp delivers.
LEMMA DeliverStep ==
  ASSUME BridgeInv, NEW h \in Handlers, NEW b \in Batches,
         Deliver(h, b)
  PROVE  BridgeInv'
<1> DEFINE x == [handler[h] EXCEPT !.todo = b]
<1>1. b \in Seq(Known)
  BY BridgeAssumption DEF Batches, SeqOf, Known
<1>2. handler[h] \in HandlerType /\ ~handler[h].busy
  <2>1. handler[h] \in HandlerType
    BY DEF BridgeInv
  <2>2. handler[h] = [todo |-> <<>>, busy |-> FALSE]
    BY DEF Deliver, Idle
  <2>3. QED  BY <2>1, <2>2
<1>3. x \in HandlerType /\ ~x.busy
  BY <1>1, <1>2 DEF HandlerType
<1>4. handler' = [handler EXCEPT ![h] = x]
  BY DEF Deliver
<1>5. QED
  BY <1>2, <1>3, <1>4, EventGoesOn DEF Deliver, BridgeInv, Accounted, Untaken, Allowed, Known, Skips

\* A message is skipped, marked and downloaded, or marked and queued at once.
LEMMA HandleStep ==
  ASSUME BridgeInv, NEW h \in Handlers, Handle(h)
  PROVE  BridgeInv'
<1> DEFINE s == Tail(handler[h].todo)
<1>0. PICK i : i = Head(handler[h].todo)
  OBVIOUS
<1>1. /\ handler[h].todo \in Seq(Known) /\ handler[h].todo # <<>> /\ ~handler[h].busy
      /\ UNCHANGED <<old, written, forgets, sent>>
  BY DEF Handle, BridgeInv, HandlerType
<1>2. i \in Known /\ s \in Seq(Known)
  BY <1>0, <1>1, HeadTailProperties
<1>3. Known' = Known
  BY <1>1 DEF Known
<1>4. Done(h) = [handler EXCEPT ![h] = [todo |-> s, busy |-> FALSE]]
  BY DEF Done
<1>n. [todo |-> s, busy |-> FALSE] \in HandlerType
  BY <1>2 DEF HandlerType
<1>5. CASE Skips(i)
  <2>1. handler' = Done(h) /\ UNCHANGED <<seen, commands>>
    BY <1>0, <1>5 DEF Handle
  <2>2. QED
    BY <1>1, <1>n, <1>3, <1>4, <2>1, EventGoesOn DEF BridgeInv, Accounted, Untaken, Allowed, Skips
<1>6. CASE ~Skips(i) /\ i \in Media
  <2>1. /\ seen' = seen \cup {i} /\ commands' = commands
        /\ handler' = [handler EXCEPT ![h].busy = TRUE]
    BY <1>0, <1>6 DEF Handle, Marked
  <2>2. /\ handler' \in [Handlers -> HandlerType']
        /\ \A g \in Handlers : handler'[g].busy => handler'[g].todo # <<>>
    BY <1>1, <1>3, <2>1 DEF BridgeInv, HandlerType
  <2>3. \A j : Downloading(j)' = IF j = i THEN Downloading(j) \cup {h} ELSE Downloading(j)
    BY <1>0, <1>1, <2>1 DEF BridgeInv, Downloading, HandlerType
  <2>4. h \notin Downloading(i)
    BY <1>0, <1>1 DEF Downloading
  <2>5. \A j : Untaken(j)' = IF j = i THEN 0 ELSE Untaken(j)
    BY <1>1, <1>3, <2>1 DEF Untaken, Skips
  <2>6. Untaken(i) = 1
    BY <1>2, <1>6 DEF Untaken
  <2>7. \A j \in Ids : Accounted(j)'
    <3> SUFFICES ASSUME NEW j \in Ids PROVE Accounted(j)'
      OBVIOUS
    <3>1. CASE j = i
      <4>1. IsFiniteSet(Downloading(j)') /\ Cardinality(Downloading(j)') = Cardinality(Downloading(j)) + 1
        <5>1. IsFiniteSet(Downloading(j)) /\ h \notin Downloading(j)
          BY <2>4, <3>1, AccountNumbers
        <5>2. Downloading(j)' = Downloading(j) \cup {h}
          BY <2>3, <3>1
        <5>3. QED  BY <3>1, <5>1, <5>2, FS_AddElement
      <4>2. QED
        BY <1>1, <2>1, <2>5, <2>6, <3>1, <4>1, AccountNumbers DEF Accounted, Allowed
    <3>2. CASE j # i
      BY <1>1, <2>1, <2>3, <2>5, <3>2, AccountNumbers DEF Accounted, Allowed
    <3>3. QED  BY <3>1, <3>2
  <2>8. QED  BY <1>1, <1>2, <1>3, <2>1, <2>2, <2>7 DEF BridgeInv
<1>7. CASE ~Skips(i) /\ i \notin Media
  <2>1. /\ seen' = seen \cup {i} /\ commands' = [commands EXCEPT ![i] = @ + 1]
        /\ handler' = Done(h)
    BY <1>0, <1>7 DEF Handle
  <2>2. /\ handler' \in [Handlers -> HandlerType']
        /\ \A g \in Handlers : handler'[g].busy => handler'[g].todo # <<>>
        /\ \A j : Downloading(j)' = Downloading(j)
    BY <1>1, <1>n, <1>4, <2>1, EventGoesOn
  <2>3. \A j : Untaken(j)' = IF j = i THEN 0 ELSE Untaken(j)
    BY <1>1, <1>3, <2>1 DEF Untaken, Skips
  <2>4. Untaken(i) = 1
    BY <1>2, <1>7 DEF Untaken
  <2>5. commands' \in [Ids -> Nat] /\ \A j \in Ids : commands'[j] = IF j = i THEN commands[j] + 1 ELSE commands[j]
    <3>1. commands \in [Ids -> Nat]
      BY DEF BridgeInv
    <3>2. i \in Ids => commands[i] + 1 \in Nat
      BY <3>1
    <3>3. QED  BY <2>1, <3>1, <3>2
  <2>6. \A j \in Ids : Accounted(j)'
    BY <1>1, <2>2, <2>3, <2>4, <2>5, AccountNumbers DEF Accounted, Allowed
  <2>7. QED  BY <1>1, <1>2, <1>3, <2>1, <2>2, <2>5, <2>6 DEF BridgeInv
<1>8. QED  BY <1>5, <1>6, <1>7

\* The download counted for the command it may become.
LEMMA DownloadedStep ==
  ASSUME BridgeInv, NEW h \in Handlers, NEW ok \in BOOLEAN, Downloaded(h, ok)
  PROVE  BridgeInv'
<1> DEFINE s == Tail(handler[h].todo)
<1>0. PICK i : i = Head(handler[h].todo)
  OBVIOUS
<1>1. /\ handler[h].todo \in Seq(Known) /\ handler[h].todo # <<>> /\ handler[h].busy
      /\ handler' = [handler EXCEPT ![h] = [todo |-> s, busy |-> FALSE]]
      /\ UNCHANGED <<seen, old, written, forgets, sent>>
  BY DEF Downloaded, Done, BridgeInv, HandlerType
<1>2. i \in Known /\ s \in Seq(Known)
  BY <1>0, <1>1, HeadTailProperties
<1>3. Known' = Known
  BY <1>1 DEF Known
<1>4. /\ handler' \in [Handlers -> HandlerType']
      /\ \A g \in Handlers : handler'[g].busy => handler'[g].todo # <<>>
  BY <1>1, <1>2, <1>3 DEF BridgeInv, HandlerType
<1>5. \A j : Downloading(j)' = IF j = i THEN Downloading(j) \ {h} ELSE Downloading(j)
  BY <1>0, <1>1 DEF BridgeInv, Downloading, HandlerType
<1>6. h \in Downloading(i)
  BY <1>0, <1>1 DEF Downloading
<1>7. \A j : Untaken(j)' = Untaken(j)
  BY <1>1, <1>3 DEF Untaken, Skips
<1>8. \/ commands' = commands
      \/ commands' = [commands EXCEPT ![i] = @ + 1]
  BY <1>0 DEF Downloaded
<1>9. /\ commands' \in [Ids -> Nat]
      /\ \A j \in Ids : commands'[j] = commands[j] \/ (j = i /\ commands'[j] = commands[j] + 1)
  BY <1>8 DEF BridgeInv
<1>10. \A j \in Ids : Accounted(j)'
  <2> SUFFICES ASSUME NEW j \in Ids PROVE Accounted(j)'
    OBVIOUS
  <2>1. CASE j = i
    <3>1. IsFiniteSet(Downloading(j)') /\ Cardinality(Downloading(j)') = Cardinality(Downloading(j)) - 1
      <4>1. IsFiniteSet(Downloading(j)) /\ h \in Downloading(j)
        BY <1>6, <2>1, AccountNumbers
      <4>2. Downloading(j)' = Downloading(j) \ {h}
        BY <1>5, <2>1
      <4>3. QED  BY <2>1, <4>1, <4>2, FS_RemoveElement
    <3>2. QED
      <4>1. commands'[j] <= commands[j] + 1 /\ commands'[j] \in Nat
        BY <1>9, AccountNumbers
      <4>2. /\ Untaken(j)' = Untaken(j) /\ Allowed(j)' = Allowed(j)
            /\ Cardinality(Downloading(j)') = Cardinality(Downloading(j)) - 1
        BY <1>1, <1>7, <2>1, <3>1 DEF Allowed
      <4>3. QED  BY <2>1, <3>1, <4>1, <4>2, AccountNumbers DEF Accounted
  <2>2. CASE j # i
    BY <1>1, <1>5, <1>7, <1>9, <2>2, AccountNumbers DEF Accounted, Allowed
  <2>3. QED  BY <2>1, <2>2
<1>11. \A j \in Ids \ Known' : commands'[j] = 0
  BY <1>2, <1>3, <1>9 DEF BridgeInv
<1>12. QED  BY <1>1, <1>3, <1>4, <1>9, <1>10, <1>11 DEF BridgeInv

\* The ids that drop out of seenIds count as forgotten.
LEMMA ForgetStep ==
  ASSUME BridgeInv, UNCHANGED <<old, handler, written, commands, sent>>,
         seen' \subseteq seen, forgets' \in [Ids -> Nat],
         \A i \in Ids : forgets'[i] = forgets[i] + (IF i \in seen \ seen' THEN 1 ELSE 0)
  PROVE  BridgeInv'
<1>1. Known' = Known /\ HandlerType' = HandlerType /\ \A i : Downloading(i)' = Downloading(i)
  BY DEF Known, HandlerType, Downloading
<1>2. \A i \in Ids : Accounted(i)'
  BY <1>1, AccountNumbers DEF Accounted, Allowed, Untaken, Skips
<1>3. QED  BY <1>1, <1>2 DEF BridgeInv

\* WhatsApp has more messages: each new one is seen already, as our own sends
\* are, or is a command that is allowed once.
LEMMA GrowStep ==
  ASSUME BridgeInv, UNCHANGED <<old, handler, commands, forgets>>,
         Known \subseteq Known', seen \subseteq seen', seen' \subseteq Known',
         \A i \in Known' \ Known : i \in seen' \/ i \in Messages
  PROVE  BridgeInv'
<1>1. \A i : Downloading(i)' = Downloading(i)
  BY DEF Downloading
<1>2. \A i \in Ids : Accounted(i)'
  <2> SUFFICES ASSUME NEW i \in Ids PROVE Accounted(i)'
    OBVIOUS
  <2>1. CASE i \in Known \/ i \notin Known'
    <3>1. Untaken(i)' <= Untaken(i)
      BY <2>1 DEF Untaken, Skips
    <3>2. Untaken(i)' \in {0, 1}
      BY DEF Untaken
    <3>3. QED  BY <1>1, <3>1, <3>2, AccountNumbers DEF Accounted, Allowed
  <2>2. CASE i \in Known' \ Known
    <3>1. commands[i] = 0 /\ Cardinality(Downloading(i)) = 0
      BY <2>2, NotYet, FS_EmptySet DEF BridgeInv
    <3>2. Untaken(i)' <= IF i \in Messages THEN 1 ELSE 0
      BY <2>2 DEF Untaken, Skips
    <3>3. Untaken(i)' \in {0, 1}
      BY DEF Untaken
    <3>4. QED  BY <1>1, <3>1, <3>2, <3>3, AccountNumbers DEF Accounted, Allowed
  <2>3. QED  BY <2>1, <2>2
<1>3. \A i \in Ids \ Known' : commands'[i] = 0
  BY DEF BridgeInv
<1>4. QED  BY <1>2, <1>3, TypeGrows DEF BridgeInv

\* A restart forgets what was seen, but makes history of it.
LEMMA RestartStep ==
  ASSUME BridgeInv, Restart
  PROVE  BridgeInv'
<1>1. /\ seen' = {} /\ old' = Known /\ handler' = [h \in Handlers |-> [todo |-> <<>>, busy |-> FALSE]]
      /\ UNCHANGED <<written, commands, forgets, sent>>
  BY DEF Restart, Idle, Known
<1>2. Known' = Known /\ HandlerType' = HandlerType /\ \A i : Downloading(i)' = {}
  BY <1>1 DEF Known, HandlerType, Downloading
<1>3. \A i : Untaken(i)' = 0
  BY <1>1, <1>2 DEF Untaken, Skips
<1>4. \A i \in Ids : Accounted(i)'
  <2> SUFFICES ASSUME NEW i \in Ids PROVE Accounted(i)'
    OBVIOUS
  <2>1. IsFiniteSet(Downloading(i)') /\ Cardinality(Downloading(i)') = 0
    BY <1>2, FS_EmptySet
  <2>2. commands[i] <= Allowed(i) /\ Allowed(i)' = Allowed(i)
    BY <1>1, AccountNumbers DEF Allowed
  <2>3. QED  BY <1>1, <1>3, <2>1, <2>2, AccountNumbers DEF Accounted
<1>5. <<>> \in Seq(Known)
  OBVIOUS
<1>6. [todo |-> <<>>, busy |-> FALSE] \in HandlerType
  BY <1>5 DEF HandlerType
<1>7. handler' \in [Handlers -> HandlerType'] /\ \A h \in Handlers : ~handler'[h].busy
  BY <1>1, <1>2, <1>6
<1>8. QED  BY <1>1, <1>2, <1>4, <1>7 DEF BridgeInv

\* Every step keeps the account.
LEMMA BridgeStep ==
  ASSUME BridgeInv, [BridgeNext]_bridgeVars
  PROVE  BridgeInv'
<1>1. ASSUME NEW h \in Handlers,
             \/ \E b \in Batches : Deliver(h, b)
             \/ Handle(h)
             \/ \E ok \in BOOLEAN : Downloaded(h, ok)
      PROVE  BridgeInv'
  BY <1>1, DeliverStep, HandleStep, DownloadedStep
<1>2. ASSUME NEW i \in Ids, Forget(i) PROVE BridgeInv'
  <2>1. /\ seen' = seen \ {i} /\ i \in seen
        /\ forgets' = [forgets EXCEPT ![i] = @ + 1]
        /\ UNCHANGED <<old, handler, written, commands, sent>>
    BY <1>2 DEF Forget
  <2>2. /\ forgets' \in [Ids -> Nat]
        /\ \A j \in Ids : forgets'[j] = forgets[j] + (IF j \in seen \ seen' THEN 1 ELSE 0)
    BY <2>1 DEF BridgeInv
  <2>3. QED  BY <2>1, <2>2, ForgetStep
<1>3. ASSUME NEW r \in Replies, Answer(r) PROVE BridgeInv'
  BY <1>3, AccountStays DEF Answer
<1>4. ASSUME NEW p \in Polls, PollStarts(p) \/ Send(p) \/ SendFails(p)
      PROVE  BridgeInv'
  BY <1>4, AccountStays DEF PollStarts, Send, SendFails
<1>5. ASSUME NEW p \in Polls, SendOk(p) PROVE BridgeInv'
  <2>1. PICK x : seen' = seen \cup {x} /\ sent' = sent \cup {x}
    BY <1>5 DEF SendOk
  <2>2. UNCHANGED <<old, handler, written, commands, forgets>>
    BY <1>5 DEF SendOk
  <2>3. QED  BY <2>1, <2>2, GrowStep DEF BridgeInv, Known
<1>6. CASE SocketUp \/ Cut
  BY <1>6, AccountStays DEF SocketUp, Cut
<1>7. CASE StopBridge
  <2>1. /\ seen' = {}
        /\ forgets' = [i \in Ids |-> forgets[i] + (IF i \in seen THEN 1 ELSE 0)]
        /\ UNCHANGED <<old, handler, written, commands, sent>>
    BY <1>7 DEF StopBridge
  <2>2. /\ forgets' \in [Ids -> Nat]
        /\ \A j \in Ids : forgets'[j] = forgets[j] + (IF j \in seen \ seen' THEN 1 ELSE 0)
    BY <2>1 DEF BridgeInv
  <2>3. QED  BY <2>1, <2>2, ForgetStep
<1>8. CASE Restart
  BY <1>8, RestartStep
<1>9. ASSUME NEW m \in Messages, Write(m) PROVE BridgeInv'
  <2>1. written' = written \cup {m} /\ UNCHANGED <<seen, old, handler, commands, forgets, sent>>
    BY <1>9 DEF Write
  <2>2. QED  BY <2>1, GrowStep DEF BridgeInv, Known
<1>10. CASE UNCHANGED bridgeVars
  BY <1>10, AccountStays DEF bridgeVars
<1>11. QED
  BY <1>1, <1>2, <1>3, <1>4, <1>5, <1>6, <1>7, <1>8, <1>9, <1>10 DEF BridgeNext

\* A message becomes one command, an own send none, but for each time its id was
\* forgotten since, for any number of events, polls and messages and however
\* they overlap: handleIncoming marks the id before it waits for a download.
THEOREM OneCommand == BridgeSpec => []CommandOnce
<1>1. BridgeInit => BridgeInv
  <2> SUFFICES ASSUME BridgeInit PROVE BridgeInv
    OBVIOUS
  <2>1. /\ seen = {} /\ Known = {} /\ handler = [h \in Handlers |-> [todo |-> <<>>, busy |-> FALSE]]
        /\ commands = [i \in Ids |-> 0] /\ forgets = [i \in Ids |-> 0]
    BY DEF BridgeInit, Idle, Known
  <2>2. \A i : Downloading(i) = {} /\ Untaken(i) = 0
    BY <2>1 DEF Downloading, Untaken
  <2>3. \A i \in Ids : Accounted(i)
    <3> SUFFICES ASSUME NEW i \in Ids PROVE Accounted(i)
      OBVIOUS
    <3>1. IsFiniteSet(Downloading(i)) /\ Cardinality(Downloading(i)) = 0
      BY <2>2, FS_EmptySet
    <3>2. commands[i] = 0 /\ forgets[i] = 0 /\ Untaken(i) = 0
      BY <2>1, <2>2
    <3>3. QED  BY <3>1, <3>2 DEF Accounted, Allowed
  <2>4. <<>> \in Seq(Known)
    OBVIOUS
  <2>5. [todo |-> <<>>, busy |-> FALSE] \in HandlerType
    BY <2>4 DEF HandlerType
  <2>6. QED  BY <2>1, <2>3, <2>5 DEF BridgeInv
<1>2. BridgeInv => CommandOnce
  <2> SUFFICES ASSUME BridgeInv, NEW i \in Ids
               PROVE  commands[i] <= forgets[i] + (IF i \in Messages THEN 1 ELSE 0)
    BY DEF CommandOnce
  <2>1. QED  BY AccountNumbers DEF Allowed
<1>3. BridgeInv /\ [BridgeNext]_bridgeVars => BridgeInv'
  BY BridgeStep
<1>4. QED  BY <1>1, <1>2, <1>3, PTL DEF BridgeSpec
=============================================================================
