---------------------------- MODULE PhantomConnect ----------------------------
(***************************************************************************)
(* Connecting a phone wallet through the relay: the usePhantomDeeplink     *)
(* hook of one browser tab, its polls, the owner of the phone, the relay.  *)
(* The hook keeps one reference to an interval and sends a poll every 2    *)
(* seconds whether or not the one before was answered.                     *)
(***************************************************************************)
EXTENDS PhantomRelay

CONSTANTS
    MaxPollTime,    \* MAX_POLL_TIME, 5 minutes, in ticks
    None            \* null

ASSUME PhantomAssumption ==
    /\ IsFiniteSet(SessionIds)
    /\ Lifetime \in Nat /\ MaxPollTime \in Nat
    /\ Reordered \in BOOLEAN /\ BuffersReused \in BOOLEAN
    /\ None \notin SessionIds

VARIABLES
    asked,          \* POST /phantom/session requests under way
    opening,        \* sessions whose id has not reached the tab yet
    shown,          \* sessions whose QR code has been on the screen
    status,         \* what the tab shows
    walletAddress,  \* the session the wallet was learnt from
    intervals,      \* live intervals, by the session they poll
    pollingRef,     \* the interval that stopPolling clears
    waited          \* time since startTimeRef, which all intervals share

hookVars ==
    <<asked, opening, shown, status, walletAddress, intervals, pollingRef, waited>>
vars == <<relayVars, hookVars>>

Init ==
    /\ RelayInit
    /\ asked = 0
    /\ opening = {} /\ shown = {} /\ intervals = {}
    /\ status = "idle"
    /\ walletAddress = None /\ pollingRef = None
    /\ waited = 0

TypeOK ==
    /\ RelayTypeOK
    /\ asked \in 0 .. Cardinality(SessionIds)
    /\ opening \subseteq DOMAIN session
    /\ shown \subseteq DOMAIN session
    /\ status \in {"idle", "waiting", "connected", "error"}
    /\ walletAddress \in shown \cup {None}
    /\ intervals \subseteq shown
    /\ pollingRef \in intervals \cup {None}
    /\ waited \in 0 .. MaxPollTime + 1

-----------------------------------------------------------------------------
(* The hook *)

\* Mutant: the reference outlives the interval.
StopKeepsRef ==
    /\ intervals' = intervals \ {pollingRef}
    /\ UNCHANGED pollingRef

StopPolling ==
    /\ intervals' = intervals \ {pollingRef}
    /\ pollingRef' = None

\* An effect starts the first flow.  "Try Again" is shown as long as the status
\* is "error", also while an earlier click waits for its session.
ConnectViaQR ==
    /\ \/ status = "idle" /\ asked = 0 /\ opening = {}
       \/ status = "error"
    /\ asked + Cardinality(DOMAIN session) < Cardinality(SessionIds)
    /\ StopPolling
    /\ walletAddress' = None
    /\ asked' = asked + 1
    /\ UNCHANGED <<relayVars, opening, shown, status, waited>>

PostSession(s) ==
    /\ asked > 0
    /\ CreateSession(s)
    /\ asked' = asked - 1
    /\ opening' = opening \cup {s}
    /\ UNCHANGED <<shown, status, walletAddress, intervals, pollingRef, waited>>

PostSessionFails ==
    /\ \/ asked > 0 /\ asked' = asked - 1 /\ UNCHANGED opening
       \/ \E s \in opening : opening' = opening \ {s} /\ UNCHANGED asked
    /\ status' = "error"
    /\ UNCHANGED <<relayVars, shown, walletAddress, intervals, pollingRef, waited>>

OpenSession(s) ==
    /\ s \in opening
    /\ opening' = opening \ {s}
    /\ shown' = shown \cup {s}
    /\ status' = "waiting"
    /\ intervals' = intervals \cup {s}
    /\ pollingRef' = s
    /\ waited' = 0
    /\ UNCHANGED <<relayVars, asked, walletAddress>>

TimedOut == waited > MaxPollTime

IntervalTick(s) ==
    /\ s \in intervals
    /\ \/ /\ TimedOut
          /\ StopPolling
          /\ status' = "error"
          /\ UNCHANGED relayVars
       \/ /\ ~TimedOut
          /\ \E k \in Polls :
               /\ poll[k].pc = "idle"
               /\ poll' = [poll EXCEPT ![k] = [pc |-> "sent", session |-> s]]
          /\ UNCHANGED <<sessions, orphans, session, callback,
                         intervals, pollingRef, status>>
    /\ UNCHANGED <<asked, opening, shown, walletAddress, waited>>

\* Mutant: a "connected" answer is not checked for its fields.
AnyAnswer(answer) == answer \notin {"error", "expired"}

HasWallet(answer) == answer \in {"approved", "overwritten"}

Decrypts(answer) == answer # "overwritten"

\* The await of the poll returns.  The handler does not check that its interval
\* is still the current one: StopPolling stops whichever is.
PollAnswered(k) ==
    /\ poll[k].pc = "answered"
    /\ poll' = [poll EXCEPT ![k] = [pc |-> "idle"]]
    /\ LET answer == poll[k].status IN
       \/ /\ answer = "pending"
          /\ UNCHANGED <<status, walletAddress, intervals, pollingRef>>
       \/ /\ HasWallet(answer) /\ Decrypts(answer)
          /\ StopPolling
          /\ walletAddress' = poll[k].session
          /\ status' = "connected"
       \/ /\ \/ HasWallet(answer) /\ ~Decrypts(answer)
             \/ answer \in {"error", "expired"}
          /\ StopPolling
          /\ status' = "error"
          /\ UNCHANGED walletAddress
       \/ /\ answer = "none" /\ ~HasWallet(answer)
          /\ StopPolling
          /\ UNCHANGED <<status, walletAddress>>
    /\ UNCHANGED <<sessions, orphans, session, callback, asked, opening, shown, waited>>

\* A network error on the way there or back: "keep trying".
PollLost(k) ==
    /\ poll[k].pc \in {"sent", "answered"}
    /\ poll' = [poll EXCEPT ![k] = [pc |-> "idle"]]
    /\ UNCHANGED <<sessions, orphans, session, callback, hookVars>>

-----------------------------------------------------------------------------

\* The phone opens a QR code it has seen and its owner approves or denies.
Scan(j, s) ==
    /\ s \in shown
    /\ \E approved \in BOOLEAN : CallbackLoad(j, s, approved)
    /\ UNCHANGED hookVars

Tick ==
    /\ Age
    /\ waited' = IF waited > MaxPollTime THEN waited ELSE waited + 1
    /\ UNCHANGED <<sessions, orphans, callback, poll, asked, opening, shown,
                   status, walletAddress, intervals, pollingRef>>

Hook ==
    \/ ConnectViaQR
    \/ PostSessionFails
    \/ \E s \in SessionIds : PostSession(s) \/ OpenSession(s) \/ IntervalTick(s)
    \/ \E k \in Polls : PollAnswered(k) \/ PollLost(k)

Server ==
    /\ \/ Cleanup
       \/ \E j \in Callbacks : CallbackStep(j)
       \/ \E k \in Polls : PollStep(k)
    /\ UNCHANGED hookVars

Next ==
    \/ Hook
    \/ Server
    \/ \E j \in Callbacks, s \in SessionIds : Scan(j, s)
    \/ Tick

Spec == Init /\ [][Next]_vars

\* The ticker of the cleanup goroutine and the browser's timers fire; nothing is
\* assumed of the network, the phone or the request goroutines.
Fairness ==
    /\ WF_vars(Tick)
    /\ WF_vars(Cleanup /\ UNCHANGED hookVars)
    /\ \A s \in SessionIds : WF_vars(IntervalTick(s))

FairSpec == Spec /\ Fairness

-----------------------------------------------------------------------------

\* The tab shows a wallet only if the owner of the phone approved the very
\* session it was learnt from, whichever polls and callbacks overlapped.
ConnectedIsApproved ==
    walletAddress # None => session[walletAddress].data # "none"

\* The tab does not wait for ever: in spite of leaked intervals and late
\* answers of earlier flows, which stop the polling of the current one, every
\* flow ends with a wallet or an error.
FlowEnds == status = "waiting" ~> status # "waiting"

\* cleanup "removes expired sessions": finally every session that can be found
\* under its id is gone, also one that a callback put back after a poll or the
\* cleanup had deleted it.  Only the ones a callback answered may stay, under a
\* key that a later request has overwritten: the code never finds those again.
SessionsReclaimed ==
    \A s \in SessionIds :
        <>[](s \notin sessions /\ (s \in orphans => session[s].received))
=============================================================================
